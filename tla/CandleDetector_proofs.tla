----------------------- MODULE CandleDetector_proofs -----------------------
(***************************************************************************)
(* Proofs about CandleDetector, for any number of bars, trades, unread     *)
(* messages, lost connections and faults.                                  *)
(***************************************************************************)
EXTENDS CandleDetector, TLAPS

(* Reading the next message off the stream.                                *)
LEMMA TailFacts ==
  ASSUME NEW S, NEW q \in Seq(S), q # <<>>
  PROVE  /\ Head(q) \in S
         /\ Head(q) = q[1]
         /\ 1 \in 1..Len(q)
         /\ Tail(q) \in Seq(S)
         /\ Len(Tail(q)) = Len(q) - 1
         /\ \A i \in 1..Len(Tail(q)) : Tail(q)[i] = q[i + 1] /\ i + 1 \in 1..Len(q)
  OBVIOUS

(* Sending one.                                                            *)
LEMMA AppendFacts ==
  ASSUME NEW S, NEW q \in Seq(S), NEW e \in S
  PROVE  /\ Append(q, e) \in Seq(S)
         /\ Len(Append(q, e)) = Len(q) + 1
         /\ \A i \in 1..Len(q) : Append(q, e)[i] = q[i]
         /\ Append(q, e)[Len(q) + 1] = e
  OBVIOUS

(* The number of a closed bar, or of the one that trades, is a bar's.      *)
LEMMA BarFacts ==
  ASSUME TypeOK
  PROVE  /\ closed \in Nat /\ due \in Nat /\ lastEnd \in Nat
         /\ \A b \in Bars : b \in Nat /\ b > 0
         /\ \A b \in 1..closed : b \in Bars
         /\ 0 \notin Bars
         /\ MaxValue \in Nat /\ MaxValue > 0 /\ NBars \in Nat
BY BoundsAssumption DEF TypeOK, Bars

(* What Send puts on the wire.                                             *)
LEMMA SendFacts ==
  ASSUME TypeOK, NEW b \in Bars, NEW v \in 1..MaxValue, NEW c \in BOOLEAN,
         Send(b, v, c)
  PROVE  /\ wire' \in Seq(Messages)
         /\ Len(wire') <= MaxWire
         /\ \A i \in 1..Len(wire') :
              \/ i \in 1..Len(wire) /\ wire'[i] = wire[i]
              \/ wire'[i] = [bar |-> b, value |-> v, confirm |-> c]
<1>1. [bar |-> b, value |-> v, confirm |-> c] \in Messages
  BY DEF Messages
<1>2. wire \in Seq(Messages) /\ Len(wire) \in Nat /\ MaxWire \in Nat /\ Len(wire) <= MaxWire
  BY BoundsAssumption DEF TypeOK
<1>3. CASE connected
  <2>1. wire' = Append(wire, [bar |-> b, value |-> v, confirm |-> c]) /\ Len(wire) < MaxWire
    BY <1>3 DEF Send
  <2> QED BY <1>1, <1>2, <2>1, AppendFacts
<1>4. CASE ~connected
  BY <1>2, <1>4 DEF Send
<1> QED BY <1>3, <1>4

-----------------------------------------------------------------------------
(***************************************************************************)
(* Types.                                                                  *)
(***************************************************************************)
(* Where a handler is, and what it holds.                                  *)
LEMMA ReaderType ==
  ASSUME TypeOK
  PROVE  /\ reader.msg.value \in 0..MaxValue
         /\ reader.msg.bar \in Bars \cup {0}
         /\ reader.pc # "idle" => reader.msg.bar \in Bars
         /\ \A p \in {"live", "decide", "row", "read", "file"} :
              reader.pc # "idle" => [reader EXCEPT !.pc = p] \in Readers
<1>1. CASE reader = IdleReader
  BY <1>1, BarFacts DEF IdleReader, NoMessage, Nothing
<1>2. CASE reader \in [pc : {"live", "decide", "row", "read", "file"}, msg : Messages]
  <2>1. reader.msg \in Messages
    BY <1>2
  <2>2. reader.msg.value \in 0..MaxValue /\ reader.msg.bar \in Bars
    BY <2>1, BarFacts DEF Messages
  <2>3. \A p \in {"live", "decide", "row", "read", "file"} : [reader EXCEPT !.pc = p] \in Readers
    BY <1>2 DEF Readers
  <2> QED BY <2>2, <2>3
<1> QED BY <1>1, <1>2 DEF TypeOK, Readers

LEMMA MonitorType ==
  ASSUME TypeOK
  PROVE  /\ monitor.value \in 0..MaxValue
         /\ monitor.bar \in Bars \cup {0}
         /\ monitor.pc \in {"row", "read", "file"} =>
              /\ monitor.bar \in Bars
              /\ \A p \in {"row", "read", "file"} : [monitor EXCEPT !.pc = p] \in Monitors
<1>1. CASE monitor \in {IdleMonitor, DeadMonitor}
  BY <1>1, BarFacts DEF IdleMonitor, DeadMonitor, Nothing
<1>2. CASE monitor \in [pc : {"row", "read", "file"}, bar : Bars, value : 0 .. MaxValue,
                        keys : SUBSET Bars]
  BY <1>2 DEF Monitors
<1> QED BY <1>1, <1>2 DEF TypeOK, Monitors

(* What an upsert leaves in the table.                                     *)
LEMMA UpsertType ==
  ASSUME TypeOK, NEW b, NEW v \in 0..MaxValue, Upserted(b, v)
  PROVE  row' \in [Bars -> Values] /\ faults' \in 0..MaxFaults
<1>1. v \in Values
  BY BarFacts DEF Values, Corrected
<1>2. CASE row' = [row EXCEPT ![b] = v] /\ UNCHANGED faults
  BY <1>1, <1>2 DEF TypeOK
<1>3. CASE Fault /\ UNCHANGED row
  BY <1>3, BoundsAssumption DEF TypeOK, Fault
<1> QED BY <1>2, <1>3 DEF Upserted

(* A claim is on a bar, and counts it once more.                           *)
LEMMA ClaimType ==
  ASSUME TypeOK, NEW b \in Bars, Claim(b)
  PROVE  lastEnd' \in 0..NBars /\ evals' \in [Bars -> Nat]
<1>1. lastEnd' \in 0..NBars
  BY DEF Claim, Bars
<1>2. evals[b] + 1 \in Nat
  BY DEF TypeOK
<1>3. evals' = [evals EXCEPT ![b] = evals[b] + 1]
  BY DEF Claim
<1>4. evals' \in [Bars -> Nat]
  BY <1>2, <1>3 DEF TypeOK
<1> QED BY <1>1, <1>4

LEMMA CheckType ==
  ASSUME TypeOK, NEW b, NEW s \in CheckSteps
  PROVE  [check EXCEPT ![b] = s] \in [Bars -> CheckSteps]
BY DEF TypeOK

(* What reading the file, and saving it, leave of it.                      *)
LEMMA ReadType ==
  ASSUME TypeOK, NEW w \in Writers, ReadFile(w)
  PROVE  /\ file' \in [Bars -> Values]
         /\ copy' \in [Writers -> [Bars -> Values]]
         /\ overlapped' \subseteq Bars
BY DEF TypeOK, ReadFile

LEMMA SaveType ==
  ASSUME TypeOK, NEW w \in Writers, NEW b \in Bars, NEW v \in Values, Save(w, b, v)
  PROVE  /\ file' \in [Bars -> Values]
         /\ copy' \in [Writers -> [Bars -> Values]]
         /\ overlapped' \subseteq Bars
<1>1. EmptyFile \in [Bars -> Values]
  BY BarFacts DEF EmptyFile, Nothing, Values, Corrected
<1>2. copy[w] \in [Bars -> Values]
  BY DEF TypeOK
<1>3. file' \in [Bars -> Values]
  BY <1>2 DEF Save
<1>4. copy' \in [Writers -> [Bars -> Values]]
  BY <1>1 DEF Save, TypeOK
<1> QED BY <1>3, <1>4 DEF Save, TypeOK

LEMMA InitType == Init => TypeOK
<1> SUFFICES ASSUME Init PROVE TypeOK
  OBVIOUS
<1>1. EmptyFile \in [Bars -> Values]
  BY BoundsAssumption DEF EmptyFile, Nothing, Values, Corrected
<1>2. file \in [Bars -> Values] /\ copy \in [Writers -> [Bars -> Values]]
  BY <1>1 DEF Init
<1> QED
  BY <1>2, BoundsAssumption
     DEF Init, TypeOK, IdleReader, IdleMonitor, NoMessage, Messages, Bars, Values,
         Corrected, CheckSteps, Nothing, Readers, Monitors, DeadMonitor

(* A bar's count of trades, before and after one more.                     *)
LEMMA TradedFacts ==
  ASSUME TypeOK, NEW b \in Bars
  PROVE  /\ traded[b] \in 0..MaxValue
         /\ traded[b] # Nothing => traded[b] \in 1..MaxValue
         /\ traded[b] < MaxValue => traded[b] + 1 \in 1..MaxValue
<1>1. MaxValue \in Nat /\ traded \in [Bars -> 0..MaxValue]
  BY BoundsAssumption DEF TypeOK
<1>2. traded[b] \in 0..MaxValue
  BY <1>1
<1> QED BY <1>1, <1>2 DEF Nothing

LEMMA NextType == TypeOK /\ [Next]_vars => TypeOK'
<1> SUFFICES ASSUME TypeOK, [Next]_vars PROVE TypeOK'
  OBVIOUS
<1> USE BarFacts
<1>f. ASSUME Fault PROVE faults' \in 0..MaxFaults
  BY <1>f, BoundsAssumption DEF Fault, TypeOK
<1>v. 0..MaxValue \subseteq Values /\ 1..MaxValue \subseteq Values /\ Corrected \in Values
  BY DEF Values, Corrected
<1>m. /\ IdleReader \in Readers
      /\ IdleMonitor \in Monitors
      /\ DeadMonitor \in Monitors
  BY DEF Readers, Monitors
<1>w. ByReader \in Writers /\ ByMonitor \in Writers /\ Bars \subseteq Writers
  BY DEF Writers
<1>1. CASE Trade
  <2> DEFINE b == closed + 1
  <2>1. b \in Bars /\ traded' = [traded EXCEPT ![b] = @ + 1] /\ traded[b] < MaxValue
    BY <1>1 DEF Trade
  <2>t. traded \in [Bars -> 0..MaxValue]
    BY DEF TypeOK
  <2>i. traded[b] + 1 \in 1..MaxValue
    BY <2>1, TradedFacts
  <2>2. traded' \in [Bars -> 0..MaxValue] /\ traded'[b] \in 1..MaxValue
    BY <2>1, <2>t, <2>i
  <2>3. Send(b, traded'[b], FALSE)
    BY <1>1 DEF Trade
  <2>4. wire' \in Seq(Messages) /\ Len(wire') <= MaxWire
    BY <2>1, <2>2, <2>3, SendFacts
  <2> QED BY <1>1, <2>2, <2>4 DEF Trade, TypeOK, evalVars, storeVars
<1>2. CASE Close
  <2> DEFINE b == closed + 1
  <2>1. b \in Bars /\ closed' = b /\ traded[b] \in 1..MaxValue
    BY <1>2 DEF Close, TypeOK, Nothing
  <2>2. Send(b, traded[b], TRUE)
    BY <1>2 DEF Close
  <2>3. wire' \in Seq(Messages) /\ Len(wire') <= MaxWire
    BY <2>1, <2>2, SendFacts
  <2>4. official' \in [Bars -> Values]
    BY <1>2, <1>v, <2>1 DEF Close, TypeOK
  <2>5. closed' \in 0..NBars /\ due' \in 0..closed'
    BY <1>2, <2>1 DEF Close, TypeOK, Bars
  <2> QED BY <1>2, <2>3, <2>4, <2>5 DEF Close, TypeOK, evalVars, storeVars
<1>3. CASE GracePasses
  BY <1>3 DEF GracePasses, TypeOK, streamVars, evalVars, storeVars
<1>4. CASE Drop
  <2>1. drops' \in 0..MaxDrops
    BY <1>4, BoundsAssumption DEF Drop, TypeOK
  <2>2. <<>> \in Seq(Messages) /\ Len(<<>>) <= MaxWire
    BY BoundsAssumption
  <2> QED BY <1>4, <2>1, <2>2 DEF Drop, TypeOK, exchangeVars, evalVars, storeVars
<1>5. CASE Reconnect
  BY <1>5 DEF Reconnect, TypeOK, exchangeVars, evalVars, storeVars
<1>6. CASE Receive
  <2>1. wire # <<>> /\ wire \in Seq(Messages) /\ Len(wire) <= MaxWire /\ Len(wire) \in Nat
    BY <1>6 DEF Receive, TypeOK
  <2>2. Head(wire) \in Messages /\ Tail(wire) \in Seq(Messages) /\ Len(Tail(wire)) <= MaxWire
    BY <2>1, TailFacts, BoundsAssumption
  <2>3. wire' = Tail(wire) /\ reader' = [pc |-> "live", msg |-> Head(wire)]
    BY <1>6 DEF Receive
  <2>4. reader' \in Readers
    BY <2>2, <2>3 DEF Readers
  <2>5. wire' \in Seq(Messages) /\ Len(wire') <= MaxWire
    BY <2>2, <2>3
  <2> QED BY <1>6, <2>4, <2>5 DEF Receive, TypeOK, exchangeVars, evalVars, storeVars
<1>7. CASE LiveUpsert
  <2>1. row' \in [Bars -> Values] /\ faults' \in 0..MaxFaults
    BY <1>7, ReaderType, UpsertType DEF LiveUpsert
  <2>2. reader' \in Readers
    BY <1>7, ReaderType DEF LiveUpsert
  <2> QED BY <1>7, <2>1, <2>2 DEF LiveUpsert, TypeOK, exchangeVars, streamVars, evalVars, fileVars
<1>8. CASE Pend
  <2>1. pending' \in [Bars -> 0..MaxValue]
    BY <1>8, ReaderType DEF Pend, TypeOK
  <2> QED BY <1>8, <1>m, <2>1
       DEF Pend, TypeOK, exchangeVars, streamVars, evalVars, storeVars
<1>9. CASE Confirm
  <2>1. reader.msg.bar \in Bars
    BY <1>9, ReaderType DEF Confirm, Claim, Claimable
  <2>2. lastEnd' \in 0..NBars /\ evals' \in [Bars -> Nat]
    BY <1>9, <2>1, ClaimType DEF Confirm
  <2>3. reader' \in Readers
    BY <1>9, ReaderType DEF Confirm
  <2> QED BY <1>9, <2>2, <2>3 DEF Confirm, TypeOK, exchangeVars, streamVars, storeVars
<1>10. CASE IgnoreConfirm
  BY <1>10, <1>m DEF IgnoreConfirm, TypeOK, exchangeVars, streamVars, evalVars, storeVars
<1>11. CASE ReaderRow
  <2>1. row' \in [Bars -> Values] /\ faults' \in 0..MaxFaults
    BY <1>11, ReaderType, UpsertType DEF ReaderRow
  <2>2. reader' \in Readers
    BY <1>11, ReaderType DEF ReaderRow
  <2> QED BY <1>11, <2>1, <2>2 DEF ReaderRow, TypeOK, exchangeVars, streamVars, evalVars, fileVars
<1>12. CASE ReaderFile
  <2>1. reader.msg.bar \in Bars /\ reader.msg.value \in Values
    BY <1>12, <1>v, ReaderType DEF ReaderFile
  <2>2. CASE Printed(ByReader, reader.msg.bar, reader.msg.value) /\ UNCHANGED faults
    <3>1. /\ file' \in [Bars -> Values] /\ copy' \in [Writers -> [Bars -> Values]]
          /\ overlapped' \subseteq Bars
      BY <1>w, <2>1, <2>2, SaveType DEF Printed
    <3>2. check' \in [Bars -> CheckSteps]
      BY <2>2, CheckType DEF Printed, CheckSteps
    <3> QED BY <1>12, <1>m, <2>2, <3>1, <3>2
         DEF ReaderFile, TypeOK, exchangeVars, streamVars, evalVars
  <2>3. CASE Fault /\ UNCHANGED <<fileVars, check>>
    BY <1>12, <1>m, <1>f, <2>3
       DEF ReaderFile, TypeOK, exchangeVars, streamVars, evalVars, fileVars
  <2> QED BY <1>12, <2>2, <2>3 DEF ReaderFile
<1>13. CASE MonitorPoll
  <2>1. PICK b \in Overdue :
          /\ Claim(b)
          /\ overdueBy' = overdueBy \cup {b}
          /\ monitor' = [pc |-> "row", bar |-> b, value |-> pending[b], keys |-> Pended]
    BY <1>13 DEF MonitorPoll
  <2>2. b \in Bars /\ Pended \subseteq Bars
    BY DEF Overdue, Pended
  <2>3. lastEnd' \in 0..NBars /\ evals' \in [Bars -> Nat] /\ overdueBy' \subseteq Bars
    BY <2>1, <2>2, ClaimType DEF TypeOK
  <2>4. monitor' \in Monitors
    BY <2>1, <2>2 DEF TypeOK, Monitors
  <2> QED BY <1>13, <2>3, <2>4 DEF MonitorPoll, TypeOK, exchangeVars, streamVars, storeVars
<1>14. CASE MonitorRow
  <2>1. row' \in [Bars -> Values] /\ faults' \in 0..MaxFaults
    BY <1>14, MonitorType, UpsertType DEF MonitorRow
  <2>2. monitor' \in Monitors
    BY <1>14, MonitorType DEF MonitorRow
  <2> QED BY <1>14, <2>1, <2>2 DEF MonitorRow, TypeOK, exchangeVars, streamVars, evalVars, fileVars
<1>15. CASE MonitorFile
  <2>1. /\ monitor.bar \in Bars /\ monitor.value \in Values /\ "sleep" \in CheckSteps
        /\ Printed(ByMonitor, monitor.bar, monitor.value)
    BY <1>15, <1>v, MonitorType DEF CheckSteps, MonitorFile
  <2>5. /\ file' \in [Bars -> Values] /\ copy' \in [Writers -> [Bars -> Values]]
        /\ overlapped' \subseteq Bars
    BY <1>w, <2>1, SaveType DEF Printed
  <2>3. check' \in [Bars -> CheckSteps]
    BY <2>1, CheckType DEF Printed
  <2>4. Nothing \in 0..MaxValue
    BY DEF Nothing
  <2>2. pending' \in [Bars -> 0..MaxValue]
    BY <1>15, <2>4 DEF MonitorFile, TypeOK
  <2> QED BY <1>15, <1>m, <2>2, <2>3, <2>5
       DEF MonitorFile, TypeOK, exchangeVars, streamVars, evalVars
<1>16. CASE MonitorFileFails
  BY <1>16, <1>m, <1>f
     DEF MonitorFileFails, TypeOK, exchangeVars, streamVars, evalVars, storeVars
<1>17. ASSUME NEW b \in Bars, Fetch(b) PROVE TypeOK'
  <2>1. check' \in [Bars -> CheckSteps]
    BY <1>17, CheckType DEF Fetch, CheckSteps
  <2> QED BY <1>17, <2>1 DEF Fetch, TypeOK, exchangeVars, streamVars, evalVars, storeVars
<1>18. ASSUME NEW b \in Bars, Compare(b) PROVE TypeOK'
  <2>1. check' \in [Bars -> CheckSteps]
    BY <1>18, CheckType DEF Compare, CheckSteps
  <2> QED BY <1>18, <2>1 DEF Compare, TypeOK, exchangeVars, streamVars, evalVars, storeVars
<1>19. ASSUME NEW b \in Bars, Repair(b) PROVE TypeOK'
  <2>1. check' \in [Bars -> CheckSteps]
    BY <1>19, CheckType DEF Repair, CheckSteps
  <2>2. row' \in [Bars -> Values]
    BY <1>19 DEF Repair, TypeOK
  <2> QED BY <1>19, <2>1, <2>2 DEF Repair, TypeOK, exchangeVars, streamVars, evalVars, fileVars
<1>20. ASSUME NEW b \in Bars, SaveOfficial(b) PROVE TypeOK'
  <2>1. check' \in [Bars -> CheckSteps]
    BY <1>20, CheckType DEF SaveOfficial, CheckSteps
  <2>2. b \in Writers /\ official[b] \in Values /\ Save(b, b, official[b])
    BY <1>20, <1>w DEF SaveOfficial, TypeOK
  <2>3. /\ file' \in [Bars -> Values] /\ copy' \in [Writers -> [Bars -> Values]]
        /\ overlapped' \subseteq Bars
    BY <2>2, SaveType
  <2> QED BY <1>20, <2>1, <2>3 DEF SaveOfficial, TypeOK, exchangeVars, streamVars, evalVars
<1>21. ASSUME NEW b \in Bars, Notify(b) PROVE TypeOK'
  <2>1. check' \in [Bars -> CheckSteps]
    BY <1>21, CheckType DEF Notify, CheckSteps
  <2> QED BY <1>21, <2>1 DEF Notify, TypeOK, exchangeVars, streamVars, evalVars, storeVars
<1>22. ASSUME NEW b \in Bars, GiveUp(b) PROVE TypeOK'
  <2>1. check' \in [Bars -> CheckSteps]
    BY <1>22, CheckType DEF GiveUp, CheckSteps
  <2> QED BY <1>22, <1>f, <2>1 DEF GiveUp, TypeOK, exchangeVars, streamVars, evalVars, storeVars
<1>23. CASE Crash
  <2>1. /\ <<>> \in Seq(Messages) /\ Len(<<>>) <= MaxWire
        /\ pending' \in [Bars -> 0..MaxValue]
        /\ check' \in [Bars -> CheckSteps]
        /\ lastEnd' \in 0..NBars
    BY <1>23, BoundsAssumption DEF Crash, TypeOK, Nothing, CheckSteps
  <2> QED BY <1>23, <1>m, <1>f, <2>1 DEF Crash, TypeOK, exchangeVars, storeVars
<1>25. CASE ReaderReads
  <2>1. reader' \in Readers
    BY <1>25, ReaderType DEF ReaderReads
  <2>2. /\ file' \in [Bars -> Values] /\ copy' \in [Writers -> [Bars -> Values]]
        /\ overlapped' \subseteq Bars
    BY <1>25, <1>w, ReadType DEF ReaderReads
  <2> QED BY <1>25, <2>1, <2>2 DEF ReaderReads, TypeOK, exchangeVars, streamVars, evalVars
<1>26. CASE MonitorReads
  <2>1. monitor' \in Monitors
    BY <1>26, MonitorType DEF MonitorReads
  <2>2. /\ file' \in [Bars -> Values] /\ copy' \in [Writers -> [Bars -> Values]]
        /\ overlapped' \subseteq Bars
    BY <1>26, <1>w, ReadType DEF MonitorReads
  <2> QED BY <1>26, <2>1, <2>2 DEF MonitorReads, TypeOK, exchangeVars, streamVars, evalVars
<1>27. ASSUME NEW b \in Bars, CheckReads(b) PROVE TypeOK'
  <2>1. check' \in [Bars -> CheckSteps]
    BY <1>27, CheckType DEF CheckReads, CheckSteps
  <2>2. /\ file' \in [Bars -> Values] /\ copy' \in [Writers -> [Bars -> Values]]
        /\ overlapped' \subseteq Bars
    BY <1>27, <1>w, ReadType DEF CheckReads
  <2> QED BY <1>27, <2>1, <2>2 DEF CheckReads, TypeOK, exchangeVars, streamVars, evalVars
<1>24. CASE UNCHANGED vars
  BY <1>24 DEF vars, TypeOK
<1> QED
  BY <1>1, <1>2, <1>3, <1>4, <1>5, <1>6, <1>7, <1>8, <1>9, <1>10, <1>11, <1>12,
     <1>13, <1>14, <1>15, <1>16, <1>17, <1>18, <1>19, <1>20, <1>21, <1>22, <1>23,
     <1>24, <1>25, <1>26, <1>27
     DEF Next, Exchange, Reader, Monitor, Check, CheckStep

(* Every reachable state of the detector is well typed.                    *)
THEOREM TypeCorrect == Spec => []TypeOK
BY InitType, NextType, PTL DEF Spec

-----------------------------------------------------------------------------
(***************************************************************************)
(* One evaluation per bar.  After a restart last_confirmed_end is empty    *)
(* again; what then protects an evaluated bar is that nothing the tasks    *)
(* could take it from has a trace of it, and never will, for the stream    *)
(* has gone on to later bars.                                              *)
(***************************************************************************)
Traceless(b) ==
  /\ pending[b] = Nothing
  /\ reader.msg.bar # b
  /\ \A i \in 1..Len(wire) : wire[i].bar # b

Untouched(b) == evals[b] = 0

OnceAndForAll(b) ==
  /\ evals[b] = 1
  /\ b <= closed
  /\ b <= lastEnd \/ Traceless(b)

(* A confirm is only sent of a bar that is closed.                         *)
ConfirmsAreOfClosed ==
  /\ reader.msg.confirm => reader.msg.bar <= closed
  /\ \A i \in 1..Len(wire) : wire[i].confirm => wire[i].bar <= closed

OnceInv ==
  /\ TypeOK
  /\ ConfirmsAreOfClosed
  /\ \A b \in Bars : Untouched(b) \/ OnceAndForAll(b)

(* A step that adds no trace of an evaluated bar and moves neither the     *)
(* counters nor the last end back keeps it evaluated once.                 *)
LEMMA KeptOnce ==
  ASSUME OnceInv, NEW b \in Bars,
         evals'[b] = evals[b],
         closed <= closed', closed' \in Nat,
         lastEnd' \in Nat,
         lastEnd <= lastEnd' \/ Traceless(b)',
         b <= closed /\ Traceless(b) => Traceless(b)'
  PROVE  Untouched(b)' \/ OnceAndForAll(b)'
<1>1. CASE Untouched(b)
  BY <1>1 DEF Untouched
<1>2. CASE OnceAndForAll(b)
  <2>1. TypeOK
    BY DEF OnceInv
  <2>2. b <= closed'
    BY <1>2, <2>1, BarFacts DEF OnceAndForAll
  <2>3. b <= lastEnd' \/ Traceless(b)'
    BY <1>2, <2>1, BarFacts DEF OnceAndForAll
  <2> QED BY <1>2, <2>2, <2>3 DEF OnceAndForAll
<1> QED BY <1>1, <1>2 DEF OnceInv

(* A bar that is claimed has never been evaluated.                         *)
LEMMA ClaimedOnce ==
  ASSUME OnceInv, NEW b \in Bars, Claim(b), ~Traceless(b), b <= closed,
         closed' = closed
  PROVE  /\ OnceAndForAll(b)'
         /\ \A c \in Bars : c # b => evals'[c] = evals[c]
         /\ lastEnd <= lastEnd' /\ lastEnd' \in Nat
<1>1. TypeOK
  BY DEF OnceInv
<1>2. b > lastEnd /\ lastEnd' = b /\ evals' = [evals EXCEPT ![b] = @ + 1]
  BY DEF Claim, Claimable
<1>3. b \in Nat /\ lastEnd \in Nat
  BY <1>1, BarFacts
<1>4. evals[b] = 0
  BY <1>2, <1>3 DEF OnceInv, Untouched, OnceAndForAll
<1>5. evals'[b] = 1 /\ \A c \in Bars : c # b => evals'[c] = evals[c]
  BY <1>1, <1>2, <1>4 DEF TypeOK
<1> QED BY <1>2, <1>3, <1>5 DEF OnceAndForAll

LEMMA InitOnce == Init => OnceInv
<1> SUFFICES ASSUME Init PROVE OnceInv
  OBVIOUS
<1>1. TypeOK
  BY InitType
<1>2. ConfirmsAreOfClosed
  BY DEF Init, ConfirmsAreOfClosed, IdleReader, NoMessage
<1>3. \A b \in Bars : Untouched(b)
  BY DEF Init, Untouched
<1> QED BY <1>1, <1>2, <1>3 DEF OnceInv

LEMMA NextOnce == OnceInv /\ [Next]_vars => OnceInv'
<1> SUFFICES ASSUME OnceInv, [Next]_vars PROVE OnceInv'
  OBVIOUS
<1>t. TypeOK /\ TypeOK'
  BY NextType DEF OnceInv
<1>b. /\ closed \in Nat /\ lastEnd \in Nat /\ due \in Nat /\ due <= closed
      /\ \A b \in Bars : b \in Nat /\ b # 0
  <2>1. closed \in Nat /\ lastEnd \in Nat /\ due \in Nat /\ \A b \in Bars : b \in Nat /\ b > 0
    BY <1>t, BarFacts
  <2>2. due \in 0..closed
    BY <1>t DEF TypeOK
  <2> QED BY <2>1, <2>2
<1>w. wire \in Seq(Messages) /\ Len(wire) \in Nat
  BY <1>t DEF TypeOK
<1> DEFINE Goal == ConfirmsAreOfClosed' /\ \A b \in Bars : Untouched(b)' \/ OnceAndForAll(b)'
<1> SUFFICES Goal
  BY <1>t DEF OnceInv
<1>s. ASSUME NEW b \in Bars, NEW v \in 1..MaxValue, NEW c \in BOOLEAN, Send(b, v, c),
             b = closed + 1, c => b <= closed', closed' \in Nat, closed <= closed',
             reader' = reader, pending' = pending, evals' = evals, lastEnd' = lastEnd
      PROVE  Goal
  <2>1. \A i \in 1..Len(wire') :
          \/ i \in 1..Len(wire) /\ wire'[i] = wire[i]
          \/ wire'[i] = [bar |-> b, value |-> v, confirm |-> c]
    BY <1>s, <1>t, SendFacts
  <2>2. ConfirmsAreOfClosed'
    <3>1. reader'.msg.confirm => reader'.msg.bar <= closed'
      <4>1. reader.msg.bar \in Bars \cup {0}
        BY <1>t, ReaderType
      <4>2. reader.msg.bar \in Nat
        BY <1>b, <4>1
      <4>3. reader.msg.confirm => reader.msg.bar <= closed
        BY DEF OnceInv, ConfirmsAreOfClosed
      <4>4. reader' = reader
        BY <1>s
      <4> QED BY <1>s, <1>b, <4>2, <4>3, <4>4
    <3>2. ASSUME NEW i \in 1..Len(wire'), wire'[i].confirm
          PROVE  wire'[i].bar <= closed'
      <4>1. CASE i \in 1..Len(wire) /\ wire'[i] = wire[i]
        <5>1. wire[i] \in Messages
          BY <1>w, <4>1
        <5>2. wire[i].bar \in Nat /\ wire[i].bar <= closed
          BY <1>b, <3>2, <4>1, <5>1 DEF OnceInv, ConfirmsAreOfClosed, Messages
        <5> QED BY <1>s, <1>b, <4>1, <5>2
      <4>2. CASE wire'[i] = [bar |-> b, value |-> v, confirm |-> c]
        BY <1>s, <3>2, <4>2
      <4> QED BY <2>1, <4>1, <4>2
    <3> QED BY <3>1, <3>2 DEF ConfirmsAreOfClosed
  <2>3. ASSUME NEW d \in Bars PROVE Untouched(d)' \/ OnceAndForAll(d)'
    <3>1. d <= closed /\ Traceless(d) => Traceless(d)'
      <4> SUFFICES ASSUME d <= closed, Traceless(d) PROVE Traceless(d)'
        OBVIOUS
      <4>1. d # b
        BY <1>s, <1>b
      <4>2. \A i \in 1..Len(wire') : wire'[i].bar # d
        BY <2>1, <4>1 DEF Traceless
      <4> QED BY <1>s, <4>2 DEF Traceless
    <3> QED BY <1>s, <1>b, <3>1, KeptOnce
  <2> QED BY <2>2, <2>3
<1>k. ASSUME UNCHANGED <<closed, lastEnd, evals>>, ConfirmsAreOfClosed',
             \A b \in Bars : Traceless(b) => Traceless(b)'
      PROVE  Goal
  BY <1>k, <1>b, KeptOnce
<1>u. ASSUME UNCHANGED <<wire, reader.msg, pending, closed, lastEnd, evals>>
      PROVE  Goal
  <2>1. ConfirmsAreOfClosed'
    BY <1>u DEF OnceInv, ConfirmsAreOfClosed
  <2>2. \A b \in Bars : Traceless(b) => Traceless(b)'
    BY <1>u DEF Traceless
  <2> QED BY <1>u, <2>1, <2>2, <1>k
<1>i. NoMessage.confirm = FALSE /\ NoMessage.bar = 0 /\ IdleReader.msg = NoMessage
  BY DEF NoMessage, IdleReader
<1>1. CASE Trade
  <2>0. PICK b : b = closed + 1
    OBVIOUS
  <2>1. b \in Bars /\ traded[b] < MaxValue /\ traded' = [traded EXCEPT ![b] = @ + 1]
    BY <1>1, <2>0 DEF Trade
  <2>t. traded \in [Bars -> 0..MaxValue] /\ traded[b] + 1 \in 1..MaxValue
    BY <1>t, <2>1, TradedFacts DEF TypeOK
  <2>2. traded'[b] \in 1..MaxValue
    BY <2>1, <2>t
  <2>3. /\ Send(b, traded'[b], FALSE)
        /\ reader' = reader /\ pending' = pending /\ evals' = evals /\ lastEnd' = lastEnd
        /\ closed' = closed
    BY <1>1, <2>0 DEF Trade, evalVars
  <2>4. closed' \in Nat /\ closed <= closed' /\ FALSE \in BOOLEAN
    BY <1>b, <2>3
  <2> QED BY <1>s, <2>0, <2>1, <2>2, <2>3, <2>4
<1>2. CASE Close
  <2>0. PICK b : b = closed + 1
    OBVIOUS
  <2>1. b \in Bars /\ traded[b] # Nothing /\ closed' = b
    BY <1>2, <2>0 DEF Close
  <2>2. traded[b] \in 1..MaxValue
    BY <1>t, <2>1, TradedFacts
  <2>3. /\ Send(b, traded[b], TRUE)
        /\ reader' = reader /\ pending' = pending /\ evals' = evals /\ lastEnd' = lastEnd
    BY <1>2, <2>0 DEF Close, evalVars
  <2>4. closed' \in Nat /\ closed <= closed' /\ b <= closed' /\ TRUE \in BOOLEAN
    BY <1>b, <2>0, <2>1
  <2> QED BY <1>s, <2>0, <2>1, <2>2, <2>3, <2>4
<1>3. CASE GracePasses
  BY <1>3, <1>u DEF GracePasses, streamVars, evalVars
<1>4. CASE Drop
  <2>1. wire' = <<>> /\ UNCHANGED <<reader, pending, closed, lastEnd, evals>>
    BY <1>4 DEF Drop, exchangeVars, evalVars
  <2>2. ConfirmsAreOfClosed'
    BY <2>1 DEF OnceInv, ConfirmsAreOfClosed
  <2>3. \A b \in Bars : Traceless(b) => Traceless(b)'
    BY <2>1 DEF Traceless
  <2> QED BY <2>1, <2>2, <2>3, <1>k
<1>5. CASE Reconnect
  BY <1>5, <1>u DEF Reconnect, exchangeVars, evalVars
<1>6. CASE Receive
  <2>1. /\ wire # <<>> /\ wire' = Tail(wire) /\ reader'.msg = Head(wire)
        /\ UNCHANGED <<pending, closed, lastEnd, evals>>
    BY <1>6 DEF Receive, exchangeVars, evalVars
  <2>2. /\ Head(wire) = wire[1] /\ 1 \in 1..Len(wire)
        /\ \A i \in 1..Len(Tail(wire)) : Tail(wire)[i] = wire[i + 1] /\ i + 1 \in 1..Len(wire)
    BY <1>w, <2>1, TailFacts
  <2>3. ConfirmsAreOfClosed'
    BY <2>1, <2>2 DEF OnceInv, ConfirmsAreOfClosed
  <2>4. \A b \in Bars : Traceless(b) => Traceless(b)'
    BY <2>1, <2>2 DEF Traceless
  <2> QED BY <2>1, <2>3, <2>4, <1>k
<1>7. CASE LiveUpsert
  BY <1>7, <1>u DEF LiveUpsert, exchangeVars, streamVars, evalVars
<1>8. CASE Pend
  <2>1. /\ pending' = [pending EXCEPT ![reader.msg.bar] = reader.msg.value]
        /\ reader' = IdleReader
        /\ UNCHANGED <<wire, closed, lastEnd, evals>>
    BY <1>8 DEF Pend, exchangeVars, streamVars, evalVars
  <2>2. ConfirmsAreOfClosed'
    BY <1>i, <2>1 DEF OnceInv, ConfirmsAreOfClosed
  <2>3. ASSUME NEW b \in Bars, Traceless(b) PROVE Traceless(b)'
    <3>1. pending' [b] = Nothing
      BY <1>t, <2>1, <2>3 DEF Traceless, TypeOK
    <3> QED BY <1>b, <1>i, <2>1, <2>3, <3>1 DEF Traceless
  <2> QED BY <2>1, <2>2, <2>3, <1>k
<1>9. CASE Confirm
  <2>0. PICK b : b = reader.msg.bar
    OBVIOUS
  <2>1. /\ Claim(b) /\ reader.msg.confirm /\ reader'.msg = reader.msg
        /\ UNCHANGED <<wire, closed, pending>>
    BY <1>9, <1>t, <2>0 DEF Confirm, exchangeVars, streamVars, TypeOK, Readers
  <2>2. b \in Bars
    BY <1>t, <1>b, <2>0, <2>1, ReaderType DEF Claim, Claimable
  <2>3. ~Traceless(b) /\ b <= closed
    BY <2>0, <2>1 DEF Traceless, OnceInv, ConfirmsAreOfClosed
  <2>4. /\ OnceAndForAll(b)'
        /\ \A c \in Bars : c # b => evals'[c] = evals[c]
        /\ lastEnd <= lastEnd' /\ lastEnd' \in Nat
    BY <2>1, <2>2, <2>3, ClaimedOnce
  <2>5. \A c \in Bars : Traceless(c) => Traceless(c)'
    BY <2>1 DEF Traceless
  <2>6. ConfirmsAreOfClosed'
    BY <2>1 DEF OnceInv, ConfirmsAreOfClosed
  <2>7. \A c \in Bars : c # b => Untouched(c)' \/ OnceAndForAll(c)'
    BY <1>b, <2>1, <2>4, <2>5, KeptOnce
  <2> QED BY <2>4, <2>6, <2>7
<1>10. CASE IgnoreConfirm
  <2>1. reader' = IdleReader /\ UNCHANGED <<wire, pending, closed, lastEnd, evals>>
    BY <1>10 DEF IgnoreConfirm, exchangeVars, streamVars, evalVars
  <2>2. ConfirmsAreOfClosed'
    BY <1>i, <2>1 DEF OnceInv, ConfirmsAreOfClosed
  <2>3. \A b \in Bars : Traceless(b) => Traceless(b)'
    BY <1>b, <1>i, <2>1 DEF Traceless
  <2> QED BY <2>1, <2>2, <2>3, <1>k
<1>11. CASE ReaderRow
  BY <1>11, <1>u DEF ReaderRow, exchangeVars, streamVars, evalVars
<1>12. CASE ReaderFile
  <2>1. reader' = IdleReader /\ UNCHANGED <<wire, pending, closed, lastEnd, evals>>
    BY <1>12 DEF ReaderFile, exchangeVars, streamVars, evalVars
  <2>2. ConfirmsAreOfClosed'
    BY <1>i, <2>1 DEF OnceInv, ConfirmsAreOfClosed
  <2>3. \A b \in Bars : Traceless(b) => Traceless(b)'
    BY <1>b, <1>i, <2>1 DEF Traceless
  <2> QED BY <2>1, <2>2, <2>3, <1>k
<1>13. CASE MonitorPoll
  <2>1. PICK b \in Overdue : Claim(b)
    BY <1>13 DEF MonitorPoll
  <2>2. UNCHANGED <<wire, reader, pending, closed>>
    BY <1>13 DEF MonitorPoll, exchangeVars, streamVars
  <2>3. b \in Bars /\ ~Traceless(b) /\ b <= closed
    BY <1>b DEF Overdue, Pended, Traceless
  <2>4. /\ OnceAndForAll(b)'
        /\ \A c \in Bars : c # b => evals'[c] = evals[c]
        /\ lastEnd <= lastEnd' /\ lastEnd' \in Nat
    BY <2>1, <2>2, <2>3, ClaimedOnce
  <2>5. \A c \in Bars : Traceless(c) => Traceless(c)'
    BY <2>2 DEF Traceless
  <2>6. ConfirmsAreOfClosed'
    BY <2>2 DEF OnceInv, ConfirmsAreOfClosed
  <2>7. \A c \in Bars : c # b => Untouched(c)' \/ OnceAndForAll(c)'
    BY <1>b, <2>2, <2>4, <2>5, KeptOnce
  <2> QED BY <2>4, <2>6, <2>7
<1>14. CASE MonitorRow
  BY <1>14, <1>u DEF MonitorRow, exchangeVars, streamVars, evalVars
<1>15. CASE MonitorFile
  <2>1. UNCHANGED <<wire, reader, closed, lastEnd, evals>>
    BY <1>15 DEF MonitorFile, exchangeVars, streamVars, evalVars
  <2>2. \A b \in Bars : pending[b] = Nothing => pending'[b] = Nothing
    BY <1>15, <1>t DEF MonitorFile, TypeOK
  <2>3. ConfirmsAreOfClosed'
    BY <2>1 DEF OnceInv, ConfirmsAreOfClosed
  <2>4. \A b \in Bars : Traceless(b) => Traceless(b)'
    BY <2>1, <2>2 DEF Traceless
  <2> QED BY <2>1, <2>3, <2>4, <1>k
<1>16. CASE MonitorFileFails
  BY <1>16, <1>u DEF MonitorFileFails, exchangeVars, streamVars, evalVars
<1>20. CASE ReaderReads
  BY <1>20, <1>u DEF ReaderReads, exchangeVars, streamVars, evalVars
<1>21. CASE MonitorReads
  BY <1>21, <1>u DEF MonitorReads, exchangeVars, streamVars, evalVars
<1>17. CASE \E b \in Bars : Check(b)
  BY <1>17, <1>u
     DEF Check, CheckStep, Fetch, Compare, Repair, CheckReads, SaveOfficial, Notify, GiveUp, exchangeVars,
         streamVars, evalVars
<1>18. CASE Crash
  <2>1. /\ wire' = <<>> /\ reader' = IdleReader /\ lastEnd' = 0
        /\ pending' = [b \in Bars |-> Nothing]
        /\ UNCHANGED <<closed, evals>>
    BY <1>18 DEF Crash, exchangeVars
  <2>2. ConfirmsAreOfClosed'
    BY <1>i, <2>1 DEF ConfirmsAreOfClosed
  <2>3. \A b \in Bars : Traceless(b)'
    BY <1>b, <1>i, <2>1 DEF Traceless
  <2> QED BY <1>b, <2>1, <2>2, <2>3, KeptOnce
<1>19. CASE UNCHANGED vars
  BY <1>19, <1>u DEF vars
<1> QED
  BY <1>1, <1>2, <1>3, <1>4, <1>5, <1>6, <1>7, <1>8, <1>9, <1>10, <1>11, <1>12,
     <1>13, <1>14, <1>15, <1>16, <1>17, <1>18, <1>19, <1>20, <1>21
     DEF Next, Exchange, Reader, Monitor

(* Once evaluated, a bar is never evaluated again, whatever its confirm,   *)
(* the monitor, a lost connection or a restart do.                         *)
THEOREM EvaluatedOnceHolds == Spec => []EvaluatedOnce
<1>1. OnceInv => EvaluatedOnce
  BY DEF OnceInv, Untouched, OnceAndForAll, EvaluatedOnce
<1> QED BY InitOnce, NextOnce, <1>1, PTL DEF Spec

-----------------------------------------------------------------------------
(***************************************************************************)
(* Messages.  The confirm of a bar is the last message of it, and what the *)
(* stream says of a bar grows, up to what has been traded.                 *)
(***************************************************************************)
LEMMA MessageFacts ==
  ASSUME TypeOK
  PROVE  /\ wire \in Seq(Messages) /\ Len(wire) \in Nat
         /\ \A i \in 1..Len(wire) :
              /\ wire[i] \in Messages /\ wire[i].bar \in Bars /\ wire[i].value \in Nat
              /\ wire[i].confirm \in BOOLEAN
         /\ reader.msg.bar \in Bars \cup {0} /\ reader.msg.value \in Nat
         /\ \A b \in Bars : traded[b] \in Nat /\ official[b] \in Nat /\ row[b] \in Nat
<1>1. wire \in Seq(Messages) /\ Len(wire) \in Nat
  BY DEF TypeOK
<1>2. ASSUME NEW i \in 1..Len(wire)
      PROVE  /\ wire[i] \in Messages /\ wire[i].bar \in Bars /\ wire[i].value \in Nat
             /\ wire[i].confirm \in BOOLEAN
  <2>1. wire[i] \in Messages
    BY <1>1, <1>2
  <2> QED BY <2>1, BoundsAssumption DEF Messages
<1>3. reader.msg.bar \in Bars \cup {0} /\ reader.msg.value \in Nat
  BY ReaderType, BoundsAssumption
<1>4. ASSUME NEW b \in Bars PROVE traded[b] \in Nat /\ official[b] \in Nat /\ row[b] \in Nat
  BY <1>4, BoundsAssumption DEF TypeOK, Values, Corrected
<1> QED BY <1>1, <1>2, <1>3, <1>4

(* A message goes to the end of the wire, if it goes there at all.         *)
LEMMA SentFacts ==
  ASSUME TypeOK, NEW b \in Bars, NEW v \in 1..MaxValue, NEW c \in BOOLEAN,
         Send(b, v, c)
  PROVE  /\ Len(wire') \in Nat
         /\ \A i \in 1..Len(wire') :
              \/ i \in 1..Len(wire) /\ wire'[i] = wire[i]
              \/ i = Len(wire) + 1 /\ wire'[i] = [bar |-> b, value |-> v, confirm |-> c]
<1>1. [bar |-> b, value |-> v, confirm |-> c] \in Messages
  BY DEF Messages
<1>2. wire \in Seq(Messages) /\ Len(wire) \in Nat
  BY DEF TypeOK
<1>3. CASE connected
  <2>1. wire' = Append(wire, [bar |-> b, value |-> v, confirm |-> c])
    BY <1>3 DEF Send
  <2> QED BY <1>1, <1>2, <2>1, AppendFacts
<1>4. CASE ~connected
  BY <1>2, <1>4 DEF Send
<1> QED BY <1>3, <1>4

(* What a step does to the messages.                                       *)
Sent ==
  \E b \in Bars, v \in 1..MaxValue, c \in BOOLEAN :
    /\ b = closed + 1
    /\ Send(b, v, c)
    /\ traded[b] <= v /\ traded'[b] = v
    /\ \A d \in Bars : d # b => traded'[d] = traded[d]
    /\ reader' = reader

Taken ==
  /\ wire # <<>>
  /\ wire' = Tail(wire)
  /\ reader'.msg = Head(wire)
  /\ traded' = traded

Kept ==
  /\ wire' \in {wire, <<>>}
  /\ reader'.msg \in {reader.msg, NoMessage}
  /\ traded' = traded

LEMMA StreamSteps == ASSUME TypeOK, [Next]_vars PROVE Sent \/ Taken \/ Kept
<1>1. CASE Trade
  <2>0. PICK b : b = closed + 1
    OBVIOUS
  <2>1. b \in Bars /\ traded[b] < MaxValue /\ traded' = [traded EXCEPT ![b] = @ + 1]
    BY <1>1, <2>0 DEF Trade
  <2>2. traded \in [Bars -> 0..MaxValue] /\ traded[b] + 1 \in 1..MaxValue /\ traded[b] \in 0..MaxValue
    BY <2>1, TradedFacts DEF TypeOK
  <2>3. traded'[b] = traded[b] + 1 /\ \A d \in Bars : d # b => traded'[d] = traded[d]
    BY <2>1, <2>2
  <2>4. Send(b, traded'[b], FALSE) /\ reader' = reader
    BY <1>1, <2>0 DEF Trade
  <2>5. traded[b] <= traded'[b] /\ traded'[b] \in 1..MaxValue /\ FALSE \in BOOLEAN
    BY <2>2, <2>3, BarFacts
  <2> QED BY <2>0, <2>1, <2>3, <2>4, <2>5 DEF Sent
<1>2. CASE Close
  <2>0. PICK b : b = closed + 1
    OBVIOUS
  <2>1. b \in Bars /\ traded[b] # Nothing /\ traded' = traded
    BY <1>2, <2>0 DEF Close
  <2>2. traded[b] \in 1..MaxValue
    BY <2>1, TradedFacts
  <2>3. Send(b, traded[b], TRUE) /\ reader' = reader
    BY <1>2, <2>0 DEF Close
  <2>4. traded[b] <= traded[b] /\ TRUE \in BOOLEAN
    BY <2>2, BarFacts
  <2> QED BY <2>0, <2>1, <2>2, <2>3, <2>4 DEF Sent
<1>3. CASE Receive
  BY <1>3 DEF Receive, Taken, exchangeVars
<1>i. IdleReader.msg = NoMessage
  BY DEF IdleReader
<1>r. \A p : [reader EXCEPT !.pc = p].msg = reader.msg
  BY DEF TypeOK, Readers, IdleReader
<1>4. CASE GracePasses \/ Drop \/ Reconnect
  BY <1>4 DEF GracePasses, Drop, Reconnect, Kept, exchangeVars, streamVars
<1>5. CASE LiveUpsert \/ Confirm \/ ReaderRow \/ ReaderReads
  BY <1>5, <1>r
     DEF LiveUpsert, Confirm, ReaderRow, ReaderReads, Kept, exchangeVars, streamVars
<1>6. CASE Pend \/ IgnoreConfirm \/ ReaderFile
  BY <1>6, <1>i DEF Pend, IgnoreConfirm, ReaderFile, Kept, exchangeVars, streamVars
<1>7. CASE Monitor
  BY <1>7 DEF Monitor, MonitorPoll, MonitorRow, MonitorReads, MonitorFile, MonitorFileFails, Kept,
              exchangeVars, streamVars
<1>8. CASE \E b \in Bars : Check(b)
  BY <1>8 DEF Check, CheckStep, Fetch, Compare, Repair, CheckReads, SaveOfficial, Notify, GiveUp, Kept,
              exchangeVars, streamVars
<1>9. CASE Crash
  BY <1>9, <1>i DEF Crash, Kept, exchangeVars
<1>10. CASE UNCHANGED vars
  BY <1>10 DEF vars, Kept
<1> QED
  BY <1>1, <1>2, <1>3, <1>4, <1>5, <1>6, <1>7, <1>8, <1>9, <1>10
     DEF Next, Exchange, Reader

ConfirmIsLast ==
  /\ \A i, j \in 1..Len(wire) : i < j /\ wire[i].confirm => wire[j].bar # wire[i].bar
  /\ \A j \in 1..Len(wire) : reader.msg.confirm => wire[j].bar # reader.msg.bar

Ascending ==
  /\ \A i, j \in 1..Len(wire) :
       i < j /\ wire[i].bar = wire[j].bar => wire[i].value <= wire[j].value
  /\ \A j \in 1..Len(wire) : wire[j].bar = reader.msg.bar => reader.msg.value <= wire[j].value
  /\ \A i \in 1..Len(wire) : wire[i].value <= traded[wire[i].bar]
  /\ \A b \in Bars : reader.msg.bar = b => reader.msg.value <= traded[b]

StreamInv == ConfirmIsLast /\ Ascending

LEMMA InitStream == Init => StreamInv
BY BoundsAssumption
   DEF Init, StreamInv, ConfirmIsLast, Ascending, IdleReader, NoMessage, Nothing, Bars

LEMMA SentStream == ASSUME OnceInv, StreamInv, Sent PROVE StreamInv'
<1>t. TypeOK /\ ConfirmsAreOfClosed
  BY DEF OnceInv
<1>b. closed \in Nat /\ \A b \in Bars : b \in Nat
  BY <1>t, BarFacts
<1>1. PICK b \in Bars, v \in 1..MaxValue, c \in BOOLEAN :
        /\ b = closed + 1
        /\ Send(b, v, c)
        /\ traded[b] <= v /\ traded'[b] = v
        /\ \A d \in Bars : d # b => traded'[d] = traded[d]
        /\ reader' = reader
  BY DEF Sent
<1> DEFINE m == [bar |-> b, value |-> v, confirm |-> c]
<1>2. /\ Len(wire') \in Nat
      /\ \A i \in 1..Len(wire') : \/ i \in 1..Len(wire) /\ wire'[i] = wire[i]
                                  \/ i = Len(wire) + 1 /\ wire'[i] = m
  BY <1>t, <1>1, SentFacts
<1>m. m.bar = b /\ m.value = v /\ m.confirm = c
  OBVIOUS
<1> HIDE DEF m
<1>3. /\ Len(wire) \in Nat
      /\ \A i \in 1..Len(wire) : wire[i].bar \in Bars /\ wire[i].value \in Nat
      /\ reader.msg.bar \in Bars \cup {0} /\ reader.msg.value \in Nat
      /\ \A d \in Bars : traded[d] \in Nat
      /\ v \in Nat
  BY <1>t, MessageFacts, BarFacts
(* Nothing that confirms is of the bar that trades.                        *)
<1>4. /\ \A i \in 1..Len(wire) : wire[i].confirm => wire[i].bar # b
      /\ reader.msg.confirm => reader.msg.bar # b
  <2>1. ASSUME NEW i \in 1..Len(wire), wire[i].confirm PROVE wire[i].bar # b
    <3>1. wire[i].bar <= closed /\ wire[i].bar \in Nat
      BY <1>t, <1>b, <1>3, <2>1 DEF ConfirmsAreOfClosed
    <3> QED BY <1>1, <1>b, <3>1
  <2>2. ASSUME reader.msg.confirm PROVE reader.msg.bar # b
    <3>1. reader.msg.bar <= closed /\ reader.msg.bar \in Nat
      BY <1>t, <1>b, <1>3, <2>2 DEF ConfirmsAreOfClosed
    <3> QED BY <1>1, <1>b, <3>1
  <2> QED BY <2>1, <2>2
<1>5. \A d \in Bars : traded[d] <= traded'[d] /\ traded'[d] \in Nat
  <2> SUFFICES ASSUME NEW d \in Bars PROVE traded[d] <= traded'[d] /\ traded'[d] \in Nat
    OBVIOUS
  <2> QED BY <1>1, <1>3
<1>6. ConfirmIsLast'
  <2>1. ASSUME NEW i \in 1..Len(wire'), NEW j \in 1..Len(wire'), i < j, wire'[i].confirm
        PROVE  wire'[j].bar # wire'[i].bar
    <3>1. i \in 1..Len(wire) /\ wire'[i] = wire[i]
      BY <1>2, <1>3, <2>1
    <3>2. CASE j \in 1..Len(wire) /\ wire'[j] = wire[j]
      BY <2>1, <3>1, <3>2 DEF StreamInv, ConfirmIsLast
    <3>3. CASE wire'[j] = m
      BY <1>4, <1>m, <2>1, <3>1, <3>3
    <3> QED BY <1>2, <3>2, <3>3
  <2>2. ASSUME NEW j \in 1..Len(wire'), reader'.msg.confirm
        PROVE  wire'[j].bar # reader'.msg.bar
    BY <1>1, <1>2, <1>4, <1>m, <2>2 DEF StreamInv, ConfirmIsLast
  <2> QED BY <2>1, <2>2 DEF ConfirmIsLast
<1>7. Ascending'
  <2>1. ASSUME NEW i \in 1..Len(wire'), NEW j \in 1..Len(wire'), i < j,
               wire'[i].bar = wire'[j].bar
        PROVE  wire'[i].value <= wire'[j].value
    <3>1. i \in 1..Len(wire) /\ wire'[i] = wire[i]
      BY <1>2, <1>3, <2>1
    <3>2. CASE j \in 1..Len(wire) /\ wire'[j] = wire[j]
      BY <2>1, <3>1, <3>2 DEF StreamInv, Ascending
    <3>3. CASE wire'[j] = m
      <4>1. wire[i].bar = b /\ wire[i].value <= traded[b] /\ wire[i].value \in Nat
        BY <1>3, <1>m, <2>1, <3>1, <3>3 DEF StreamInv, Ascending
      <4> QED BY <1>1, <1>3, <1>m, <3>1, <3>3, <4>1
    <3> QED BY <1>2, <3>2, <3>3
  <2>2. ASSUME NEW j \in 1..Len(wire'), wire'[j].bar = reader'.msg.bar
        PROVE  reader'.msg.value <= wire'[j].value
    <3>1. CASE j \in 1..Len(wire) /\ wire'[j] = wire[j]
      BY <1>1, <2>2, <3>1 DEF StreamInv, Ascending
    <3>2. CASE wire'[j] = m
      <4>1. reader.msg.bar = b /\ reader.msg.value <= traded[b]
        BY <1>1, <1>m, <2>2, <3>2 DEF StreamInv, Ascending
      <4> QED BY <1>1, <1>3, <1>m, <3>2, <4>1
    <3> QED BY <1>2, <3>1, <3>2
  <2>3. ASSUME NEW i \in 1..Len(wire') PROVE wire'[i].value <= traded'[wire'[i].bar]
    <3>1. CASE i \in 1..Len(wire) /\ wire'[i] = wire[i]
      <4>1. wire[i].value <= traded[wire[i].bar] /\ wire[i].bar \in Bars /\ wire[i].value \in Nat
        BY <1>3, <3>1 DEF StreamInv, Ascending
      <4> QED BY <1>3, <1>5, <3>1, <4>1
    <3>2. CASE wire'[i] = m
      BY <1>1, <1>3, <1>m, <3>2
    <3> QED BY <1>2, <3>1, <3>2
  <2>4. ASSUME NEW d \in Bars, reader'.msg.bar = d PROVE reader'.msg.value <= traded'[d]
    <3>1. reader.msg.value <= traded[d]
      BY <1>1, <2>4 DEF StreamInv, Ascending
    <3> QED BY <1>1, <1>3, <1>5, <3>1
  <2> QED BY <2>1, <2>2, <2>3, <2>4 DEF Ascending
<1> QED BY <1>6, <1>7 DEF StreamInv

LEMMA NextStream == OnceInv /\ StreamInv /\ [Next]_vars => StreamInv'
<1> SUFFICES ASSUME OnceInv, StreamInv, [Next]_vars PROVE StreamInv'
  OBVIOUS
<1>t. TypeOK
  BY DEF OnceInv
<1>m. /\ wire \in Seq(Messages) /\ Len(wire) \in Nat
      /\ \A d \in Bars : traded[d] \in Nat /\ d # 0
  BY <1>t, MessageFacts, BarFacts
<1>1. CASE Sent
  BY <1>1, SentStream
<1>2. CASE Taken
  <2>1. /\ Head(wire) = wire[1] /\ 1 \in 1..Len(wire) /\ Len(Tail(wire)) = Len(wire) - 1
        /\ \A i \in 1..Len(Tail(wire)) : Tail(wire)[i] = wire[i + 1] /\ i + 1 \in 1..Len(wire)
    BY <1>2, <1>m, TailFacts DEF Taken
  <2>2. /\ reader'.msg = wire[1] /\ traded' = traded
        /\ \A i \in 1..Len(wire') : wire'[i] = wire[i + 1] /\ i + 1 \in 1..Len(wire) /\ 1 < i + 1
        /\ \A i, j \in 1..Len(wire') : i < j => i + 1 < j + 1
    BY <1>2, <1>m, <2>1 DEF Taken
  <2>3. ConfirmIsLast'
    <3>1. ASSUME NEW i \in 1..Len(wire'), NEW j \in 1..Len(wire'), i < j, wire'[i].confirm
          PROVE  wire'[j].bar # wire'[i].bar
      <4>1. /\ i + 1 \in 1..Len(wire) /\ j + 1 \in 1..Len(wire) /\ i + 1 < j + 1
            /\ wire'[i] = wire[i + 1] /\ wire'[j] = wire[j + 1]
        BY <2>2, <3>1
      <4>2. \A k, l \in 1..Len(wire) : k < l /\ wire[k].confirm => wire[l].bar # wire[k].bar
        BY DEF StreamInv, ConfirmIsLast
      <4> QED BY <3>1, <4>1, <4>2
    <3>2. ASSUME NEW j \in 1..Len(wire'), reader'.msg.confirm
          PROVE  wire'[j].bar # reader'.msg.bar
      BY <2>1, <2>2, <3>2 DEF StreamInv, ConfirmIsLast
    <3> QED BY <3>1, <3>2 DEF ConfirmIsLast
  <2>4. Ascending'
    <3>1. ASSUME NEW i \in 1..Len(wire'), NEW j \in 1..Len(wire'), i < j,
                 wire'[i].bar = wire'[j].bar
          PROVE  wire'[i].value <= wire'[j].value
      <4>1. /\ i + 1 \in 1..Len(wire) /\ j + 1 \in 1..Len(wire) /\ i + 1 < j + 1
            /\ wire'[i] = wire[i + 1] /\ wire'[j] = wire[j + 1]
        BY <2>2, <3>1
      <4>2. \A k, l \in 1..Len(wire) :
              k < l /\ wire[k].bar = wire[l].bar => wire[k].value <= wire[l].value
        BY DEF StreamInv, Ascending
      <4> QED BY <3>1, <4>1, <4>2
    <3>2. ASSUME NEW j \in 1..Len(wire'), wire'[j].bar = reader'.msg.bar
          PROVE  reader'.msg.value <= wire'[j].value
      <4>1. j + 1 \in 1..Len(wire) /\ 1 < j + 1 /\ wire'[j] = wire[j + 1]
        BY <2>2
      <4>2. \A k, l \in 1..Len(wire) :
              k < l /\ wire[k].bar = wire[l].bar => wire[k].value <= wire[l].value
        BY DEF StreamInv, Ascending
      <4> QED BY <2>1, <2>2, <3>2, <4>1, <4>2
    <3>3. \A i \in 1..Len(wire) : wire[i].value <= traded[wire[i].bar]
      BY DEF StreamInv, Ascending
    <3> QED BY <2>1, <2>2, <3>1, <3>2, <3>3 DEF Ascending
  <2> QED BY <2>3, <2>4 DEF StreamInv
<1>3. CASE Kept
  <2>1. /\ \A i \in 1..Len(wire') : i \in 1..Len(wire) /\ wire'[i] = wire[i]
        /\ reader'.msg \in {reader.msg, NoMessage} /\ traded' = traded
    BY <1>3 DEF Kept
  <2>2. NoMessage.bar = 0 /\ NoMessage.value = 0 /\ ~NoMessage.confirm
    BY DEF NoMessage, Nothing
  <2>3. ConfirmIsLast'
    BY <2>1, <2>2 DEF StreamInv, ConfirmIsLast
  <2>4. \A i \in 1..Len(wire) : wire[i].bar # 0
    BY <1>t, <1>m, MessageFacts
  <2>5. Ascending'
    BY <1>m, <2>1, <2>2, <2>4 DEF StreamInv, Ascending
  <2> QED BY <2>3, <2>5 DEF StreamInv
<1> QED BY <1>t, <1>1, <1>2, <1>3, StreamSteps

-----------------------------------------------------------------------------
(***************************************************************************)
(* Who evaluates a bar, between its claim and its check.                   *)
(***************************************************************************)
ReaderEvaluates(b)  == reader.pc \in {"row", "read", "file"} /\ reader.msg.bar = b
MonitorEvaluates(b) == monitor.pc \in {"row", "read", "file"} /\ monitor.bar = b

(* One task at most evaluates a bar, and its check starts when that ends.  *)
OneEvaluator(b) ==
  /\ ReaderEvaluates(b) \/ MonitorEvaluates(b) => evals[b] > 0 /\ check[b] = "none"
  /\ ~(ReaderEvaluates(b) /\ MonitorEvaluates(b))
  /\ check[b] # "none" => evals[b] > 0
  /\ MonitorEvaluates(b) => b \in overdueBy

EvalInv == \A b \in Bars : OneEvaluator(b)

LEMMA EvaluatorKept ==
  ASSUME NEW b, OneEvaluator(b),
         ReaderEvaluates(b)' => ReaderEvaluates(b),
         MonitorEvaluates(b)' => MonitorEvaluates(b),
         evals'[b] = evals[b],
         check'[b] = "none" <=> check[b] = "none",
         b \in overdueBy => b \in overdueBy'
  PROVE  OneEvaluator(b)'
BY DEF OneEvaluator

(* A bar that is claimed has not been evaluated.                           *)
LEMMA ClaimFacts ==
  ASSUME OnceInv, NEW b \in Bars, Claim(b), ~Traceless(b)
  PROVE  evals[b] = 0 /\ evals'[b] = 1 /\ \A c \in Bars : c # b => evals'[c] = evals[c]
<1>1. TypeOK
  BY DEF OnceInv
<1>2. b > lastEnd /\ evals' = [evals EXCEPT ![b] = @ + 1]
  BY DEF Claim, Claimable
<1>3. b \in Nat /\ lastEnd \in Nat
  BY <1>1, BarFacts
<1>4. evals[b] = 0
  BY <1>2, <1>3 DEF OnceInv, Untouched, OnceAndForAll
<1> QED BY <1>1, <1>2, <1>4 DEF TypeOK

(* The two claims.                                                         *)
LEMMA ConfirmFacts ==
  ASSUME OnceInv, Confirm
  PROVE  /\ reader.msg.bar \in Bars /\ reader.msg.confirm /\ reader.pc = "decide"
         /\ evals[reader.msg.bar] = 0 /\ evals'[reader.msg.bar] = 1
         /\ \A c \in Bars : c # reader.msg.bar => evals'[c] = evals[c]
         /\ reader'.pc = "row" /\ reader'.msg = reader.msg
<1>1. TypeOK
  BY DEF OnceInv
<1>2. reader.msg.bar \in Bars
  BY <1>1, BarFacts, ReaderType DEF Confirm, Claim, Claimable
<1>3. ~Traceless(reader.msg.bar) /\ Claim(reader.msg.bar)
  BY DEF Confirm, Traceless
<1>4. reader'.pc = "row" /\ reader'.msg = reader.msg
  BY <1>1 DEF Confirm, TypeOK, Readers
<1> QED BY <1>2, <1>3, <1>4, ClaimFacts DEF Confirm

LEMMA PollFacts ==
  ASSUME OnceInv, MonitorPoll
  PROVE  \E b \in Bars :
           /\ evals[b] = 0 /\ evals'[b] = 1
           /\ \A c \in Bars : c # b => evals'[c] = evals[c]
           /\ overdueBy' = overdueBy \cup {b}
           /\ monitor.pc = "idle" /\ monitor'.pc = "row" /\ monitor'.bar = b
<1>1. PICK b \in Overdue :
        /\ Claim(b)
        /\ overdueBy' = overdueBy \cup {b}
        /\ monitor' = [pc |-> "row", bar |-> b, value |-> pending[b], keys |-> Pended]
  BY DEF MonitorPoll
<1>2. b \in Bars /\ ~Traceless(b)
  BY DEF Overdue, Pended, Traceless
<1>3. monitor.pc = "idle"
  BY DEF MonitorPoll
<1> QED BY <1>1, <1>2, <1>3, ClaimFacts

LEMMA InitEval == Init => EvalInv
BY DEF Init, EvalInv, OneEvaluator, ReaderEvaluates, MonitorEvaluates, IdleReader, IdleMonitor

LEMMA NextEval == OnceInv /\ EvalInv /\ [Next]_vars => EvalInv'
<1> SUFFICES ASSUME OnceInv, EvalInv, [Next]_vars, NEW b \in Bars PROVE OneEvaluator(b)'
  BY DEF EvalInv
<1>t. TypeOK /\ OneEvaluator(b)
  BY DEF OnceInv, EvalInv
<1>i. IdleReader.pc = "idle" /\ IdleMonitor.pc = "idle" /\ DeadMonitor.pc = "dead"
  BY DEF IdleReader, IdleMonitor, DeadMonitor
<1>r. /\ \A p : [reader EXCEPT !.pc = p].msg = reader.msg /\ [reader EXCEPT !.pc = p].pc = p
      /\ \A p : [monitor EXCEPT !.pc = p].bar = monitor.bar /\ [monitor EXCEPT !.pc = p].pc = p
  BY <1>t DEF TypeOK, Readers, Monitors, IdleReader, IdleMonitor, DeadMonitor
<1>e. /\ Running(b) => check[b] # "none"
      /\ \A p : b \in Bars => [check EXCEPT ![b] = p][b] = p
      /\ \A p, c : c # b => [check EXCEPT ![c] = p][b] = check[b]
  BY <1>t DEF Running, TypeOK
<1>1. CASE Exchange
  BY <1>1, <1>t, EvaluatorKept
     DEF Exchange, Trade, Close, GracePasses, Drop, Reconnect, evalVars,
         ReaderEvaluates, MonitorEvaluates
<1>2. CASE Receive \/ LiveUpsert \/ Pend \/ IgnoreConfirm
  <2>1. reader'.pc \in {"idle", "live", "decide"}
    <3>1. CASE Receive
      BY <3>1 DEF Receive
    <3>2. CASE LiveUpsert
      BY <1>r, <3>2 DEF LiveUpsert
    <3>3. CASE Pend \/ IgnoreConfirm
      BY <1>i, <3>3 DEF Pend, IgnoreConfirm
    <3> QED BY <1>2, <3>1, <3>2, <3>3
  <2>2. UNCHANGED <<monitor, evals, overdueBy, check>>
    BY <1>2 DEF Receive, LiveUpsert, Pend, IgnoreConfirm, evalVars
  <2> QED BY <1>t, <2>1, <2>2, EvaluatorKept DEF ReaderEvaluates, MonitorEvaluates
<1>3. CASE Confirm
  <2>1. UNCHANGED <<monitor, overdueBy, check>>
    BY <1>3 DEF Confirm
  <2>2. CASE b = reader.msg.bar
    <3>1. ~MonitorEvaluates(b) /\ check[b] = "none"
      BY <1>3, <1>t, <2>2, ConfirmFacts DEF OneEvaluator
    <3> QED BY <1>3, <2>1, <2>2, <3>1, ConfirmFacts
         DEF OneEvaluator, MonitorEvaluates
  <2>3. CASE b # reader.msg.bar
    BY <1>3, <1>t, <2>1, <2>3, ConfirmFacts, EvaluatorKept DEF ReaderEvaluates, MonitorEvaluates
  <2> QED BY <2>2, <2>3
<1>4. CASE ReaderRow \/ ReaderReads
  <2>1. reader.pc \in {"row", "read"} /\ reader'.msg = reader.msg
    BY <1>4, <1>r DEF ReaderRow, ReaderReads
  <2>2. UNCHANGED <<monitor, evals, overdueBy, check>>
    BY <1>4 DEF ReaderRow, ReaderReads, evalVars
  <2> QED BY <1>t, <2>1, <2>2, EvaluatorKept DEF ReaderEvaluates, MonitorEvaluates
<1>5. CASE ReaderFile
  <2>1. /\ reader.pc = "file" /\ reader'.pc = "idle"
        /\ check' \in {check, [check EXCEPT ![reader.msg.bar] = "sleep"]}
        /\ UNCHANGED <<monitor, evals, overdueBy>>
    BY <1>5, <1>i DEF ReaderFile, Printed, evalVars
  <2>2. CASE check'[b] = check[b]
    BY <1>t, <2>1, <2>2, EvaluatorKept DEF ReaderEvaluates, MonitorEvaluates
  <2>3. CASE check'[b] # check[b]
    <3>1. b = reader.msg.bar /\ check'[b] = "sleep"
      BY <1>e, <2>1, <2>3
    <3>2. ReaderEvaluates(b)
      BY <2>1, <3>1 DEF ReaderEvaluates
    <3>3. evals[b] > 0 /\ ~MonitorEvaluates(b)
      BY <1>t, <3>2 DEF OneEvaluator
    <3>4. ~ReaderEvaluates(b)' /\ ~MonitorEvaluates(b)'
      BY <2>1, <3>3 DEF ReaderEvaluates, MonitorEvaluates
    <3> QED BY <2>1, <3>3, <3>4 DEF OneEvaluator
  <2> QED BY <2>2, <2>3
<1>6. CASE MonitorPoll
  <2>1. PICK c \in Bars :
          /\ evals[c] = 0 /\ evals'[c] = 1
          /\ \A d \in Bars : d # c => evals'[d] = evals[d]
          /\ overdueBy' = overdueBy \cup {c}
          /\ monitor.pc = "idle" /\ monitor'.pc = "row" /\ monitor'.bar = c
    BY <1>6, PollFacts
  <2>2. UNCHANGED <<reader, check>>
    BY <1>6 DEF MonitorPoll
  <2>3. CASE b = c
    <3>1. ~ReaderEvaluates(b) /\ check[b] = "none"
      BY <1>t, <2>1, <2>3 DEF OneEvaluator
    <3> QED BY <2>1, <2>2, <2>3, <3>1 DEF OneEvaluator, ReaderEvaluates
  <2>4. CASE b # c
    BY <1>t, <2>1, <2>2, <2>4, EvaluatorKept DEF ReaderEvaluates, MonitorEvaluates
  <2> QED BY <2>3, <2>4
<1>7. CASE MonitorRow \/ MonitorReads
  <2>1. monitor.pc \in {"row", "read"} /\ monitor'.bar = monitor.bar
    BY <1>7, <1>r DEF MonitorRow, MonitorReads
  <2>2. UNCHANGED <<reader, evals, overdueBy, check>>
    BY <1>7 DEF MonitorRow, MonitorReads, evalVars
  <2> QED BY <1>t, <2>1, <2>2, EvaluatorKept DEF ReaderEvaluates, MonitorEvaluates
<1>8. CASE MonitorFile
  <2>1. /\ monitor.pc = "file" /\ monitor'.pc \in {"idle", "dead"}
        /\ check' = [check EXCEPT ![monitor.bar] = "sleep"]
        /\ UNCHANGED <<reader, evals, overdueBy>>
    BY <1>8, <1>i DEF MonitorFile, Printed, evalVars
  <2>2. CASE b # monitor.bar
    BY <1>t, <1>e, <2>1, <2>2, EvaluatorKept DEF ReaderEvaluates, MonitorEvaluates
  <2>3. CASE b = monitor.bar
    <3>1. MonitorEvaluates(b) /\ check'[b] = "sleep"
      BY <1>e, <2>1, <2>3 DEF MonitorEvaluates
    <3>2. evals[b] > 0 /\ ~ReaderEvaluates(b)
      BY <1>t, <3>1 DEF OneEvaluator
    <3>3. ~ReaderEvaluates(b)' /\ ~MonitorEvaluates(b)'
      BY <2>1, <3>2 DEF ReaderEvaluates, MonitorEvaluates
    <3> QED BY <2>1, <3>1, <3>2, <3>3 DEF OneEvaluator
  <2> QED BY <2>2, <2>3
<1>9. CASE MonitorFileFails
  <2>1. monitor'.pc = "dead"
    BY <1>9, <1>i DEF MonitorFileFails
  <2>2. UNCHANGED <<reader, evals, overdueBy, check>>
    BY <1>9 DEF MonitorFileFails, evalVars
  <2> QED BY <1>t, <2>1, <2>2, EvaluatorKept DEF ReaderEvaluates, MonitorEvaluates
<1>10. CASE \E c \in Bars : Check(c)
  <2>1. PICK c \in Bars : Check(c)
    BY <1>10
  <2>2. UNCHANGED <<reader, monitor, evals, overdueBy>>
    BY <2>1 DEF Check, CheckStep, Fetch, Compare, Repair, CheckReads, SaveOfficial, Notify, GiveUp, evalVars
  <2>3. check'[b] = "none" <=> check[b] = "none"
    <3>1. CASE b = c
      <4>1. check[c] # "none"
        BY <2>1 DEF Check, CheckStep, Fetch, Compare, Repair, CheckReads, SaveOfficial, Notify, GiveUp, Running
      <4>2. \E p \in CheckSteps \ {"none"} : check' = [check EXCEPT ![c] = p]
        BY <2>1 DEF Check, CheckStep, Fetch, Compare, Repair, CheckReads, SaveOfficial, Notify, GiveUp, CheckSteps
      <4> QED BY <1>e, <3>1, <4>1, <4>2
    <3>2. CASE b # c
      <4>1. \E p : check' = [check EXCEPT ![c] = p]
        BY <2>1 DEF Check, CheckStep, Fetch, Compare, Repair, CheckReads, SaveOfficial, Notify, GiveUp
      <4> QED BY <1>e, <3>2, <4>1
    <3> QED BY <3>1, <3>2
  <2> QED BY <1>t, <2>2, <2>3, EvaluatorKept DEF ReaderEvaluates, MonitorEvaluates
<1>11. CASE Crash
  <2>1. /\ reader'.pc = "idle" /\ monitor'.pc = "idle"
        /\ check'[b] = "none" <=> check[b] = "none"
        /\ UNCHANGED <<evals, overdueBy>>
    BY <1>11, <1>i, <1>e DEF Crash
  <2> QED BY <1>t, <2>1, EvaluatorKept DEF ReaderEvaluates, MonitorEvaluates
<1>12. CASE UNCHANGED vars
  BY <1>12, <1>t, EvaluatorKept DEF vars, ReaderEvaluates, MonitorEvaluates
<1> QED
  BY <1>1, <1>2, <1>3, <1>4, <1>5, <1>6, <1>7, <1>8, <1>9, <1>10, <1>11, <1>12
     DEF Next, Reader, Monitor

-----------------------------------------------------------------------------
(***************************************************************************)
(* What is left of a bar whose confirm came in time: nothing that could    *)
(* write its row but its own evaluation.                                   *)
(***************************************************************************)
ReadOut(b) ==
  evals[b] > 0 /\ b \notin overdueBy =>
    /\ reader.msg.bar = b => reader.pc \in {"row", "read", "file"}
    /\ \A i \in 1..Len(wire) : wire[i].bar # b

ReadInv == \A b \in Bars : ReadOut(b)

(* The stream does not come back to a bar that is closed.                  *)
LEMMA NoMoreOf ==
  ASSUME TypeOK, [Next]_vars, NEW b \in Bars, b <= closed,
         \A i \in 1..Len(wire) : wire[i].bar # b
  PROVE  \A i \in 1..Len(wire') : wire'[i].bar # b
<1>1. CASE Sent
  <2>1. PICK d \in Bars, v \in 1..MaxValue, c \in BOOLEAN : d = closed + 1 /\ Send(d, v, c)
    BY <1>1 DEF Sent
  <2>2. \A i \in 1..Len(wire') :
          \/ i \in 1..Len(wire) /\ wire'[i] = wire[i]
          \/ i = Len(wire) + 1 /\ wire'[i] = [bar |-> d, value |-> v, confirm |-> c]
    BY <2>1, SentFacts
  <2>3. d # b
    BY <2>1, BarFacts
  <2> QED BY <2>2, <2>3
<1>2. CASE Taken
  <2>1. wire \in Seq(Messages) /\ wire # <<>> /\ wire' = Tail(wire)
    BY <1>2, MessageFacts DEF Taken
  <2> QED BY <2>1, TailFacts
<1>3. CASE Kept
  BY <1>3 DEF Kept
<1> QED BY <1>1, <1>2, <1>3, StreamSteps

LEMMA HistoryGrows ==
  ASSUME TypeOK, [Next]_vars, NEW b \in Bars
  PROVE  /\ b \notin overdueBy' => b \notin overdueBy
         /\ check[b] # "none" => check'[b] # "none"
         /\ b <= closed => official'[b] = official[b]
<1>1. b \notin overdueBy' => b \notin overdueBy
  BY DEF Next, Exchange, Trade, Close, GracePasses, Drop, Reconnect,
         Reader, ReaderReads, Receive, LiveUpsert, Pend, Confirm, IgnoreConfirm, ReaderRow, ReaderFile,
         Monitor, MonitorReads, MonitorPoll, MonitorRow, MonitorFile, MonitorFileFails,
         Check, CheckStep, CheckReads, Fetch, Compare, Repair, SaveOfficial, Notify, GiveUp, Crash, vars, evalVars
<1>2. ASSUME check[b] # "none" PROVE check'[b] # "none"
  <2>c. \A p, c : p # "none" => [check EXCEPT ![c] = p][b] # "none"
    BY <1>2 DEF TypeOK
  <2>1. CASE check' = check
    BY <1>2, <2>1
  <2>2. CASE \E c : check' = [check EXCEPT ![c] = "sleep"]
    BY <2>2, <2>c
  <2>3. ASSUME NEW c \in Bars, Check(c) PROVE check'[b] # "none"
    <3>1. \E p : p # "none" /\ check' = [check EXCEPT ![c] = p]
      BY <2>3 DEF Check, CheckStep, Fetch, Compare, Repair, CheckReads, SaveOfficial, Notify, GiveUp
    <3> QED BY <2>c, <3>1
  <2>4. CASE Crash
    BY <1>2, <2>4 DEF Crash
  <2> QED BY <2>1, <2>2, <2>3, <2>4
       DEF Next, Exchange, Trade, Close, GracePasses, Drop, Reconnect,
           Reader, ReaderReads, Receive, LiveUpsert, Pend, Confirm, IgnoreConfirm, ReaderRow, ReaderFile,
           Monitor, MonitorReads, MonitorPoll, MonitorRow, MonitorFile, MonitorFileFails, Printed, vars
<1>3. ASSUME b <= closed PROVE official'[b] = official[b]
  <2>1. CASE Close
    <3>1. PICK d, v : d = closed + 1 /\ official' = [official EXCEPT ![d] = v]
      BY <2>1 DEF Close
    <3>2. d # b
      BY <1>3, <3>1, BarFacts
    <3> QED BY <3>1, <3>2 DEF TypeOK
  <2>2. CASE official' = official
    BY <2>2
  <2> QED BY <2>1, <2>2
       DEF Next, Exchange, Trade, GracePasses, Drop, Reconnect,
           Reader, ReaderReads, Receive, LiveUpsert, Pend, Confirm, IgnoreConfirm, ReaderRow, ReaderFile,
           Monitor, MonitorReads, MonitorPoll, MonitorRow, MonitorFile, MonitorFileFails,
           Check, CheckStep, CheckReads, Fetch, Compare, Repair, SaveOfficial, Notify, GiveUp, Crash, vars,
           exchangeVars
<1> QED BY <1>1, <1>2, <1>3

LEMMA EvaluatedClosed ==
  ASSUME OnceInv, NEW b \in Bars, evals[b] > 0 PROVE b <= closed
BY DEF OnceInv, Untouched, OnceAndForAll

LEMMA InitRead == Init => ReadInv
BY DEF Init, ReadInv, ReadOut

LEMMA NextRead == OnceInv /\ StreamInv /\ ReadInv /\ [Next]_vars => ReadInv'
<1> SUFFICES ASSUME OnceInv, StreamInv, ReadInv, [Next]_vars, NEW b \in Bars,
                    evals'[b] > 0, b \notin overdueBy'
             PROVE  /\ reader'.msg.bar = b => reader'.pc \in {"row", "read", "file"}
                    /\ \A i \in 1..Len(wire') : wire'[i].bar # b
  BY DEF ReadInv, ReadOut
<1>t. TypeOK /\ b \notin overdueBy
  BY HistoryGrows DEF OnceInv
<1>1. CASE evals[b] > 0
  <2>1. /\ reader.msg.bar = b => reader.pc \in {"row", "read", "file"}
        /\ \A i \in 1..Len(wire) : wire[i].bar # b
    BY <1>t, <1>1 DEF ReadInv, ReadOut
  <2>2. \A i \in 1..Len(wire') : wire'[i].bar # b
    BY <1>t, <1>1, <2>1, EvaluatedClosed, NoMoreOf
  <2>r. \A p : [reader EXCEPT !.pc = p].msg = reader.msg /\ [reader EXCEPT !.pc = p].pc = p
    BY <1>t DEF TypeOK, Readers, IdleReader
  <2>i. IdleReader.msg.bar # b
    BY <1>t, BarFacts DEF IdleReader, NoMessage
  <2>3. CASE reader' = reader
    BY <2>1, <2>2, <2>3
  <2>4. CASE reader' = IdleReader
    BY <2>2, <2>4, <2>i
  <2>5. CASE Receive
    <3>1. wire # <<>> /\ reader'.msg = Head(wire)
      BY <2>5 DEF Receive
    <3>2. Head(wire) = wire[1] /\ 1 \in 1..Len(wire)
      BY <1>t, <3>1, MessageFacts, TailFacts
    <3> QED BY <2>1, <2>2, <3>1, <3>2
  <2>6. CASE LiveUpsert \/ Confirm
    <3>1. reader.pc \in {"live", "decide"} /\ reader'.msg = reader.msg
      BY <2>6, <2>r DEF LiveUpsert, Confirm
    <3> QED BY <2>1, <2>2, <3>1
  <2>7. CASE ReaderRow \/ ReaderReads
    <3>1. reader'.pc \in {"read", "file"}
      BY <2>7, <2>r DEF ReaderRow, ReaderReads
    <3> QED BY <2>2, <3>1
  <2> QED BY <2>3, <2>4, <2>5, <2>6, <2>7
       DEF Next, Exchange, Trade, Close, GracePasses, Drop, Reconnect,
           Reader, Pend, IgnoreConfirm, ReaderFile,
           Monitor, MonitorReads, MonitorPoll, MonitorRow, MonitorFile, MonitorFileFails,
           Check, CheckStep, CheckReads, Fetch, Compare, Repair, SaveOfficial, Notify, GiveUp, Crash, vars
<1>2. CASE evals[b] = 0
  <2>1. CASE Confirm
    <3>1. b = reader.msg.bar /\ reader.msg.confirm /\ reader'.pc = "row"
      BY <1>2, <2>1, ConfirmFacts
    <3>2. wire' = wire
      BY <2>1 DEF Confirm, streamVars
    <3> QED BY <3>1, <3>2 DEF StreamInv, ConfirmIsLast
  <2>2. CASE MonitorPoll
    <3>1. PICK c \in Bars : /\ \A d \in Bars : d # c => evals'[d] = evals[d]
                            /\ overdueBy' = overdueBy \cup {c}
      BY <2>2, PollFacts
    <3> QED BY <1>2, <3>1
  <2>3. CASE evals' = evals
    BY <1>2, <2>3
  <2> QED BY <2>1, <2>2, <2>3
       DEF Next, Exchange, Trade, Close, GracePasses, Drop, Reconnect,
           Reader, ReaderReads, Receive, LiveUpsert, Pend, IgnoreConfirm, ReaderRow, ReaderFile,
           Monitor, MonitorReads, MonitorRow, MonitorFile, MonitorFileFails,
           Check, CheckStep, CheckReads, Fetch, Compare, Repair, SaveOfficial, Notify, GiveUp, Crash, vars, evalVars
<1> QED BY <1>1, <1>2 DEF OnceInv, Untouched, OnceAndForAll

-----------------------------------------------------------------------------
(***************************************************************************)
(* Who writes the row of a bar: the reader with the message it holds, the  *)
(* monitor, which makes the bar overdue, or the check.                     *)
(***************************************************************************)
ReaderWrites(b) ==
  /\ reader.pc \in {"live", "row"}
  /\ reader.msg.bar = b
  /\ row'[b] = reader.msg.value
  /\ reader'.msg = reader.msg
  /\ UNCHANGED <<wire, traded, check>>

LEMMA RowSteps ==
  ASSUME TypeOK, [Next]_vars, NEW b \in Bars
  PROVE  row'[b] = row[b] \/ ReaderWrites(b) \/ MonitorEvaluates(b) \/ Repair(b)
<1>r. \A c, v : /\ c # b => [row EXCEPT ![c] = v][b] = row[b]
                /\ [row EXCEPT ![b] = v][b] = v
  BY DEF TypeOK
<1>m. \A p : [reader EXCEPT !.pc = p].msg = reader.msg
  BY DEF TypeOK, Readers, IdleReader
<1>1. CASE LiveUpsert \/ ReaderRow
  <2>1. /\ reader.pc \in {"live", "row"}
        /\ row' \in {row, [row EXCEPT ![reader.msg.bar] = reader.msg.value]}
        /\ reader'.msg = reader.msg
        /\ UNCHANGED <<wire, traded, check>>
    BY <1>1, <1>m DEF LiveUpsert, ReaderRow, Upserted, exchangeVars, streamVars
  <2> QED BY <1>r, <2>1 DEF ReaderWrites
<1>2. CASE MonitorRow
  <2>1. /\ monitor.pc = "row"
        /\ row' \in {row, [row EXCEPT ![monitor.bar] = monitor.value]}
    BY <1>2 DEF MonitorRow, Upserted
  <2> QED BY <1>r, <2>1 DEF MonitorEvaluates
<1>3. ASSUME NEW c \in Bars, Repair(c) PROVE row'[b] = row[b] \/ Repair(b)
  <2>1. row' = [row EXCEPT ![c] = official[c]]
    BY <1>3 DEF Repair
  <2> QED BY <1>r, <1>3, <2>1
<1>4. CASE row' = row
  BY <1>4
<1> QED BY <1>1, <1>2, <1>3, <1>4
     DEF Next, Exchange, Trade, Close, GracePasses, Drop, Reconnect,
         Reader, ReaderReads, Receive, Pend, Confirm, IgnoreConfirm, ReaderFile,
         Monitor, MonitorReads, MonitorPoll, MonitorFile, MonitorFileFails,
         Check, CheckStep, CheckReads, Fetch, Compare, SaveOfficial, Notify, GiveUp, Crash, vars, storeVars

(* A bar that is not overdue and has a check has no writer but that.       *)
LEMMA OnlyRepaired ==
  ASSUME OnceInv, EvalInv, ReadInv, [Next]_vars, NEW b \in Bars,
         check[b] # "none", b \notin overdueBy
  PROVE  /\ row'[b] = row[b] \/ Repair(b)
         /\ reader.msg.bar # b
         /\ \A i \in 1..Len(wire) : wire[i].bar # b
<1>1. evals[b] > 0 /\ ~ReaderEvaluates(b) /\ ~MonitorEvaluates(b)
  BY DEF EvalInv, OneEvaluator
<1>2. /\ reader.msg.bar = b => reader.pc \in {"row", "read", "file"}
      /\ \A i \in 1..Len(wire) : wire[i].bar # b
  BY <1>1 DEF ReadInv, ReadOut
<1>3. reader.msg.bar # b
  BY <1>1, <1>2 DEF ReaderEvaluates
<1> QED BY <1>1, <1>2, <1>3, RowSteps DEF OnceInv, ReaderWrites

-----------------------------------------------------------------------------
(***************************************************************************)
(* What the check stores and announces.                                    *)
(***************************************************************************)
FileStored(b) ==
  /\ check[b] \in {"notify", "done"} /\ b \notin overlapped =>
       /\ file[b] = official[b]
       /\ \A w \in Writers : HasRead(w) => copy[w][b] = official[b]
  /\ b \in told => check[b] = "done"

RowStored(b) ==
  b \notin overdueBy /\ check[b] \in {"read", "save", "notify", "done"} =>
    row[b] = official[b]

StoredInv == \A b \in Bars : FileStored(b) /\ RowStored(b)

LEMMA InitStored == Init => StoredInv
BY DEF Init, StoredInv, FileStored, RowStored

(* What a step does to the file and to the threads that have it read.      *)
NoneReads == \A w \in Writers : HasRead(w)' => HasRead(w)

Leaves == NoneReads /\ UNCHANGED fileVars

Reads(w) ==
  /\ ReadFile(w)
  /\ \A u \in Writers \ {w} : HasRead(u)' => HasRead(u)

Saves(w, c) ==
  /\ \E v \in Values : Save(w, c, v)
  /\ HasRead(w) /\ ~HasRead(w)'
  /\ NoneReads
  /\ check[c] = "save" \/ ReaderEvaluates(c) \/ MonitorEvaluates(c)

LEMMA WriterFacts ==
  ASSUME TypeOK
  PROVE  /\ ByReader \in Writers /\ ByMonitor \in Writers /\ Bars \subseteq Writers
         /\ ByReader \notin Bars /\ ByMonitor \notin Bars /\ ByReader # ByMonitor
         /\ \A w \in Writers : w \in Bars \/ w = ByReader \/ w = ByMonitor
BY BoundsAssumption DEF Writers, ByReader, ByMonitor, Bars

LEMMA NoneReadsFacts ==
  ASSUME reader'.pc = "file" => reader.pc = "file",
         monitor'.pc = "file" => monitor.pc = "file",
         \A c \in Bars : check'[c] = "save" => check[c] = "save"
  PROVE  NoneReads
BY DEF NoneReads, HasRead

LEMMA FileSteps ==
  ASSUME TypeOK, [Next]_vars
  PROVE  Leaves \/ \E w \in Writers : Reads(w) \/ \E c \in Bars : Saves(w, c)
<1>w. /\ ByReader \in Writers /\ ByMonitor \in Writers /\ Bars \subseteq Writers
      /\ ByReader \notin Bars /\ ByMonitor \notin Bars /\ ByReader # ByMonitor
      /\ \A w \in Writers : w \in Bars \/ w = ByReader \/ w = ByMonitor
  BY WriterFacts
<1>v. 0..MaxValue \subseteq Values
  BY BarFacts DEF Values, Corrected
<1>i. IdleReader.pc = "idle" /\ IdleMonitor.pc = "idle" /\ DeadMonitor.pc = "dead"
  BY DEF IdleReader, IdleMonitor, DeadMonitor
<1>r. /\ \A p : [reader EXCEPT !.pc = p].pc = p
      /\ \A p : [monitor EXCEPT !.pc = p].pc = p
  BY DEF TypeOK, Readers, Monitors, IdleReader, IdleMonitor, DeadMonitor
<1>c. \A b \in Bars : \A p, c : /\ c # b => [check EXCEPT ![c] = p][b] = check[b]
                                /\ [check EXCEPT ![b] = p][b] = p
  BY DEF TypeOK
<1>1. CASE Exchange \/ UNCHANGED vars
  BY <1>1
     DEF Exchange, Trade, Close, GracePasses, Drop, Reconnect, vars, storeVars, fileVars,
         Leaves, NoneReads, HasRead
<1>2. CASE Receive \/ LiveUpsert \/ Pend \/ Confirm \/ IgnoreConfirm \/ ReaderRow
  <2>1. reader'.pc # "file"
    <3>1. CASE Receive
      BY <3>1 DEF Receive
    <3>2. CASE LiveUpsert \/ Confirm \/ ReaderRow
      BY <1>r, <3>2 DEF LiveUpsert, Confirm, ReaderRow
    <3>3. CASE Pend \/ IgnoreConfirm
      BY <1>i, <3>3 DEF Pend, IgnoreConfirm
    <3> QED BY <1>2, <3>1, <3>2, <3>3
  <2>2. UNCHANGED <<monitor, check>> /\ UNCHANGED fileVars
    BY <1>2 DEF Receive, LiveUpsert, Pend, Confirm, IgnoreConfirm, ReaderRow, storeVars, fileVars
  <2> QED BY <2>1, <2>2, NoneReadsFacts DEF Leaves
<1>3. CASE ReaderReads
  <2>1. UNCHANGED <<monitor, check>> /\ ReadFile(ByReader)
    BY <1>3 DEF ReaderReads
  <2>2. \A u \in Writers \ {ByReader} : HasRead(u)' => HasRead(u)
    BY <2>1 DEF HasRead
  <2> QED BY <1>w, <2>1, <2>2 DEF Reads
<1>4. CASE ReaderFile
  <2>1. reader.pc = "file" /\ reader'.pc = "idle" /\ UNCHANGED monitor
    BY <1>4, <1>i DEF ReaderFile
  <2>2. CASE Printed(ByReader, reader.msg.bar, reader.msg.value)
    <3>1. reader.msg.bar \in Bars /\ reader.msg.value \in Values
      BY <1>v, <2>1, ReaderType
    <3>2. \A c \in Bars : check'[c] = "save" => check[c] = "save"
      BY <1>c, <2>2 DEF Printed
    <3>3. HasRead(ByReader) /\ ~HasRead(ByReader)' /\ NoneReads
      BY <1>w, <2>1, <3>2, NoneReadsFacts DEF HasRead
    <3>4. ReaderEvaluates(reader.msg.bar)
      BY <2>1 DEF ReaderEvaluates
    <3>5. Saves(ByReader, reader.msg.bar)
      BY <2>2, <3>1, <3>3, <3>4 DEF Saves, Printed
    <3> QED BY <1>w, <3>1, <3>5
  <2>3. CASE UNCHANGED <<fileVars, check>>
    BY <2>1, <2>3, NoneReadsFacts DEF Leaves
  <2> QED BY <1>4, <2>2, <2>3 DEF ReaderFile
<1>5. CASE MonitorPoll \/ MonitorRow \/ MonitorFileFails
  <2>1. monitor'.pc # "file"
    <3>1. CASE MonitorPoll
      BY <3>1 DEF MonitorPoll
    <3>2. CASE MonitorRow
      BY <1>r, <3>2 DEF MonitorRow
    <3>3. CASE MonitorFileFails
      BY <1>i, <3>3 DEF MonitorFileFails
    <3> QED BY <1>5, <3>1, <3>2, <3>3
  <2>2. UNCHANGED <<reader, check>> /\ UNCHANGED fileVars
    BY <1>5 DEF MonitorPoll, MonitorRow, MonitorFileFails, storeVars, fileVars
  <2> QED BY <2>1, <2>2, NoneReadsFacts DEF Leaves
<1>6. CASE MonitorReads
  <2>1. UNCHANGED <<reader, check>> /\ ReadFile(ByMonitor)
    BY <1>6 DEF MonitorReads
  <2>2. \A u \in Writers \ {ByMonitor} : HasRead(u)' => HasRead(u)
    BY <2>1 DEF HasRead
  <2> QED BY <1>w, <2>1, <2>2 DEF Reads
<1>7. CASE MonitorFile
  <2>1. /\ monitor.pc = "file" /\ monitor'.pc \in {"idle", "dead"} /\ UNCHANGED reader
        /\ Printed(ByMonitor, monitor.bar, monitor.value)
    BY <1>7, <1>i DEF MonitorFile
  <2>2. monitor.bar \in Bars /\ monitor.value \in Values
    BY <1>v, <2>1, MonitorType
  <2>3. \A c \in Bars : check'[c] = "save" => check[c] = "save"
    BY <1>c, <2>1 DEF Printed
  <2>4. HasRead(ByMonitor) /\ ~HasRead(ByMonitor)' /\ NoneReads
    BY <1>w, <2>1, <2>3, NoneReadsFacts DEF HasRead
  <2>5. MonitorEvaluates(monitor.bar)
    BY <2>1 DEF MonitorEvaluates
  <2>6. Saves(ByMonitor, monitor.bar)
    BY <2>1, <2>2, <2>4, <2>5 DEF Saves, Printed
  <2> QED BY <1>w, <2>2, <2>6
<1>8. ASSUME NEW b \in Bars, Fetch(b) \/ Compare(b) \/ Repair(b) \/ Notify(b) \/ GiveUp(b)
      PROVE  Leaves
  <2>1. /\ \E p : p # "save" /\ check' = [check EXCEPT ![b] = p]
        /\ UNCHANGED <<reader, monitor>> /\ UNCHANGED fileVars
    BY <1>8 DEF Fetch, Compare, Repair, Notify, GiveUp, storeVars, fileVars
  <2>2. \A c \in Bars : check'[c] = "save" => check[c] = "save"
    BY <1>c, <2>1
  <2> QED BY <2>1, <2>2, NoneReadsFacts DEF Leaves
<1>9. ASSUME NEW b \in Bars, CheckReads(b) PROVE Reads(b)
  <2>1. UNCHANGED <<reader, monitor>> /\ ReadFile(b) /\ check' = [check EXCEPT ![b] = "save"]
    BY <1>9 DEF CheckReads
  <2>2. \A u \in Bars \ {b} : check'[u] = check[u]
    BY <1>c, <2>1
  <2>3. \A u \in Writers \ {b} : HasRead(u)' => HasRead(u)
    BY <2>1, <2>2 DEF HasRead
  <2> QED BY <2>1, <2>3 DEF Reads
<1>10. ASSUME NEW b \in Bars, SaveOfficial(b) PROVE Saves(b, b)
  <2>1. /\ UNCHANGED <<reader, monitor>> /\ check[b] = "save" /\ check'[b] = "notify"
        /\ Save(b, b, official[b])
        /\ \A c \in Bars : check'[c] = "save" => check[c] = "save"
    BY <1>10, <1>c DEF SaveOfficial
  <2>2. official[b] \in Values
    BY DEF TypeOK
  <2>3. HasRead(b) /\ ~HasRead(b)' /\ NoneReads
    BY <1>w, <2>1, NoneReadsFacts DEF HasRead
  <2> QED BY <2>1, <2>2, <2>3 DEF Saves
<1>11. CASE Crash
  <2>1. \A c \in Bars : check'[c] = "save" => check[c] = "save"
    BY <1>11 DEF Crash
  <2>2. reader'.pc # "file" /\ monitor'.pc # "file" /\ UNCHANGED fileVars
    BY <1>11, <1>i DEF Crash, storeVars, fileVars
  <2> QED BY <2>1, <2>2, NoneReadsFacts DEF Leaves
<1> QED
  BY <1>1, <1>2, <1>3, <1>4, <1>5, <1>6, <1>7, <1>8, <1>9, <1>10, <1>11, <1>w
     DEF Next, Reader, Monitor, Check, CheckStep

(* While the check stays where it is, what is in the file stays, unless    *)
(* the save of the bar overlapped another, and only the row of an overdue  *)
(* bar may change.                                                         *)
LEMMA StoredKept ==
  ASSUME OnceInv, EvalInv, ReadInv, StoredInv, [Next]_vars, NEW b \in Bars,
         check'[b] = check[b], b \in told' => b \in told
  PROVE  FileStored(b)' /\ RowStored(b)'
<1>1. TypeOK /\ FileStored(b) /\ RowStored(b)
  BY DEF OnceInv, StoredInv
<1>2. CASE check[b] = "none"
  BY <1>1, <1>2 DEF FileStored, RowStored
<1>3. CASE check[b] # "none"
  <2>1. official'[b] = official[b] /\ (b \notin overdueBy' => b \notin overdueBy)
    BY <1>1, <1>3, HistoryGrows, EvaluatedClosed DEF EvalInv, OneEvaluator
  <2>2. Repair(b) => check[b] = "write"
    BY DEF Repair
  <2>3. b \notin overdueBy => row'[b] = row[b] \/ check[b] = "write"
    BY <1>3, <2>2, OnlyRepaired
  <2>4. RowStored(b)'
    BY <1>1, <1>3, <2>1, <2>3 DEF RowStored
  <2>5. ASSUME check[b] \in {"notify", "done"}, b \notin overlapped'
        PROVE  /\ file'[b] = official[b]
               /\ \A u \in Writers : HasRead(u)' => copy'[u][b] = official[b]
    <3>1. CASE Leaves
      BY <1>1, <2>5, <3>1 DEF Leaves, NoneReads, fileVars, FileStored
    <3>2. ASSUME NEW w \in Writers, Reads(w)
          PROVE  /\ file'[b] = official[b]
                 /\ \A u \in Writers : HasRead(u)' => copy'[u][b] = official[b]
      <4>1. /\ file' = file /\ overlapped' = overlapped /\ copy'[w] = file
            /\ \A u \in Writers \ {w} : copy'[u] = copy[u]
        BY <1>1, <3>2 DEF Reads, ReadFile, TypeOK
      <4> QED BY <1>1, <2>5, <3>2, <4>1 DEF Reads, FileStored
    <3>3. ASSUME NEW w \in Writers, NEW c \in Bars, Saves(w, c)
          PROVE  /\ file'[b] = official[b]
                 /\ \A u \in Writers : HasRead(u)' => copy'[u][b] = official[b]
      <4>1. PICK v \in Values : Save(w, c, v)
        BY <3>3 DEF Saves
      <4>2. c # b
        BY <2>5, <3>3 DEF Saves, EvalInv, OneEvaluator
      <4>3. b \notin overlapped
        BY <2>5, <4>1, <4>2 DEF Save
      <4>4. copy[w] \in [Bars -> Values]
        BY <1>1 DEF TypeOK
      <4>5. file'[b] = copy[w][b] /\ \A u \in Writers \ {w} : copy'[u] = copy[u]
        BY <1>1, <4>1, <4>2, <4>4 DEF Save, TypeOK
      <4>6. \A u \in Writers : HasRead(u) => copy[u][b] = official[b]
        BY <1>1, <2>5, <4>3 DEF FileStored
      <4> QED BY <3>3, <4>5, <4>6 DEF Saves, NoneReads
    <3> QED BY <1>1, <3>1, <3>2, <3>3, FileSteps
  <2>6. FileStored(b)'
    BY <1>1, <2>1, <2>5 DEF FileStored
  <2> QED BY <2>4, <2>6
<1> QED BY <1>2, <1>3

(* The end of an evaluation.                                               *)
LEMMA StoredBegins ==
  ASSUME NEW b, FileStored(b), check[b] = "none", check'[b] = "sleep", told' = told
  PROVE  FileStored(b)' /\ RowStored(b)'
BY DEF FileStored, RowStored

LEMMA NextStored ==
  OnceInv /\ EvalInv /\ ReadInv /\ StoredInv /\ [Next]_vars => StoredInv'
<1> SUFFICES ASSUME OnceInv, EvalInv, ReadInv, StoredInv, [Next]_vars, NEW b \in Bars
             PROVE  FileStored(b)' /\ RowStored(b)'
  BY DEF StoredInv
<1>t. TypeOK /\ FileStored(b) /\ RowStored(b) /\ OneEvaluator(b)
  BY DEF OnceInv, StoredInv, EvalInv
<1>c. \A p, c : /\ c # b => [check EXCEPT ![c] = p][b] = check[b]
                /\ [check EXCEPT ![b] = p][b] = p
  BY <1>t DEF TypeOK
<1>1. CASE ReaderFile
  <2>1. /\ told' = told /\ reader.pc = "file"
        /\ check' \in {check, [check EXCEPT ![reader.msg.bar] = "sleep"]}
    BY <1>1 DEF ReaderFile, Printed
  <2>2. CASE reader.msg.bar # b \/ check' = check
    BY <1>c, <2>1, <2>2, StoredKept
  <2>3. CASE reader.msg.bar = b /\ check' # check
    <3>1. check[b] = "none"
      BY <1>t, <2>1, <2>3 DEF OneEvaluator, ReaderEvaluates
    <3> QED BY <1>t, <1>c, <2>1, <2>3, <3>1, StoredBegins
  <2> QED BY <2>2, <2>3
<1>2. CASE MonitorFile
  <2>1. /\ told' = told /\ monitor.pc = "file"
        /\ check' = [check EXCEPT ![monitor.bar] = "sleep"]
    BY <1>2 DEF MonitorFile, Printed
  <2>2. CASE monitor.bar # b
    BY <1>c, <2>1, <2>2, StoredKept
  <2>3. CASE monitor.bar = b
    <3>1. check[b] = "none"
      BY <1>t, <2>1, <2>3 DEF OneEvaluator, MonitorEvaluates
    <3> QED BY <1>t, <1>c, <2>1, <2>3, <3>1, StoredBegins
  <2> QED BY <2>2, <2>3
<1>3. ASSUME NEW c \in Bars, Check(c), c # b PROVE FileStored(b)' /\ RowStored(b)'
  <2>1. /\ \E p : check' = [check EXCEPT ![c] = p]
        /\ told' \in {told, told \cup {c}}
    BY <1>3 DEF Check, CheckStep, Fetch, Compare, Repair, CheckReads, SaveOfficial, Notify, GiveUp
  <2> QED BY <1>3, <1>c, <2>1, StoredKept
<1>4. CASE Check(b)
  <2>1. CASE Fetch(b)
    <3>1. check[b] = "sleep" /\ check'[b] = "compare" /\ told' = told
      BY <1>c, <2>1 DEF Fetch
    <3> QED BY <1>t, <3>1 DEF FileStored, RowStored
  <2>2. CASE Compare(b)
    <3>1. /\ check[b] = "compare" /\ check'[b] \in {"read", "write"}
          /\ check'[b] = "read" => row[b] = official[b]
          /\ UNCHANGED <<told, row, official>>
      BY <1>c, <2>2 DEF Compare, storeVars, exchangeVars
    <3> QED BY <1>t, <3>1 DEF FileStored, RowStored
  <2>3. CASE Repair(b)
    <3>1. /\ check[b] = "write" /\ check'[b] = "read" /\ row'[b] = official[b]
          /\ UNCHANGED <<told, official>>
      BY <1>t, <1>c, <2>3 DEF Repair, exchangeVars, TypeOK
    <3> QED BY <1>t, <3>1 DEF FileStored, RowStored
  <2>7. CASE CheckReads(b)
    <3>1. /\ check[b] = "read" /\ check'[b] = "save"
          /\ UNCHANGED <<told, official, row, overdueBy>>
      BY <1>c, <2>7 DEF CheckReads, exchangeVars, evalVars
    <3> QED BY <1>t, <3>1 DEF FileStored, RowStored
  <2>4. CASE SaveOfficial(b)
    <3>1. /\ check[b] = "save" /\ check'[b] = "notify" /\ Save(b, b, official[b])
          /\ UNCHANGED <<told, official, row, overdueBy, reader, monitor>>
          /\ \A c \in Bars : check'[c] = "save" => check[c] = "save"
      BY <1>c, <1>t, <2>4 DEF SaveOfficial, exchangeVars, evalVars, TypeOK
    <3>w. b \in Writers /\ b # ByReader /\ b # ByMonitor
      BY <1>t, WriterFacts
    <3>2. file'[b] = official[b]
      <4>1. copy[b] \in [Bars -> Values]
        BY <1>t, <3>w DEF TypeOK
      <4> QED BY <3>1, <4>1 DEF Save
    <3>3. ~HasRead(b)' /\ NoneReads
      BY <3>1, <3>w, NoneReadsFacts DEF HasRead
    <3>4. b \notin overlapped' => \A u \in Writers : ~HasRead(u)'
      BY <3>1, <3>3 DEF Save, NoneReads
    <3> QED BY <1>t, <3>1, <3>2, <3>4 DEF FileStored, RowStored
  <2>5. CASE Notify(b)
    <3>1. /\ check[b] = "notify" /\ check'[b] = "done"
          /\ UNCHANGED <<official, row, overdueBy, reader, monitor>> /\ UNCHANGED fileVars
          /\ \A c \in Bars : check'[c] = "save" => check[c] = "save"
      BY <1>c, <1>t, <2>5 DEF Notify, exchangeVars, evalVars, storeVars, fileVars, TypeOK
    <3>2. NoneReads
      BY <3>1, NoneReadsFacts
    <3> QED BY <1>t, <3>1, <3>2 DEF FileStored, RowStored, NoneReads, fileVars
  <2>6. CASE GiveUp(b)
    <3>1. Running(b) /\ check'[b] = "gone" /\ told' = told
      BY <1>c, <2>6 DEF GiveUp
    <3> QED BY <1>t, <3>1 DEF FileStored, RowStored, Running
  <2> QED BY <1>4, <2>1, <2>2, <2>3, <2>4, <2>5, <2>6, <2>7 DEF Check, CheckStep
<1>5. CASE Crash
  <2>1. /\ check'[b] = IF Running(b) THEN "gone" ELSE check[b]
        /\ UNCHANGED told
    BY <1>5 DEF Crash
  <2>2. CASE Running(b)
    BY <1>t, <2>1, <2>2 DEF FileStored, RowStored, Running
  <2>3. CASE ~Running(b)
    BY <2>1, <2>3, StoredKept
  <2> QED BY <2>2, <2>3
<1>6. CASE UNCHANGED <<check, told>>
  BY <1>6, StoredKept
<1> QED BY <1>1, <1>2, <1>3, <1>4, <1>5, <1>6
     DEF Next, Exchange, Trade, Close, GracePasses, Drop, Reconnect,
         Reader, ReaderReads, Receive, LiveUpsert, Pend, Confirm, IgnoreConfirm, ReaderRow,
         Monitor, MonitorReads, MonitorPoll, MonitorRow, MonitorFileFails, vars

(* A bar that is announced is in the file with its official value, if its  *)
(* save overlapped no other, and in the table, as far as the bot writes it,*)
(* if its confirm came in time, whatever else the tasks do.                *)
THEOREM AnnouncedIsStoredHolds == Spec => []AnnouncedIsStored
<1> DEFINE Inv == OnceInv /\ StreamInv /\ EvalInv /\ ReadInv /\ StoredInv
<1>1. Init => Inv
  BY InitOnce, InitStream, InitEval, InitRead, InitStored
<1>2. Inv /\ [Next]_vars => Inv'
  BY NextOnce, NextStream, NextEval, NextRead, NextStored
<1>3. Inv => AnnouncedIsStored
  <2> SUFFICES ASSUME TypeOK, StoredInv, NEW b \in told
               PROVE  /\ b \notin overlapped => file[b] = official[b]
                      /\ b \notin overdueBy => row[b] = official[b]
    BY DEF AnnouncedIsStored, OnceInv
  <2>1. b \in Bars
    BY DEF TypeOK
  <2> QED BY <2>1 DEF StoredInv, FileStored, RowStored
<1> QED BY <1>1, <1>2, <1>3, PTL DEF Spec

-----------------------------------------------------------------------------
(***************************************************************************)
(* The row of a bar only grows.                                            *)
(***************************************************************************)
RowOrder(b) ==
  b \notin overdueBy =>
    /\ row[b] <= traded[b] \/ (check[b] # "none" /\ row[b] = official[b])
    /\ \A i \in 1..Len(wire) : wire[i].bar = b => row[b] <= wire[i].value
    /\ reader.msg.bar = b => row[b] <= reader.msg.value

OfficialFinal(b) == b <= closed => traded[b] <= official[b]

OrderInv == \A b \in Bars : RowOrder(b) /\ OfficialFinal(b)

LEMMA InitOrder == Init => OrderInv
BY BoundsAssumption
   DEF Init, OrderInv, RowOrder, OfficialFinal, IdleReader, NoMessage, Nothing, Bars

LEMMA NextOfficial ==
  ASSUME TypeOK, [Next]_vars, NEW b \in Bars, OfficialFinal(b)
  PROVE  OfficialFinal(b)'
<1>b. closed \in Nat /\ b \in Nat /\ traded[b] \in 0..MaxValue /\ MaxValue \in Nat
      /\ traded[b] \in Nat
  BY BarFacts, TradedFacts
<1>1. CASE Close
  <2>1. PICK d, v : /\ d = closed + 1 /\ v \in {traded[d], Corrected}
                    /\ official' = [official EXCEPT ![d] = v]
    BY <1>1 DEF Close
  <2>2. closed' = closed + 1 /\ traded' = traded
    BY <1>1 DEF Close
  <2>3. CASE b = d
    <3>1. official'[b] = v
      BY <2>1, <2>3 DEF TypeOK
    <3>2. traded[b] <= v
      BY <1>b, <2>1, <2>3 DEF Corrected
    <3> QED BY <2>2, <3>1, <3>2 DEF OfficialFinal
  <2>4. CASE b # d
    <3>1. official'[b] = official[b] /\ (b <= closed' => b <= closed)
      BY <1>b, <2>1, <2>2, <2>4 DEF TypeOK
    <3> QED BY <2>2, <3>1 DEF OfficialFinal
  <2> QED BY <2>3, <2>4
<1>2. CASE Trade
  <2>1. /\ traded' = [traded EXCEPT ![closed + 1] = @ + 1]
        /\ UNCHANGED <<closed, official>>
    BY <1>2 DEF Trade
  <2>2. b <= closed => traded'[b] = traded[b]
    BY <1>b, <2>1 DEF TypeOK
  <2> QED BY <2>1, <2>2 DEF OfficialFinal
<1>3. CASE UNCHANGED <<closed, official, traded>>
  BY <1>3 DEF OfficialFinal
<1> QED BY <1>1, <1>2, <1>3
     DEF Next, Exchange, GracePasses, Drop, Reconnect,
         Reader, ReaderReads, Receive, LiveUpsert, Pend, Confirm, IgnoreConfirm, ReaderRow, ReaderFile,
         Monitor, MonitorReads, MonitorPoll, MonitorRow, MonitorFile, MonitorFileFails,
         Check, CheckStep, CheckReads, Fetch, Compare, Repair, SaveOfficial, Notify, GiveUp, Crash, vars,
         exchangeVars

(* The stream goes on and the row stays.                                   *)
LEMMA OrderKept ==
  ASSUME OnceInv, EvalInv, OrderInv, [Next]_vars, NEW b \in Bars,
         row'[b] = row[b]
  PROVE  RowOrder(b)'
<1> SUFFICES ASSUME b \notin overdueBy'
             PROVE  /\ row[b] <= traded'[b] \/ (check'[b] # "none" /\ row[b] = official'[b])
                    /\ \A i \in 1..Len(wire') : wire'[i].bar = b => row[b] <= wire'[i].value
                    /\ reader'.msg.bar = b => row[b] <= reader'.msg.value
  BY DEF RowOrder
<1>t. TypeOK /\ b \notin overdueBy
  BY HistoryGrows DEF OnceInv
<1>r. /\ row[b] <= traded[b] \/ (check[b] # "none" /\ row[b] = official[b])
      /\ \A i \in 1..Len(wire) : wire[i].bar = b => row[b] <= wire[i].value
      /\ reader.msg.bar = b => row[b] <= reader.msg.value
  BY <1>t DEF OrderInv, RowOrder
<1>m. /\ row[b] \in Nat /\ traded[b] \in Nat /\ closed \in Nat /\ b \in Nat /\ b # 0
      /\ wire \in Seq(Messages)
  BY <1>t, MessageFacts, BarFacts
<1>c. check[b] # "none" =>
        b <= closed /\ check'[b] # "none" /\ official'[b] = official[b]
  BY <1>t, HistoryGrows, EvaluatedClosed DEF EvalInv, OneEvaluator
<1>1. CASE Sent
  <2>1. PICK d \in Bars, v \in 1..MaxValue, k \in BOOLEAN :
          /\ d = closed + 1
          /\ Send(d, v, k)
          /\ traded[d] <= v /\ traded'[d] = v
          /\ \A e \in Bars : e # d => traded'[e] = traded[e]
          /\ reader' = reader
    BY <1>1 DEF Sent
  <2>2. \A i \in 1..Len(wire') :
          \/ i \in 1..Len(wire) /\ wire'[i] = wire[i]
          \/ i = Len(wire) + 1 /\ wire'[i] = [bar |-> d, value |-> v, confirm |-> k]
    BY <1>t, <2>1, SentFacts
  <2>3. v \in Nat
    BY <1>t, BarFacts
  <2>4. b = d => row[b] <= v
    BY <1>c, <1>m, <1>r, <2>1, <2>3
  <2>5. row[b] <= traded'[b] \/ (check'[b] # "none" /\ row[b] = official'[b])
    BY <1>c, <1>m, <1>r, <2>1, <2>3, <2>4
  <2>6. ASSUME NEW i \in 1..Len(wire'), wire'[i].bar = b PROVE row[b] <= wire'[i].value
    BY <1>r, <2>2, <2>4, <2>6
  <2> QED BY <1>r, <2>1, <2>5, <2>6
<1>2. CASE Taken
  <2>1. wire # <<>> /\ wire' = Tail(wire) /\ reader'.msg = Head(wire) /\ traded' = traded
    BY <1>2 DEF Taken
  <2>2. /\ Head(wire) = wire[1] /\ 1 \in 1..Len(wire)
        /\ \A i \in 1..Len(wire') : wire'[i] = wire[i + 1] /\ i + 1 \in 1..Len(wire)
    BY <1>m, <2>1, TailFacts
  <2> QED BY <1>c, <1>r, <2>1, <2>2
<1>3. CASE Kept
  <2>1. /\ \A i \in 1..Len(wire') : i \in 1..Len(wire) /\ wire'[i] = wire[i]
        /\ reader'.msg \in {reader.msg, NoMessage} /\ traded' = traded
    BY <1>3 DEF Kept
  <2>2. NoMessage.bar = 0
    BY DEF NoMessage
  <2> QED BY <1>c, <1>m, <1>r, <2>1, <2>2
<1> QED BY <1>t, <1>1, <1>2, <1>3, StreamSteps

(* What the reader writes is no older than the row, and no newer than what *)
(* is on the wire.                                                         *)
LEMMA ReaderOrder ==
  ASSUME OnceInv, StreamInv, OrderInv, [Next]_vars, NEW b \in Bars, ReaderWrites(b)
  PROVE  RowOrder(b)' /\ (b \notin overdueBy' => row[b] <= row'[b])
<1>t. TypeOK /\ (b \notin overdueBy' => b \notin overdueBy)
  BY HistoryGrows DEF OnceInv
<1>1. /\ reader.msg.bar = b /\ row'[b] = reader.msg.value /\ reader'.msg = reader.msg
      /\ wire' = wire /\ traded' = traded
  BY DEF ReaderWrites
<1>2. /\ reader.msg.value <= traded[b]
      /\ \A i \in 1..Len(wire) : wire[i].bar = b => reader.msg.value <= wire[i].value
  BY <1>1 DEF StreamInv, Ascending
<1>3. reader.msg.value <= reader.msg.value
  BY <1>t, MessageFacts
<1>4. b \notin overdueBy => row[b] <= reader.msg.value
  BY <1>1 DEF OrderInv, RowOrder
<1> QED BY <1>t, <1>1, <1>2, <1>3, <1>4 DEF RowOrder

LEMMA RepairOrder ==
  ASSUME OnceInv, EvalInv, ReadInv, OrderInv, [Next]_vars, NEW b \in Bars, Repair(b)
  PROVE  RowOrder(b)' /\ (b \notin overdueBy' => row[b] <= row'[b])
<1> SUFFICES ASSUME b \notin overdueBy' PROVE RowOrder(b)' /\ row[b] <= row'[b]
  BY DEF RowOrder
<1>t. TypeOK /\ b \notin overdueBy
  BY HistoryGrows DEF OnceInv
<1>1. /\ check[b] = "write" /\ check'[b] = "read" /\ row'[b] = official[b]
      /\ UNCHANGED <<official, reader, wire>>
  BY <1>t DEF Repair, exchangeVars, streamVars, TypeOK
<1>2. reader.msg.bar # b /\ \A i \in 1..Len(wire) : wire[i].bar # b
  BY <1>t, <1>1, OnlyRepaired
<1>3. traded[b] <= official[b]
  <2>1. b <= closed
    BY <1>1, EvaluatedClosed DEF EvalInv, OneEvaluator
  <2> QED BY <2>1 DEF OrderInv, OfficialFinal
<1>4. row[b] <= traded[b] \/ row[b] = official[b]
  BY <1>t DEF OrderInv, RowOrder
<1>5. row[b] <= row'[b]
  BY <1>t, <1>1, <1>3, <1>4, MessageFacts
<1> QED BY <1>1, <1>2, <1>5 DEF RowOrder

LEMMA NextOrder ==
  ASSUME OnceInv, StreamInv, EvalInv, ReadInv, OrderInv, [Next]_vars, NEW b \in Bars
  PROVE  RowOrder(b)' /\ OfficialFinal(b)' /\ (b \notin overdueBy' => row[b] <= row'[b])
<1>t. TypeOK /\ row[b] \in Nat /\ (b \notin overdueBy' => b \notin overdueBy)
  BY HistoryGrows, MessageFacts DEF OnceInv
<1>1. OfficialFinal(b)'
  BY <1>t, NextOfficial DEF OrderInv
<1>2. CASE row'[b] = row[b]
  BY <1>t, <1>1, <1>2, OrderKept
<1>3. CASE ReaderWrites(b)
  BY <1>1, <1>3, ReaderOrder
<1>4. CASE MonitorEvaluates(b)
  <2>1. b \in overdueBy
    BY <1>4 DEF EvalInv, OneEvaluator
  <2> QED BY <1>t, <1>1, <2>1 DEF RowOrder
<1>5. CASE Repair(b)
  BY <1>1, <1>5, RepairOrder
<1> QED BY <1>t, <1>2, <1>3, <1>4, <1>5, RowSteps

(* The row of a bar never goes back to an older value, unless the monitor  *)
(* evaluated the bar from the copy it had.                                 *)
THEOREM RowNeverRegressesHolds == Spec => RowNeverRegresses
<1> DEFINE Inv == OnceInv /\ StreamInv /\ EvalInv /\ ReadInv /\ OrderInv
<1>1. Init => Inv
  BY InitOnce, InitStream, InitEval, InitRead, InitOrder
<1>2. Inv /\ [Next]_vars => Inv'
  <2>1. OnceInv /\ StreamInv /\ EvalInv /\ ReadInv /\ OrderInv /\ [Next]_vars => OrderInv'
    BY NextOrder DEF OrderInv
  <2> QED BY <2>1, NextOnce, NextStream, NextEval, NextRead
<1>3. Inv /\ [Next]_vars => [\A b \in Bars \ overdueBy' : row'[b] >= row[b]]_vars
  <2> SUFFICES ASSUME Inv, [Next]_vars, NEW b \in Bars \ overdueBy' PROVE row'[b] >= row[b]
    OBVIOUS
  <2>1. row[b] <= row'[b]
    BY NextOrder
  <2>2. row[b] \in Nat /\ row'[b] \in Nat
    <3>1. TypeOK /\ TypeOK'
      BY NextType DEF OnceInv
    <3> QED BY <3>1, BoundsAssumption DEF TypeOK, Values, Corrected
  <2> QED BY <2>1, <2>2
<1> QED BY <1>1, <1>2, <1>3, PTL DEF Spec, RowNeverRegresses

-----------------------------------------------------------------------------
(***************************************************************************)
(* No bar is passed over.  Everything goes one way: the last evaluated     *)
(* bar, the bars put aside, the message in the reader's hands and those on *)
(* the wire stand in the order of the bars.                                *)
(***************************************************************************)
WireOrder ==
  /\ \A i, j \in 1..Len(wire) : i < j => wire[i].bar <= wire[j].bar
  /\ \A j \in 1..Len(wire) : reader.msg.bar <= wire[j].bar /\ wire[j].bar <= closed + 1
  /\ reader.msg.bar <= closed + 1

Behind(n) ==
  /\ n <= closed + 1
  /\ \A j \in 1..Len(wire) : n <= wire[j].bar
  /\ reader.msg.bar # 0 => n <= reader.msg.bar

AllBehind ==
  /\ lastEnd <= closed /\ Behind(lastEnd)
  /\ \A b \in Pended : Behind(b)

Offline == connected \/ wire = <<>>

IdleHand == reader.pc = "idle" => reader.msg.bar = 0

WayInv == WireOrder /\ AllBehind /\ Offline /\ IdleHand

(* What is sent, and what is not.                                          *)
LEMMA SendGrows ==
  ASSUME TypeOK, NEW b \in Bars, NEW v \in 1..MaxValue, NEW c \in BOOLEAN, Send(b, v, c)
  PROVE  /\ ~connected => wire' = wire
         /\ connected => /\ Len(wire) + 1 \in 1..Len(wire')
                         /\ wire'[Len(wire) + 1] = [bar |-> b, value |-> v, confirm |-> c]
         /\ \A i \in 1..Len(wire) : i \in 1..Len(wire') /\ wire'[i] = wire[i]
<1>1. [bar |-> b, value |-> v, confirm |-> c] \in Messages
  BY DEF Messages
<1>2. wire \in Seq(Messages) /\ Len(wire) \in Nat
  BY DEF TypeOK
<1>3. CASE connected
  <2>1. wire' = Append(wire, [bar |-> b, value |-> v, confirm |-> c])
    BY <1>3 DEF Send
  <2> QED BY <1>1, <1>2, <1>3, <2>1, AppendFacts
<1>4. CASE ~connected
  BY <1>2, <1>4 DEF Send
<1> QED BY <1>3, <1>4

LEMMA NextNumber ==
  ASSUME NEW c \in Nat, NEW d \in Nat, c <= d
  PROVE  d >= 0 /\ d + 1 >= 0 /\ c + 1 <= d + 1 /\ \A n \in Nat : n <= c + 1 => n <= d + 1
OBVIOUS

LEMMA ClosedGrows == ASSUME TypeOK, [Next]_vars PROVE closed <= closed' /\ closed' \in Nat
<1>1. closed \in Nat
  BY BarFacts
<1>2. closed' \in {closed, closed + 1}
  BY DEF Next, Exchange, Trade, Close, GracePasses, Drop, Reconnect,
         Reader, ReaderReads, Receive, LiveUpsert, Pend, Confirm, IgnoreConfirm, ReaderRow, ReaderFile,
         Monitor, MonitorReads, MonitorPoll, MonitorRow, MonitorFile, MonitorFileFails,
         Check, CheckStep, CheckReads, Fetch, Compare, Repair, SaveOfficial, Notify, GiveUp, Crash, vars,
         exchangeVars
<1> QED BY <1>1, <1>2

LEMMA BehindKept ==
  ASSUME TypeOK, [Next]_vars, NEW n \in Nat, Behind(n)
  PROVE  Behind(n)'
<1>c. closed \in Nat /\ closed' \in Nat /\ closed <= closed'
  BY BarFacts, ClosedGrows
<1>1. n <= closed' + 1
  <2>1. n \in Nat /\ n <= closed + 1
    BY DEF Behind
  <2> QED BY <1>c, <2>1, NextNumber
<1>2. CASE Sent
  <2>1. PICK d \in Bars, v \in 1..MaxValue, k \in BOOLEAN :
          d = closed + 1 /\ Send(d, v, k) /\ reader' = reader
    BY <1>2 DEF Sent
  <2>2. \A i \in 1..Len(wire') :
          \/ i \in 1..Len(wire) /\ wire'[i] = wire[i]
          \/ i = Len(wire) + 1 /\ wire'[i] = [bar |-> d, value |-> v, confirm |-> k]
    BY <2>1, SentFacts
  <2>3. n <= d
    BY <2>1 DEF Behind
  <2> QED BY <1>1, <2>1, <2>2, <2>3 DEF Behind
<1>3. CASE Taken
  <2>1. wire \in Seq(Messages) /\ wire # <<>> /\ wire' = Tail(wire) /\ reader'.msg = Head(wire)
    BY <1>3, MessageFacts DEF Taken
  <2>2. /\ Head(wire) = wire[1] /\ 1 \in 1..Len(wire)
        /\ \A i \in 1..Len(wire') : wire'[i] = wire[i + 1] /\ i + 1 \in 1..Len(wire)
    BY <2>1, TailFacts
  <2> QED BY <1>1, <2>1, <2>2 DEF Behind
<1>4. CASE Kept
  BY <1>1, <1>4 DEF Behind, Kept, NoMessage
<1> QED BY <1>2, <1>3, <1>4, StreamSteps

LEMMA WireOrderNext == ASSUME TypeOK, WireOrder, [Next]_vars PROVE WireOrder'
<1>c. closed \in Nat /\ closed' \in Nat /\ closed <= closed'
  BY BarFacts, ClosedGrows
<1>m. /\ wire \in Seq(Messages) /\ Len(wire) \in Nat
      /\ \A i \in 1..Len(wire) : wire[i].bar \in Nat
      /\ reader.msg.bar \in Nat
  BY MessageFacts, BarFacts
<1>1. CASE Sent
  <2>1. PICK d \in Bars, v \in 1..MaxValue, k \in BOOLEAN :
          d = closed + 1 /\ Send(d, v, k) /\ reader' = reader
    BY <1>1 DEF Sent
  <2>2. \A i \in 1..Len(wire') :
          \/ i \in 1..Len(wire) /\ wire'[i] = wire[i]
          \/ i = Len(wire) + 1 /\ wire'[i].bar = d
    <3>1. \A i \in 1..Len(wire') :
            \/ i \in 1..Len(wire) /\ wire'[i] = wire[i]
            \/ i = Len(wire) + 1 /\ wire'[i] = [bar |-> d, value |-> v, confirm |-> k]
      BY <2>1, SentFacts
    <3> QED BY <3>1
  <2>3. ASSUME NEW i \in 1..Len(wire'), NEW j \in 1..Len(wire'), i < j
        PROVE  wire'[i].bar <= wire'[j].bar
    <3>1. i \in 1..Len(wire) /\ wire'[i] = wire[i]
      BY <1>m, <2>2, <2>3, SentFacts, <2>1
    <3>2. CASE j \in 1..Len(wire) /\ wire'[j] = wire[j]
      BY <2>3, <3>1, <3>2 DEF WireOrder
    <3>3. CASE wire'[j].bar = d
      BY <2>1, <3>1, <3>3 DEF WireOrder
    <3> QED BY <2>2, <3>2, <3>3
  <2>4. ASSUME NEW j \in 1..Len(wire')
        PROVE  reader'.msg.bar <= wire'[j].bar /\ wire'[j].bar <= closed' + 1
    <3>1. CASE j \in 1..Len(wire) /\ wire'[j] = wire[j]
      <4>1. reader.msg.bar <= wire[j].bar /\ wire[j].bar <= closed + 1 /\ wire[j].bar \in Nat
        BY <1>m, <3>1 DEF WireOrder
      <4> QED BY <1>c, <2>1, <3>1, <4>1
    <3>2. CASE wire'[j].bar = d
      <4>1. reader'.msg.bar <= closed + 1 /\ reader'.msg.bar \in Nat
        BY <1>m, <2>1 DEF WireOrder
      <4>2. d <= closed' + 1
        BY <1>c, <2>1, NextNumber
      <4> QED BY <2>1, <3>2, <4>1, <4>2
    <3> QED BY <2>2, <3>1, <3>2
  <2>5. reader'.msg.bar <= closed' + 1
    BY <1>c, <1>m, <2>1 DEF WireOrder
  <2> QED BY <2>3, <2>4, <2>5 DEF WireOrder
<1>2. CASE Taken
  <2>1. wire # <<>> /\ wire' = Tail(wire) /\ reader'.msg = Head(wire)
    BY <1>2 DEF Taken
  <2>2. /\ Head(wire) = wire[1] /\ 1 \in 1..Len(wire)
        /\ \A i \in 1..Len(wire') : wire'[i] = wire[i + 1] /\ i + 1 \in 1..Len(wire)
    BY <1>m, <2>1, TailFacts
  <2>3. \A k \in 1..Len(wire) : wire[k].bar <= closed' + 1
    BY <1>c, <1>m DEF WireOrder
  <2>4. \A k, l \in 1..Len(wire) : k < l => wire[k].bar <= wire[l].bar
    BY DEF WireOrder
  <2>5. ASSUME NEW i \in 1..Len(wire'), NEW j \in 1..Len(wire'), i < j
        PROVE  wire'[i].bar <= wire'[j].bar
    <3>1. i + 1 \in 1..Len(wire) /\ j + 1 \in 1..Len(wire) /\ i + 1 < j + 1
      BY <2>2, <2>5
    <3> QED BY <2>2, <2>4, <3>1
  <2>6. ASSUME NEW j \in 1..Len(wire')
        PROVE  reader'.msg.bar <= wire'[j].bar /\ wire'[j].bar <= closed' + 1
    <3>1. j + 1 \in 1..Len(wire) /\ 1 < j + 1
      BY <2>2
    <3> QED BY <2>1, <2>2, <2>3, <2>4, <3>1
  <2> QED BY <2>1, <2>2, <2>3, <2>5, <2>6 DEF WireOrder
<1>3. CASE Kept
  <2>1. /\ \A i \in 1..Len(wire') : i \in 1..Len(wire) /\ wire'[i] = wire[i]
        /\ reader'.msg \in {reader.msg, NoMessage}
    BY <1>3 DEF Kept
  <2>2. NoMessage.bar = 0
    BY DEF NoMessage
  <2>3. \A k \in 1..Len(wire) : wire[k].bar <= closed' + 1 /\ reader.msg.bar <= wire[k].bar
    BY <1>c, <1>m DEF WireOrder
  <2>4. reader'.msg.bar <= closed' + 1 /\ reader'.msg.bar <= reader.msg.bar
    BY <1>c, <1>m, <2>1, <2>2 DEF WireOrder
  <2>5. reader'.msg.bar \in Nat
    BY <1>m, <2>1, <2>2
  <2>6. ASSUME NEW j \in 1..Len(wire')
        PROVE  reader'.msg.bar <= wire'[j].bar /\ wire'[j].bar <= closed' + 1
    <3>1. j \in 1..Len(wire) /\ wire'[j] = wire[j] /\ wire[j].bar \in Nat
      BY <1>m, <2>1
    <3>2. reader.msg.bar <= wire[j].bar /\ wire[j].bar <= closed' + 1
      BY <2>3, <3>1
    <3>3. reader'.msg.bar <= wire[j].bar
      BY <1>m, <2>4, <2>5, <3>1, <3>2
    <3> QED BY <3>1, <3>2, <3>3
  <2>7. ASSUME NEW i \in 1..Len(wire'), NEW j \in 1..Len(wire'), i < j
        PROVE  wire'[i].bar <= wire'[j].bar
    BY <2>1, <2>7 DEF WireOrder
  <2> QED BY <2>4, <2>6, <2>7 DEF WireOrder
<1> QED BY <1>1, <1>2, <1>3, StreamSteps

LEMMA InitWay == Init => WayInv
BY DEF Init, WayInv, WireOrder, AllBehind, Behind, Offline, IdleHand, IdleReader, NoMessage,
       Pended

(* The reader's bar is in its place, and so is what it puts aside.         *)
LEMMA HandBehind ==
  ASSUME TypeOK, WireOrder, reader.msg.bar # 0 PROVE Behind(reader.msg.bar)
BY MessageFacts, BarFacts DEF WireOrder, Behind

LEMMA NextWay == OnceInv /\ WayInv /\ [Next]_vars => WayInv'
<1> SUFFICES ASSUME OnceInv, WayInv, [Next]_vars PROVE WayInv'
  OBVIOUS
<1>t. TypeOK /\ WireOrder
  BY DEF OnceInv, WayInv
<1>b. /\ closed \in Nat /\ lastEnd \in Nat /\ closed' \in Nat /\ closed <= closed'
      /\ due \in Nat /\ due <= closed
      /\ \A b \in Bars : b \in Nat /\ b # 0
  <2>1. due \in 0..closed
    BY <1>t DEF TypeOK
  <2> QED BY <1>t, <2>1, BarFacts, ClosedGrows
<1>1. WireOrder'
  BY <1>t, WireOrderNext
<1>2. Offline'
  <2>1. CASE Trade \/ Close
    <3>1. PICK d \in Bars, v \in 1..MaxValue, k \in BOOLEAN : Send(d, v, k) /\ connected' = connected
      <4>1. CASE Trade
        <5>1. PICK d : d = closed + 1
          OBVIOUS
        <5>2. d \in Bars /\ traded[d] < MaxValue /\ traded' = [traded EXCEPT ![d] = @ + 1]
          BY <4>1, <5>1 DEF Trade
        <5>3. traded'[d] \in 1..MaxValue
          BY <1>t, <5>2, TradedFacts DEF TypeOK
        <5> QED BY <4>1, <5>1, <5>2, <5>3 DEF Trade
      <4>2. CASE Close
        <5>1. PICK d : d = closed + 1
          OBVIOUS
        <5>2. d \in Bars /\ traded[d] \in 1..MaxValue
          BY <1>t, <4>2, <5>1, TradedFacts DEF Close
        <5> QED BY <4>2, <5>1, <5>2 DEF Close
      <4> QED BY <2>1, <4>1, <4>2
    <3> QED BY <1>t, <3>1, SendGrows DEF WayInv, Offline
  <2>2. CASE Receive
    <3>1. wire # <<>> /\ connected' = connected
      BY <2>2 DEF Receive
    <3> QED BY <3>1 DEF WayInv, Offline
  <2>3. CASE Drop \/ Reconnect \/ Crash
    BY <2>3 DEF Drop, Reconnect, Crash, Offline
  <2>4. CASE UNCHANGED <<wire, connected>>
    BY <2>4 DEF WayInv, Offline
  <2> QED BY <2>1, <2>2, <2>3, <2>4
       DEF Next, Exchange, GracePasses, Reader, ReaderReads, LiveUpsert, Pend, Confirm, IgnoreConfirm,
           ReaderRow, ReaderFile, Monitor, MonitorReads, MonitorPoll, MonitorRow, MonitorFile,
           MonitorFileFails, Check, CheckStep, CheckReads, Fetch, Compare, Repair, SaveOfficial, Notify, GiveUp,
           vars, streamVars
<1>3. lastEnd' <= closed' /\ Behind(lastEnd)'
  <2>1. CASE lastEnd' = lastEnd
    <3>1. lastEnd <= closed /\ Behind(lastEnd)
      BY DEF WayInv, AllBehind
    <3>2. Behind(lastEnd)'
      <4>1. PICK n \in Nat : n = lastEnd
        BY <1>b
      <4>2. Behind(n)'
        BY <1>t, <3>1, <4>1, BehindKept
      <4> QED BY <2>1, <4>1, <4>2 DEF Behind
    <3> QED BY <1>b, <2>1, <3>1, <3>2
  <2>2. ASSUME NEW b \in Bars, b <= closed, Behind(b), lastEnd' = b
        PROVE  lastEnd' <= closed' /\ Behind(lastEnd)'
    <3>1. Behind(b)'
      BY <1>t, <1>b, <2>2, BehindKept
    <3> QED BY <1>b, <2>2, <3>1 DEF Behind
  <2>3. CASE Confirm
    <3>1. reader.msg.bar \in Bars /\ reader.msg.bar <= closed /\ lastEnd' = reader.msg.bar
      BY <2>3, ConfirmFacts DEF Confirm, Claim, OnceInv, ConfirmsAreOfClosed
    <3>2. PICK b \in Bars : b = reader.msg.bar
      BY <3>1
    <3>3. Behind(b)
      BY <1>t, <1>b, <3>2, HandBehind
    <3> QED BY <2>2, <3>1, <3>2, <3>3
  <2>4. CASE MonitorPoll
    <3>1. PICK b \in Overdue : Claim(b)
      BY <2>4 DEF MonitorPoll
    <3>2. b \in Bars /\ b \in Pended /\ b <= due /\ lastEnd' = b
      BY <3>1 DEF Overdue, Pended, Claim
    <3>3. Behind(b) /\ b <= closed
      BY <1>b, <3>2 DEF WayInv, AllBehind
    <3> QED BY <2>2, <3>2, <3>3
  <2>5. CASE Crash
    <3>1. lastEnd' = 0 /\ wire' = <<>> /\ reader'.msg.bar = 0
      BY <2>5 DEF Crash, IdleReader, NoMessage
    <3>2. closed' + 1 >= 0 /\ closed' >= 0
      BY <1>b, NextNumber
    <3>3. \A j \in 1..Len(wire') : FALSE
      BY <3>1
    <3> QED BY <3>1, <3>2, <3>3 DEF Behind
  <2> QED BY <2>1, <2>3, <2>4, <2>5
       DEF Next, Exchange, Trade, Close, GracePasses, Drop, Reconnect,
           Reader, ReaderReads, Receive, LiveUpsert, Pend, IgnoreConfirm, ReaderRow, ReaderFile,
           Monitor, MonitorReads, MonitorRow, MonitorFile, MonitorFileFails,
           Check, CheckStep, CheckReads, Fetch, Compare, Repair, SaveOfficial, Notify, GiveUp, vars, evalVars
<1>4. ASSUME NEW b \in Pended' PROVE Behind(b)'
  <2>1. b \in Bars /\ pending'[b] # Nothing
    BY <1>4 DEF Pended
  <2>2. Behind(b)
    <3>1. CASE b \in Pended
      BY <3>1 DEF WayInv, AllBehind
    <3>2. CASE b \notin Pended
      <4>1. pending[b] = Nothing
        BY <2>1, <3>2 DEF Pended
      <4>2. CASE Pend
        <5>1. b = reader.msg.bar
          BY <1>t, <2>1, <4>1, <4>2 DEF Pend, TypeOK
        <5> QED BY <1>t, <1>b, <2>1, <5>1, HandBehind
      <4>3. CASE MonitorFile
        BY <1>t, <2>1, <4>1, <4>3 DEF MonitorFile, TypeOK
      <4>4. CASE Crash
        BY <2>1, <4>4 DEF Crash
      <4>5. CASE pending' = pending
        BY <2>1, <4>1, <4>5
      <4> QED BY <4>2, <4>3, <4>4, <4>5
           DEF Next, Exchange, Trade, Close, GracePasses, Drop, Reconnect,
               Reader, ReaderReads, Receive, LiveUpsert, Confirm, IgnoreConfirm, ReaderRow, ReaderFile,
               Monitor, MonitorReads, MonitorPoll, MonitorRow, MonitorFileFails,
               Check, CheckStep, CheckReads, Fetch, Compare, Repair, SaveOfficial, Notify, GiveUp, vars
    <3> QED BY <3>1, <3>2
  <2> QED BY <1>t, <1>b, <2>1, <2>2, BehindKept
<1>5. IdleHand'
  <2>1. IdleReader.msg.bar = 0 /\ IdleHand
    BY DEF IdleReader, NoMessage, WayInv
  <2>2. \A p : [reader EXCEPT !.pc = p].pc = p
    BY <1>t DEF TypeOK, Readers, IdleReader
  <2>3. CASE reader' = reader
    BY <2>1, <2>3 DEF IdleHand
  <2>4. CASE reader' = IdleReader
    BY <2>1, <2>4 DEF IdleHand
  <2>5. CASE Receive \/ LiveUpsert \/ Confirm \/ ReaderRow \/ ReaderReads
    <3>1. reader'.pc \in {"live", "decide", "row", "read", "file"}
      <4>1. CASE Receive
        BY <4>1 DEF Receive
      <4>2. CASE LiveUpsert
        BY <2>2, <4>2 DEF LiveUpsert
      <4>3. CASE Confirm
        BY <2>2, <4>3 DEF Confirm
      <4>4. CASE ReaderRow \/ ReaderReads
        BY <2>2, <4>4 DEF ReaderRow, ReaderReads
      <4> QED BY <2>5, <4>1, <4>2, <4>3, <4>4
    <3> QED BY <3>1 DEF IdleHand
  <2> QED
    BY <2>3, <2>4, <2>5
       DEF Next, Exchange, Trade, Close, GracePasses, Drop, Reconnect,
           Reader, Pend, IgnoreConfirm, ReaderFile,
           Monitor, MonitorReads, MonitorPoll, MonitorRow, MonitorFile, MonitorFileFails,
           Check, CheckStep, CheckReads, Fetch, Compare, Repair, SaveOfficial, Notify, GiveUp, Crash, vars
<1> QED BY <1>1, <1>2, <1>3, <1>4, <1>5 DEF WayInv, AllBehind

(* A bar that is closed, and still on the wire, is so with its confirm.    *)
ConfirmFollows ==
  \A i \in 1..Len(wire) : wire[i].bar <= closed =>
    \E j \in 1..Len(wire) : wire[j].bar = wire[i].bar /\ wire[j].confirm

LEMMA TakenFrom ==
  ASSUME NEW S, NEW q \in Seq(S), NEW j \in 1..Len(q), j # 1
  PROVE  j - 1 \in 1..Len(Tail(q)) /\ Tail(q)[j - 1] = q[j] /\ 1 < j
OBVIOUS

(* The confirm is the last message of its bar, so it is not taken first.   *)
LEMMA ReceiveFollows ==
  ASSUME TypeOK, StreamInv, ConfirmFollows, Receive PROVE ConfirmFollows'
<1>m. wire \in Seq(Messages) /\ wire # <<>> /\ wire' = Tail(wire) /\ closed' = closed
  BY MessageFacts DEF Receive, exchangeVars
<1>1. \A i \in 1..Len(wire') : wire'[i] = wire[i + 1] /\ i + 1 \in 1..Len(wire)
  BY <1>m, TailFacts
<1> SUFFICES ASSUME NEW i \in 1..Len(wire'), wire'[i].bar <= closed
             PROVE  \E j \in 1..Len(wire') : wire'[j].bar = wire'[i].bar /\ wire'[j].confirm
  BY <1>m DEF ConfirmFollows
<1>2. i + 1 \in 1..Len(wire) /\ wire'[i] = wire[i + 1] /\ 1 < i + 1
  BY <1>1
<1>3. PICK j \in 1..Len(wire) : wire[j].bar = wire[i + 1].bar /\ wire[j].confirm
  BY <1>2 DEF ConfirmFollows
<1>4. j # 1
  <2> SUFFICES ASSUME j = 1 PROVE FALSE
    OBVIOUS
  <2>1. wire[1].bar = wire[i + 1].bar /\ wire[1].confirm /\ 1 \in 1..Len(wire)
    BY <1>3
  <2> QED BY <1>2, <2>1 DEF StreamInv, ConfirmIsLast
<1>5. j - 1 \in 1..Len(wire') /\ wire'[j - 1] = wire[j]
  BY <1>m, <1>4, TakenFrom
<1> QED BY <1>2, <1>3, <1>5

LEMMA NextFollows ==
  ASSUME TypeOK, StreamInv, Offline, ConfirmFollows, [Next]_vars PROVE ConfirmFollows'
<1>m. wire \in Seq(Messages) /\ Len(wire) \in Nat /\ closed \in Nat
  BY MessageFacts, BarFacts
<1>1. CASE Trade
  <2>1. PICK d : d = closed + 1
    OBVIOUS
  <2>2. d \in Bars /\ traded'[d] \in 1..MaxValue /\ Send(d, traded'[d], FALSE) /\ closed' = closed
    <3>1. d \in Bars /\ traded[d] < MaxValue /\ traded' = [traded EXCEPT ![d] = @ + 1]
      BY <1>1, <2>1 DEF Trade
    <3>2. traded'[d] = traded[d] + 1
      BY <3>1 DEF TypeOK
    <3> QED BY <1>1, <2>1, <3>1, <3>2, TradedFacts DEF Trade
  <2> SUFFICES ASSUME NEW i \in 1..Len(wire'), wire'[i].bar <= closed
               PROVE  \E j \in 1..Len(wire') : wire'[j].bar = wire'[i].bar /\ wire'[j].confirm
    BY <2>2 DEF ConfirmFollows
  <2>3. i \in 1..Len(wire) /\ wire'[i] = wire[i]
    <3>1. \/ i \in 1..Len(wire) /\ wire'[i] = wire[i]
          \/ wire'[i] = [bar |-> d, value |-> traded'[d], confirm |-> FALSE]
      BY <2>2, SentFacts
    <3>2. CASE wire'[i] = [bar |-> d, value |-> traded'[d], confirm |-> FALSE]
      <4>1. wire'[i].bar = closed + 1
        BY <2>1, <3>2
      <4> QED BY <1>m, <4>1
    <3> QED BY <3>1, <3>2
  <2>4. PICK j \in 1..Len(wire) : wire[j].bar = wire[i].bar /\ wire[j].confirm
    BY <2>3 DEF ConfirmFollows
  <2>5. j \in 1..Len(wire') /\ wire'[j] = wire[j]
    BY <2>2, SendGrows
  <2> QED BY <2>3, <2>4, <2>5
<1>2. CASE Close
  <2>1. PICK d : d = closed + 1
    OBVIOUS
  <2>2. d \in Bars /\ traded[d] \in 1..MaxValue /\ Send(d, traded[d], TRUE) /\ closed' = d
    BY <1>2, <2>1, TradedFacts DEF Close
  <2>3. CASE ~connected
    <3>1. wire' = <<>>
      BY <2>2, <2>3, SendGrows DEF Offline
    <3> QED BY <3>1 DEF ConfirmFollows
  <2>4. CASE connected
    <3> SUFFICES ASSUME NEW i \in 1..Len(wire'), wire'[i].bar <= d
                 PROVE  \E j \in 1..Len(wire') : wire'[j].bar = wire'[i].bar /\ wire'[j].confirm
      BY <2>2 DEF ConfirmFollows
    <3>1. /\ Len(wire) + 1 \in 1..Len(wire')
          /\ wire'[Len(wire) + 1] = [bar |-> d, value |-> traded[d], confirm |-> TRUE]
          /\ \A k \in 1..Len(wire) : k \in 1..Len(wire') /\ wire'[k] = wire[k]
      BY <2>2, <2>4, SendGrows
    <3>2. \/ i \in 1..Len(wire) /\ wire'[i] = wire[i]
          \/ wire'[i] = [bar |-> d, value |-> traded[d], confirm |-> TRUE]
      BY <2>2, SentFacts
    <3>3. CASE wire'[i].bar = d
      BY <3>1, <3>3
    <3>4. CASE wire'[i].bar # d
      <4>1. i \in 1..Len(wire) /\ wire'[i] = wire[i]
        BY <3>2, <3>4
      <4>2. wire[i].bar <= closed
        <5>1. wire[i].bar \in Nat
          BY <4>1, MessageFacts, BarFacts
        <5> QED BY <1>m, <2>1, <3>4, <4>1, <5>1
      <4>3. PICK j \in 1..Len(wire) : wire[j].bar = wire[i].bar /\ wire[j].confirm
        BY <4>1, <4>2 DEF ConfirmFollows
      <4> QED BY <3>1, <4>1, <4>3
    <3> QED BY <3>3, <3>4
  <2> QED BY <2>3, <2>4
<1>3. CASE Receive
  BY <1>3, ReceiveFollows
<1>4. CASE Drop \/ Crash
  <2>1. wire' = <<>>
    BY <1>4 DEF Drop, Crash
  <2> QED BY <2>1 DEF ConfirmFollows
<1>5. CASE wire' = wire /\ closed' = closed
  BY <1>5 DEF ConfirmFollows
<1> QED
  BY <1>1, <1>2, <1>3, <1>4, <1>5
     DEF Next, Exchange, GracePasses, Reconnect,
         Reader, ReaderReads, LiveUpsert, Pend, Confirm, IgnoreConfirm, ReaderRow, ReaderFile,
         Monitor, MonitorReads, MonitorPoll, MonitorRow, MonitorFile, MonitorFileFails,
         Check, CheckStep, CheckReads, Fetch, Compare, Repair, SaveOfficial, Notify, GiveUp, vars,
         exchangeVars, streamVars

-----------------------------------------------------------------------------
(***************************************************************************)
(* Bars are evaluated in turn: while the monitor is alive, a bar that has  *)
(* been seen and not evaluated has no confirm of a later bar before its    *)
(* own.                                                                    *)
(***************************************************************************)
Unsettled(c) ==
  evals[c] = 0 /\ (c \in Pended \/ (reader.msg.bar = c /\ ~reader.msg.confirm))

ConfirmAhead(c) ==
  \/ reader.msg.bar = c /\ reader.msg.confirm
  \/ \E j \in 1..Len(wire) : wire[j].bar = c /\ wire[j].confirm

TurnOf(c) ==
  /\ ~(reader.msg.confirm /\ reader.msg.bar > c)
  /\ (\E j \in 1..Len(wire) : wire[j].confirm /\ wire[j].bar > c) => ConfirmAhead(c)

InTurn == monitor.pc # "dead" => \A c \in Bars : Unsettled(c) => TurnOf(c)

LastEvaluated == lastEnd # 0 => evals[lastEnd] > 0

TurnInv == InTurn /\ LastEvaluated /\ NoBarSkipped

LEMMA InitTurn == Init => TurnInv /\ ConfirmFollows
BY DEF Init, TurnInv, InTurn, Unsettled, LastEvaluated, NoBarSkipped, Pended,
       ConfirmFollows, IdleReader, NoMessage, Bars

(* A bar put aside that is not later than the last evaluated one.          *)
LEMMA Passed ==
  ASSUME TypeOK, LastEvaluated, NoBarSkipped, monitor.pc # "dead",
         NEW b \in Bars, b \in Pended, b <= lastEnd
  PROVE  evals[b] > 0
<1>1. b \in Nat /\ b # 0 /\ lastEnd \in Nat
  BY BarFacts
<1>2. CASE b = lastEnd
  BY <1>1, <1>2 DEF LastEvaluated
<1>3. CASE b < lastEnd
  BY <1>3 DEF NoBarSkipped
<1> QED BY <1>1, <1>2, <1>3

LEMMA NextLast == ASSUME OnceInv, LastEvaluated, [Next]_vars PROVE LastEvaluated'
<1>1. CASE lastEnd' = lastEnd /\ evals' = evals
  BY <1>1 DEF LastEvaluated
<1>2. CASE Confirm
  <2>1. lastEnd' = reader.msg.bar
    BY <1>2 DEF Confirm, Claim
  <2> QED BY <1>2, <2>1, ConfirmFacts DEF LastEvaluated
<1>3. CASE MonitorPoll
  <2>1. PICK b \in Overdue : Claim(b)
    BY <1>3 DEF MonitorPoll
  <2>2. b \in Bars /\ ~Traceless(b) /\ lastEnd' = b
    BY <2>1 DEF Overdue, Pended, Traceless, Claim
  <2> QED BY <2>1, <2>2, ClaimFacts DEF LastEvaluated
<1>4. CASE Crash
  BY <1>4 DEF Crash, LastEvaluated
<1> QED
  BY <1>1, <1>2, <1>3, <1>4
     DEF Next, Exchange, Trade, Close, GracePasses, Drop, Reconnect,
         Reader, ReaderReads, Receive, LiveUpsert, Pend, IgnoreConfirm, ReaderRow, ReaderFile,
         Monitor, MonitorReads, MonitorRow, MonitorFile, MonitorFileFails,
         Check, CheckStep, CheckReads, Fetch, Compare, Repair, SaveOfficial, Notify, GiveUp, vars, evalVars

(* The reader puts its message down, or goes on with it.                   *)
LEMMA TurnKept ==
  ASSUME InTurn, monitor.pc # "dead", NEW c \in Bars, Unsettled(c), wire' = wire,
         reader'.msg.confirm => reader'.msg = reader.msg,
         reader.msg.bar = c /\ reader.msg.confirm => reader'.msg = reader.msg
  PROVE  TurnOf(c)'
BY DEF InTurn, TurnOf, ConfirmAhead

LEMMA CloseTurn ==
  ASSUME OnceInv, TurnInv, Close, monitor.pc # "dead", NEW c \in Bars, Unsettled(c)
  PROVE  TurnOf(c)'
<1>t. TypeOK /\ ConfirmsAreOfClosed /\ closed \in Nat /\ c \in Nat /\ c # 0
  BY BarFacts DEF OnceInv
<1>1. PICK d : d = closed + 1
  OBVIOUS
<1>2. d \in Bars /\ traded[d] \in 1..MaxValue /\ Send(d, traded[d], TRUE) /\ reader' = reader
  BY <1>t, <1>1, TradedFacts DEF Close
<1>3. c > closed
  <2> SUFFICES ASSUME c <= closed PROVE FALSE
    BY <1>t
  <2>1. /\ due = closed /\ reader.msg.bar \in {0, closed + 1}
        /\ \A b \in Pended : b <= due => b <= lastEnd
    BY DEF Close, Settled
  <2>2. c \in Pended /\ evals[c] = 0
    BY <1>t, <2>1 DEF Unsettled
  <2>3. c <= lastEnd
    BY <2>1, <2>2
  <2> QED BY <1>t, <2>2, <2>3, Passed DEF TurnInv
<1>4. ASSUME NEW j \in 1..Len(wire'), wire'[j].confirm PROVE ~(wire'[j].bar > c)
  <2>1. CASE j \in 1..Len(wire) /\ wire'[j] = wire[j]
    <3>1. wire[j].bar <= closed /\ wire[j].bar \in Nat
      BY <1>t, <1>4, <2>1, MessageFacts, BarFacts DEF ConfirmsAreOfClosed
    <3> QED BY <1>t, <1>3, <2>1, <3>1
  <2>2. CASE wire'[j] = [bar |-> d, value |-> traded[d], confirm |-> TRUE]
    <3>1. wire'[j].bar = closed + 1
      BY <1>1, <2>2
    <3> QED BY <1>t, <1>3, <3>1
  <2> QED BY <1>t, <1>2, <2>1, <2>2, SentFacts
<1>5. ~(reader.msg.confirm /\ reader.msg.bar > c)
  BY DEF TurnInv, InTurn, TurnOf
<1> QED BY <1>2, <1>4, <1>5 DEF TurnOf

LEMMA TradeTurn ==
  ASSUME OnceInv, InTurn, Trade, monitor.pc # "dead", NEW c \in Bars, Unsettled(c)
  PROVE  TurnOf(c)'
<1>t. TypeOK
  BY DEF OnceInv
<1>1. PICK d : d = closed + 1
  OBVIOUS
<1>2. d \in Bars /\ traded'[d] \in 1..MaxValue /\ Send(d, traded'[d], FALSE) /\ reader' = reader
  <2>1. d \in Bars /\ traded[d] < MaxValue /\ traded' = [traded EXCEPT ![d] = @ + 1]
    BY <1>1 DEF Trade
  <2>2. traded'[d] = traded[d] + 1
    BY <1>t, <2>1 DEF TypeOK
  <2> QED BY <1>t, <1>1, <2>1, <2>2, TradedFacts DEF Trade
<1>3. \A j \in 1..Len(wire) : j \in 1..Len(wire') /\ wire'[j] = wire[j]
  BY <1>t, <1>2, SendGrows
<1>4. ASSUME NEW j \in 1..Len(wire'), wire'[j].confirm
      PROVE  j \in 1..Len(wire) /\ wire'[j] = wire[j]
  <2>1. \/ j \in 1..Len(wire) /\ wire'[j] = wire[j]
        \/ wire'[j] = [bar |-> d, value |-> traded'[d], confirm |-> FALSE]
    BY <1>t, <1>2, SentFacts
  <2> QED BY <1>4, <2>1
<1>5. TurnOf(c)
  BY DEF InTurn
<1> QED BY <1>2, <1>3, <1>4, <1>5 DEF TurnOf, ConfirmAhead

(* A bar is in turn with what it is read from.                             *)
LEMMA ReceiveTurn ==
  ASSUME OnceInv, WireOrder, ConfirmFollows, InTurn, IdleHand,
         Receive, monitor.pc # "dead", NEW c \in Bars, Unsettled(c)'
  PROVE  TurnOf(c)'
<1>t. TypeOK /\ ConfirmsAreOfClosed /\ closed \in Nat /\ c \in Nat /\ c # 0
  BY BarFacts DEF OnceInv
<1>m. /\ wire \in Seq(Messages) /\ wire # <<>> /\ wire' = Tail(wire)
      /\ reader'.msg = wire[1] /\ 1 \in 1..Len(wire)
      /\ \A i \in 1..Len(wire') : wire'[i] = wire[i + 1] /\ i + 1 \in 1..Len(wire)
  <2>1. wire \in Seq(Messages) /\ wire # <<>> /\ wire' = Tail(wire) /\ reader'.msg = Head(wire)
    BY <1>t, MessageFacts DEF Receive
  <2> QED BY <2>1, TailFacts
<1>n. \A i \in 1..Len(wire) : wire[i].bar \in Nat
  BY <1>t, MessageFacts, BarFacts
<1>1. evals[c] = 0 /\ pending' = pending /\ reader.msg.bar # c
  BY <1>t DEF Receive, Unsettled, evalVars, IdleHand
<1>k. ASSUME NEW j \in 1..Len(wire), wire[j].bar = c, wire[j].confirm PROVE ConfirmAhead(c)'
  <2>1. CASE j = 1
    BY <1>m, <1>k, <2>1 DEF ConfirmAhead
  <2>2. CASE j # 1
    <3>1. j - 1 \in 1..Len(wire') /\ wire'[j - 1] = wire[j]
      BY <1>m, <2>2, TakenFrom
    <3> QED BY <1>k, <3>1 DEF ConfirmAhead
  <2> QED BY <2>1, <2>2
<1>2. CASE c \in Pended
  <2>1. TurnOf(c)
    BY <1>1, <1>2 DEF Unsettled, InTurn
  <2>2. ASSUME NEW i \in 1..Len(wire), wire[i].confirm, wire[i].bar > c
        PROVE  \E j \in 1..Len(wire) : wire[j].bar = c /\ wire[j].confirm
    BY <1>1, <2>1, <2>2 DEF TurnOf, ConfirmAhead
  <2>3. ~(wire[1].confirm /\ wire[1].bar > c)
    <3> SUFFICES ASSUME wire[1].confirm, wire[1].bar > c PROVE FALSE
      OBVIOUS
    <3>1. PICK j \in 1..Len(wire) : wire[j].bar = c
      BY <1>m, <2>2
    <3>2. j # 1
      BY <1>t, <3>1
    <3>3. wire[1].bar <= wire[j].bar
      BY <1>m, <3>2 DEF WireOrder
    <3> QED BY <1>m, <1>n, <1>t, <3>1, <3>3
  <2>4. ASSUME NEW i \in 1..Len(wire'), wire'[i].confirm, wire'[i].bar > c
        PROVE  ConfirmAhead(c)'
    <3>1. PICK j \in 1..Len(wire) : wire[j].bar = c /\ wire[j].confirm
      BY <1>m, <2>2, <2>4
    <3> QED BY <1>k, <3>1
  <2> QED BY <1>m, <2>3, <2>4 DEF TurnOf
<1>3. CASE c \notin Pended
  <2>1. wire[1].bar = c /\ ~wire[1].confirm
    BY <1>1, <1>3, <1>m DEF Unsettled, Pended
  <2>2. ASSUME NEW i \in 1..Len(wire'), wire'[i].confirm, wire'[i].bar > c
        PROVE  ConfirmAhead(c)'
    <3>1. i + 1 \in 1..Len(wire) /\ wire[i + 1].confirm /\ wire[i + 1].bar > c
      BY <1>m, <2>2
    <3>2. wire[i + 1].bar <= closed /\ wire[i + 1].bar \in Nat
      BY <1>n, <1>t, <3>1 DEF ConfirmsAreOfClosed
    <3>3. wire[1].bar <= closed
      BY <1>t, <2>1, <3>1, <3>2
    <3>4. PICK j \in 1..Len(wire) : wire[j].bar = wire[1].bar /\ wire[j].confirm
      BY <1>m, <3>3 DEF ConfirmFollows
    <3> QED BY <1>k, <2>1, <3>4
  <2> QED BY <1>m, <2>1, <2>2 DEF TurnOf
<1> QED BY <1>2, <1>3

(* The reader's other steps leave the wire alone.                          *)
LEMMA ReaderTurn ==
  ASSUME OnceInv, EvalInv, TurnInv, monitor.pc # "dead", NEW c \in Bars, Unsettled(c)',
         \/ LiveUpsert \/ Pend \/ Confirm \/ IgnoreConfirm
         \/ ReaderRow \/ ReaderReads \/ ReaderFile
  PROVE  TurnOf(c)'
<1>t. TypeOK /\ c # 0
  BY BarFacts DEF OnceInv
<1>i. InTurn /\ IdleReader.msg.bar = 0 /\ ~IdleReader.msg.confirm
  BY DEF TurnInv, IdleReader, NoMessage
<1>r. \A p : [reader EXCEPT !.pc = p].msg = reader.msg
  BY <1>t DEF TypeOK, Readers, IdleReader
<1>1. CASE LiveUpsert \/ ReaderRow \/ ReaderReads
  <2>1. reader'.msg = reader.msg /\ wire' = wire /\ evals' = evals /\ pending' = pending
    BY <1>1, <1>r DEF LiveUpsert, ReaderRow, ReaderReads, streamVars, evalVars
  <2>2. Unsettled(c)
    BY <2>1 DEF Unsettled, Pended
  <2> QED BY <1>i, <2>1, <2>2, TurnKept
<1>2. CASE Pend
  <2>1. /\ reader' = IdleReader /\ wire' = wire /\ evals' = evals /\ ~reader.msg.confirm
        /\ pending' = [pending EXCEPT ![reader.msg.bar] = reader.msg.value]
    BY <1>2 DEF Pend, streamVars, evalVars
  <2>2. c \in Pended' /\ evals[c] = 0
    BY <1>i, <1>t, <2>1 DEF Unsettled
  <2>3. c \in Pended \/ reader.msg.bar = c
    BY <1>t, <2>1, <2>2 DEF Pended, TypeOK
  <2>4. Unsettled(c)
    BY <2>1, <2>2, <2>3 DEF Unsettled
  <2> QED BY <1>i, <2>1, <2>4, TurnKept
<1>3. CASE Confirm
  <2>1. /\ reader'.msg = reader.msg /\ wire' = wire /\ pending' = pending
        /\ evals'[reader.msg.bar] = 1
        /\ \A d \in Bars : d # reader.msg.bar => evals'[d] = evals[d]
    BY <1>3, ConfirmFacts DEF Confirm, streamVars
  <2>2. Unsettled(c)
    BY <2>1 DEF Unsettled, Pended
  <2> QED BY <1>i, <2>1, <2>2, TurnKept
<1>4. CASE IgnoreConfirm \/ ReaderFile
  <2>1. reader' = IdleReader /\ wire' = wire /\ evals' = evals /\ pending' = pending
    BY <1>4 DEF IgnoreConfirm, ReaderFile, streamVars, evalVars
  <2>2. c \in Pended /\ evals[c] = 0
    BY <1>i, <1>t, <2>1 DEF Unsettled, Pended
  <2>3. Unsettled(c)
    BY <2>2 DEF Unsettled
  <2>4. reader.msg.bar # c
    <3>1. CASE IgnoreConfirm
      <4>1. ~(reader.msg.bar > lastEnd)
        BY <3>1 DEF IgnoreConfirm, Claimable
      <4> SUFFICES ASSUME reader.msg.bar = c PROVE FALSE
        OBVIOUS
      <4>2. c <= lastEnd
        BY <1>t, <4>1, BarFacts
      <4> QED BY <1>t, <2>2, <4>2, Passed DEF TurnInv
    <3>2. CASE ReaderFile
      <4>1. reader.pc = "file"
        BY <3>2 DEF ReaderFile
      <4> QED BY <2>2, <4>1 DEF EvalInv, OneEvaluator, ReaderEvaluates
    <3> QED BY <1>4, <3>1, <3>2
  <2> QED BY <1>i, <2>1, <2>3, <2>4, TurnKept
<1> QED BY <1>1, <1>2, <1>3, <1>4

LEMMA NextInTurn ==
  ASSUME OnceInv, EvalInv, WayInv, ConfirmFollows, TurnInv, [Next]_vars PROVE InTurn'
<1> SUFFICES ASSUME monitor'.pc # "dead", NEW c \in Bars, Unsettled(c)' PROVE TurnOf(c)'
  BY DEF InTurn
<1>t. TypeOK /\ TypeOK' /\ InTurn /\ c # 0
  BY NextType, BarFacts DEF OnceInv, TurnInv
<1>0. CASE Crash
  <2>1. c \notin Pended' /\ reader'.msg.bar = 0
    BY <1>0 DEF Crash, Pended, IdleReader, NoMessage
  <2> QED BY <1>t, <2>1 DEF Unsettled
<1>d. CASE ~Crash
  <2>m. monitor.pc # "dead"
    <3>1. CASE monitor' = monitor
      BY <3>1
    <3>2. CASE Monitor
      BY <3>2 DEF Monitor, MonitorPoll, MonitorRow, MonitorReads, MonitorFile, MonitorFileFails
    <3> QED
      BY <1>d, <3>1, <3>2
         DEF Next, Exchange, Trade, Close, GracePasses, Drop, Reconnect, Reader, ReaderReads, Receive,
             LiveUpsert, Pend, Confirm, IgnoreConfirm, ReaderRow, ReaderFile,
             Check, CheckStep, CheckReads, Fetch, Compare, Repair, SaveOfficial, Notify, GiveUp, vars
  <2>1. CASE Trade \/ Close
    <3>1. Unsettled(c)
      BY <2>1 DEF Trade, Close, Unsettled, Pended, evalVars
    <3> QED BY <1>t, <2>m, <2>1, <3>1, TradeTurn, CloseTurn
  <2>2. CASE Receive
    BY <1>t, <2>m, <2>2, ReceiveTurn DEF WayInv
  <2>3. CASE \/ LiveUpsert \/ Pend \/ Confirm \/ IgnoreConfirm
             \/ ReaderRow \/ ReaderReads \/ ReaderFile
    BY <2>m, <2>3, ReaderTurn
  <2>4. CASE Drop
    <3>1. wire' = <<>> /\ reader' = reader /\ Unsettled(c)
      BY <2>4 DEF Drop, Unsettled, Pended, evalVars
    <3>2. ~(reader.msg.confirm /\ reader.msg.bar > c)
      BY <1>t, <2>m, <3>1 DEF InTurn, TurnOf
    <3>3. \A j \in 1..Len(wire') : FALSE
      BY <3>1
    <3> QED BY <3>1, <3>2, <3>3 DEF TurnOf
  <2>5. CASE MonitorPoll
    <3>1. PICK b \in Bars :
            evals[b] = 0 /\ evals'[b] = 1 /\ \A d \in Bars : d # b => evals'[d] = evals[d]
      BY <2>5, PollFacts
    <3>2. reader' = reader /\ wire' = wire /\ pending' = pending
      BY <2>5 DEF MonitorPoll, streamVars
    <3>3. Unsettled(c)
      BY <3>1, <3>2 DEF Unsettled, Pended
    <3> QED BY <1>t, <2>m, <3>2, <3>3, TurnKept
  <2>6. CASE MonitorFile
    <3>1. reader' = reader /\ wire' = wire /\ evals' = evals
      BY <2>6 DEF MonitorFile, streamVars, evalVars
    <3>2. c \in Pended' => c \in Pended
      BY <1>t, <2>6 DEF MonitorFile, Pended, TypeOK
    <3>3. Unsettled(c)
      BY <3>1, <3>2 DEF Unsettled
    <3> QED BY <1>t, <2>m, <3>1, <3>3, TurnKept
  <2>7. CASE UNCHANGED <<reader, wire, evals, pending>>
    <3>1. Unsettled(c)
      BY <2>7 DEF Unsettled, Pended
    <3> QED BY <1>t, <2>m, <2>7, <3>1, TurnKept
  <2> QED
    BY <1>d, <2>1, <2>2, <2>3, <2>4, <2>5, <2>6, <2>7
       DEF Next, Exchange, GracePasses, Reconnect, Reader, Monitor, MonitorReads, MonitorRow,
           MonitorFileFails, Check, CheckStep, CheckReads, Fetch, Compare, Repair, SaveOfficial, Notify, GiveUp,
           vars, streamVars, evalVars
<1> QED BY <1>0, <1>d

LEMMA NextSkipped ==
  ASSUME OnceInv, WayInv, TurnInv, [Next]_vars PROVE NoBarSkipped'
<1> SUFFICES ASSUME monitor'.pc # "dead", NEW b \in Bars, b \in Pended', b < lastEnd'
             PROVE  evals'[b] > 0
  BY DEF NoBarSkipped, Pended
<1>t. TypeOK /\ b \in Nat /\ b # 0 /\ lastEnd \in Nat /\ InTurn /\ LastEvaluated /\ NoBarSkipped
  BY BarFacts DEF OnceInv, TurnInv
<1>0. CASE Crash
  BY <1>0 DEF Crash, Pended
<1>1. CASE Confirm
  <2>1. /\ reader.msg.bar \in Bars /\ reader.msg.confirm /\ lastEnd' = reader.msg.bar
        /\ evals'[reader.msg.bar] = 1
        /\ \A d \in Bars : d # reader.msg.bar => evals'[d] = evals[d]
        /\ pending' = pending /\ monitor' = monitor
    BY <1>1, ConfirmFacts DEF Confirm, Claim
  <2>2. b \in Pended /\ b # reader.msg.bar /\ reader.msg.bar > b
    BY <1>t, <2>1, BarFacts DEF Pended
  <2>3. evals[b] # 0
    BY <2>1, <2>2 DEF TurnInv, InTurn, Unsettled, TurnOf
  <2>4. evals[b] \in Nat
    BY <1>t DEF TypeOK
  <2> QED BY <2>1, <2>2, <2>3, <2>4
<1>2. CASE MonitorPoll
  <2>1. PICK d \in Overdue : (\A e \in Overdue : d <= e) /\ Claim(d)
    BY <1>2 DEF MonitorPoll
  <2>2. d \in Bars /\ d \in Pended /\ d <= due /\ lastEnd' = d /\ ~Traceless(d)
    BY <2>1 DEF Overdue, Pended, Claim, Traceless
  <2>3. b \in Pended /\ monitor.pc = "idle"
    BY <1>2 DEF MonitorPoll, Pended
  <2>4. b <= lastEnd
    <3>1. d \in Nat /\ due \in Nat
      BY <1>t, <2>2, BarFacts
    <3>2. b \notin Overdue /\ b <= due
      BY <1>t, <2>1, <2>2, <3>1
    <3> QED BY <1>t, <2>3, <3>2 DEF Overdue, Claimable
  <2>5. evals[b] > 0
    BY <1>t, <2>3, <2>4, Passed
  <2>6. b # d
    BY <1>t, <2>2
  <2> QED BY <2>1, <2>2, <2>5, <2>6, ClaimFacts
<1>3. CASE Pend
  <2>1. /\ lastEnd' = lastEnd /\ evals' = evals /\ monitor' = monitor
        /\ pending' = [pending EXCEPT ![reader.msg.bar] = reader.msg.value]
    BY <1>3 DEF Pend, evalVars
  <2>2. reader.msg.bar # b
    <3>1. reader.msg.bar # 0 => lastEnd <= reader.msg.bar
      BY DEF WayInv, AllBehind, Behind
    <3> QED BY <1>t, <2>1, <3>1
  <2>3. b \in Pended
    BY <1>t, <2>1, <2>2 DEF Pended, TypeOK
  <2> QED BY <1>t, <2>1, <2>3 DEF NoBarSkipped
<1>4. CASE MonitorFile
  <2>1. lastEnd' = lastEnd /\ evals' = evals /\ monitor.pc # "dead"
    BY <1>4 DEF MonitorFile, evalVars
  <2>2. b \in Pended
    BY <1>t, <1>4 DEF MonitorFile, Pended, TypeOK
  <2> QED BY <1>t, <2>1, <2>2 DEF NoBarSkipped
<1>5. CASE MonitorRow \/ MonitorReads \/ MonitorFileFails
  <2>1. monitor.pc # "dead" /\ UNCHANGED <<pending, evals, lastEnd>>
    BY <1>5 DEF MonitorRow, MonitorReads, MonitorFileFails, evalVars
  <2> QED BY <1>t, <2>1 DEF NoBarSkipped, Pended
<1>6. CASE UNCHANGED <<monitor, pending, evals, lastEnd>>
  BY <1>t, <1>6 DEF NoBarSkipped, Pended
<1> QED
  BY <1>0, <1>1, <1>2, <1>3, <1>4, <1>5, <1>6
     DEF Next, Exchange, Trade, Close, GracePasses, Drop, Reconnect, Reader, ReaderReads, Receive,
         LiveUpsert, IgnoreConfirm, ReaderRow, ReaderFile, Monitor,
         Check, CheckStep, CheckReads, Fetch, Compare, Repair, SaveOfficial, Notify, GiveUp, vars, evalVars

(* While the monitor is alive, no bar that was put aside is passed over:   *)
(* when a later one has been evaluated, so has it.                         *)
THEOREM NoBarSkippedHolds == Spec => []NoBarSkipped
<1> DEFINE Inv == OnceInv /\ StreamInv /\ EvalInv /\ WayInv /\ ConfirmFollows /\ TurnInv
<1>1. Init => Inv
  BY InitOnce, InitStream, InitEval, InitWay, InitTurn
<1>2. Inv /\ [Next]_vars => Inv'
  <2> SUFFICES ASSUME Inv, [Next]_vars PROVE Inv'
    OBVIOUS
  <2>1. OnceInv' /\ StreamInv' /\ EvalInv' /\ WayInv'
    BY NextOnce, NextStream, NextEval, NextWay
  <2>2. ConfirmFollows'
    BY NextFollows DEF OnceInv, WayInv
  <2>3. TurnInv'
    BY NextInTurn, NextLast, NextSkipped DEF TurnInv
  <2> QED BY <2>1, <2>2, <2>3
<1>3. Inv => NoBarSkipped
  BY DEF TurnInv
<1> QED BY <1>1, <1>2, <1>3, PTL DEF Spec
=============================================================================
