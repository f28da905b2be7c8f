----------------------- MODULE PositionOverlay_proofs -----------------------
(***************************************************************************)
(* Proofs about PositionOverlay, for any sides, zones, levels, requests    *)
(* and bounds.                                                             *)
(***************************************************************************)
EXTENDS PositionOverlay, WellFoundedInduction, TLAPS

(***************************************************************************)
(* Sets and sequences.                                                     *)
(***************************************************************************)

(* A set of naturals up to a bound has a greatest member.  (Taken from <   *)
(* being well founded: the library's theorems of induction are about       *)
(* operators.)                                                             *)
LEMMA Greatest ==
  ASSUME NEW n \in Nat, NEW T \in SUBSET (0..n), T # {}
  PROVE  \E g \in T : \A t \in T : t <= g
<1>1. PICK R : R = OpToRel(<, Nat)
  OBVIOUS
<1>2. IsWellFoundedOn(R, Nat)
  BY <1>1, NatLessThanWellFounded
<1>3. \A a, b \in Nat : a < b => <<a, b>> \in R
  BY <1>1 DEF OpToRel
<1> DEFINE U == {n - t : t \in T}
<1>4. U \subseteq Nat /\ U # {}
  <2>1. \A t \in T : n - t \in Nat
    OBVIOUS
  <2> QED BY <2>1
<1>5. \A t \in T : n - t \in U
  OBVIOUS
<1>6. \A u \in U : \E t \in T : u = n - t
  OBVIOUS
<1> HIDE DEF U
<1>7. PICK u \in U : \A v \in U : ~(<<v, u>> \in R)
  BY <1>2, <1>4, WFMin
<1>8. PICK g \in T : u = n - g
  BY <1>6
<1>9. ASSUME NEW t \in T PROVE t <= g
  <2>1. n - t \in U /\ n - t \in Nat /\ u \in Nat
    BY <1>4, <1>5
  <2>2. ~(n - t < u)
    BY <1>3, <1>7, <2>1
  <2>3. t \in Int /\ g \in Int
    OBVIOUS
  <2> QED BY <1>8, <2>2, <2>3
<1> QED BY <1>9

(* Taking the head off a non-empty sequence.                               *)
LEMMA TailFacts ==
  ASSUME NEW S, NEW q \in Seq(S), q # <<>>
  PROVE  /\ Head(q) \in S
         /\ Head(q) = q[1]
         /\ 1 \in 1..Len(q)
         /\ Tail(q) \in Seq(S)
         /\ Len(Tail(q)) = Len(q) - 1
         /\ \A i \in 1..Len(Tail(q)) : Tail(q)[i] = q[i + 1] /\ i + 1 \in 1..Len(q)
         /\ \A i \in 1..Len(q) : i = 1 \/ (i - 1 \in 1..Len(Tail(q)) /\ Tail(q)[i - 1] = q[i])
  OBVIOUS

(* Putting an element at the end of one.                                   *)
LEMMA AppendFacts ==
  ASSUME NEW S, NEW q \in Seq(S), NEW e \in S
  PROVE  /\ Append(q, e) \in Seq(S)
         /\ Len(Append(q, e)) = Len(q) + 1
         /\ \A i \in 1..Len(q) : i \in 1..Len(Append(q, e)) /\ Append(q, e)[i] = q[i]
         /\ Append(q, e)[Len(q) + 1] = e
         /\ Len(q) + 1 \in 1..Len(Append(q, e))
         /\ \A i \in 1..Len(Append(q, e)) : i \in 1..Len(q) \/ i = Len(q) + 1
  OBVIOUS

(* A sequence at the end of another.                                       *)
LEMMA ConcatFacts ==
  ASSUME NEW S, NEW q \in Seq(S), NEW a \in Seq(S)
  PROVE  /\ q \o a \in Seq(S)
         /\ Len(q \o a) = Len(q) + Len(a)
         /\ \A i \in 1..Len(q) : i \in 1..Len(q \o a) /\ (q \o a)[i] = q[i]
         /\ \A i \in 1..Len(a) : Len(q) + i \in 1..Len(q \o a) /\ (q \o a)[Len(q) + i] = a[i]
         /\ \A i \in 1..Len(q \o a) : i \in 1..Len(q) \/ i - Len(q) \in 1..Len(a)
  OBVIOUS

(* Sequences of one and of two.                                            *)
LEMMA PairFacts ==
  ASSUME NEW S, NEW a \in S, NEW b \in S
  PROVE  /\ <<a>> \in Seq(S) /\ Len(<<a>>) = 1 /\ <<a>>[1] = a
         /\ <<a, b>> \in Seq(S) /\ Len(<<a, b>>) = 2 /\ <<a, b>>[1] = a /\ <<a, b>>[2] = b
  OBVIOUS

(* Taking one out of the middle.                                           *)
LEMMA RemoveFacts ==
  ASSUME NEW S, NEW q \in Seq(S), NEW i \in 1..Len(q)
  PROVE  RemoveAt(q, i) \in Seq(S)
<1>1. SubSeq(q, 1, i - 1) \in Seq(S)
  OBVIOUS
<1>2. SubSeq(q, i + 1, Len(q)) \in Seq(S)
  OBVIOUS
<1> QED BY <1>1, <1>2 DEF RemoveAt

(***************************************************************************)
(* Types of everything on its way between the processes.                   *)
(***************************************************************************)
Kinds == {"Open", "Close", "TakeProfit", "StopLoss", "Position"}

FeedMessage ==
  {m \in [kind : Kinds, side : Sides, key : Keys, qty : Nat, time : Nat,
          was : Position \cup {None}, now : Position \cup {None}] :
     m.kind = "Open" => m.now \in Position /\ m.time \in 1..MaxChanges}

Notice == [op : {"update", "clear"}, side : Sides, key : Keys, tp : Prices]

Post == [side : Sides, overlay : Overlay \cup {None}]

Snapshot ==
  [kind : {"snapshot"}, at : {"list", "build", "write"}, left : SUBSET Sides,
   read : Map, ok : BOOLEAN, answer : Map]

Edit ==
  [kind : {"edit"}, at : {"check", "set", "patch"}, side : Sides, tp : Levels, seen : Overlay]

Records == [Sides -> [Keys -> Record \cup {None}]]

StateOK ==
  /\ pos \in [Sides -> Position \cup {None}]
  /\ changes \in 0..MaxChanges
  /\ entries \in 0..changes
  /\ ordered \subseteq Zones
  /\ feed \in Seq(FeedMessage)
  /\ record \in Records
  /\ tasks \in Seq(Notice)
  /\ posts \in Seq(Post)
  /\ overlay \in Map
  /\ req \in [Requests -> {None} \cup Snapshot \cup Edit]
  /\ asked \in 0..MaxRequests
  /\ faults \in 0..MaxFaults
  /\ doubt \subseteq Sides

(* A notice of an update was created for a record that is still there.     *)
Recorded(t) == t.op = "update" => record[t.side][t.key] \in Record

NoticesRecorded == \A i \in 1..Len(tasks) : Recorded(tasks[i])

StateInv == StateOK /\ NoticesRecorded

(* No position, no record, nothing on its way.                             *)
LEMMA StateInit == Init => StateInv
<1> SUFFICES ASSUME Init PROVE StateInv
  OBVIOUS
<1>1. Nowhere \in Map /\ pos \in [Sides -> Position \cup {None}] /\ record \in Records
  BY DEF Init, Nowhere, Map, Records
<1>2. StateOK
  BY <1>1, OverlayAssumption DEF Init, StateOK
<1> QED BY <1>2 DEF Init, StateInv, NoticesRecorded

(* A fault is counted.                                                     *)
LEMMA Faulty ==
  ASSUME StateInv, Fault
  PROVE  faults' \in 0..MaxFaults
  BY OverlayAssumption DEF Fault, StateInv, StateOK

(* A request is begun.                                                     *)
LEMMA Asking ==
  ASSUME StateInv, NEW r \in Requests, NEW q \in Snapshot \cup Edit, Ask(r, q)
  PROVE  /\ asked' \in 0..MaxRequests
         /\ req' \in [Requests -> {None} \cup Snapshot \cup Edit]
  BY OverlayAssumption DEF Ask, StateInv, StateOK

(***************************************************************************)
(* Records.                                                                *)
(***************************************************************************)

(* An open record is one.                                                  *)
LEMMA OpenRecord ==
  ASSUME record \in Records, NEW s \in Sides, NEW k \in OpenKeys(s)
  PROVE  k \in Keys /\ record[s][k] \in Record /\ ~record[s][k].closed
  BY DEF Records, OpenKeys, IsOpen

(* Of the open records of a side one is the newest.                        *)
LEMMA NewestOpen ==
  ASSUME record \in Records, NEW s \in Sides, OpenKeys(s) # {}
  PROVE  /\ Newest(s) \in OpenKeys(s)
         /\ Target(s) \in OpenKeys(s)
         /\ \A k : OpenKeys(s) = {k} => Newest(s) = k /\ Target(s) = k
<1>0. MaxChanges \in Nat
  BY OverlayAssumption
<1>1. PICK K : K = OpenKeys(s)
  OBVIOUS
<1>2. \A k \in K : record[s][k].time \in 1..MaxChanges
  BY <1>1, OpenRecord DEF Record
<1>3. PICK T : T = {record[s][k].time : k \in K}
  OBVIOUS
<1>4. T \in SUBSET (0..MaxChanges) /\ T # {}
  <2>1. \A t \in T : t \in 0..MaxChanges
    BY <1>0, <1>2, <1>3
  <2> QED BY <1>1, <1>3, <2>1
<1>5. PICK g \in T : \A t \in T : t <= g
  BY <1>0, <1>4, Greatest
<1>6. PICK k \in K : record[s][k].time = g
  BY <1>3
<1>7. k \in Newests(s)
  BY <1>1, <1>3, <1>5, <1>6 DEF Newests
<1>8. Newest(s) \in Newests(s)
  BY <1>7 DEF Newest
<1>9. Newest(s) \in OpenKeys(s)
  BY <1>8 DEF Newests
<1>10. Target(s) \in OpenKeys(s)
  <2>1. IsOpen(s, Manual) => Manual \in OpenKeys(s)
    BY DEF OpenKeys, Keys
  <2> QED BY <1>9, <2>1 DEF Target
<1> QED BY <1>9, <1>10

(* Without a change of which records are open and since when, the newest   *)
(* stays the newest.                                                       *)
LEMMA SameTarget ==
  ASSUME NEW s \in Sides, OpenKeys(s)' = OpenKeys(s),
         \A k \in OpenKeys(s) : record'[s][k].time = record[s][k].time
  PROVE  Newest(s)' = Newest(s) /\ Target(s)' = Target(s)
<1>1. Newests(s)' = Newests(s)
  BY DEF Newests
<1>2. Newest(s)' = Newest(s)
  BY <1>1 DEF Newest
<1>3. IsOpen(s, Manual)' <=> IsOpen(s, Manual)
  <2>1. IsOpen(s, Manual) <=> Manual \in OpenKeys(s)
    BY DEF OpenKeys, Keys
  <2>2. IsOpen(s, Manual)' <=> Manual \in OpenKeys(s)'
    BY DEF OpenKeys, Keys
  <2> QED BY <2>1, <2>2
<1> QED BY <1>2, <1>3 DEF Target

(* What the bot takes a position for is an overlay.                        *)
LEMMA LiveOK ==
  ASSUME record \in Records, NEW s \in Sides
  PROVE  Live(s) \in Overlay \cup {None}
<1>1. CASE OpenKeys(s) = {}
  BY <1>1 DEF Live
<1>2. CASE OpenKeys(s) # {}
  <2>1. PICK r : r = record[s][Target(s)]
    OBVIOUS
  <2>2. r \in Record
    BY <1>2, <2>1, NewestOpen, OpenRecord
  <2>3. Live(s) = [entry |-> r.entry, tp |-> r.tp, closed |-> FALSE]
    BY <1>2, <2>1 DEF Live
  <2> QED BY <2>2, <2>3 DEF Record, Overlay
<1> QED BY <1>1, <1>2

(* What an overlay should say of a position is one.                        *)
LEMMA ViewOK ==
  ASSUME NEW p \in Position \cup {None}
  PROVE  View(p) \in Overlay \cup {None}
  BY OverlayAssumption DEF View, Position, Overlay

(***************************************************************************)
(* The steps of the exchange keep the types.                               *)
(***************************************************************************)

(* What a message says, whatever it is called by.                          *)
LEMMA MessageOK ==
  ASSUME StateInv, NEW kind \in Kinds, NEW s \in Sides, NEW k \in Keys, NEW n \in Nat,
         NEW p \in Position \cup {None},
         kind = "Open" => p \in Position /\ entries + 1 \in 1..MaxChanges
  PROVE  /\ Message(kind, s, k, n, p) \in FeedMessage
         /\ Message(kind, s, k, n, p).side = s /\ Message(kind, s, k, n, p).now = p
         /\ Message(kind, s, k, n, p).kind = kind /\ Message(kind, s, k, n, p).was = pos[s]
<1>1. entries + 1 \in Nat /\ pos[s] \in Position \cup {None}
  BY OverlayAssumption DEF StateInv, StateOK
<1> QED BY <1>1 DEF Message, FeedMessage

(* The report of a position.                                               *)
LEMMA ReportOK ==
  ASSUME StateInv, NEW s \in Sides, NEW p \in Position \cup {None}
  PROVE  /\ Message("Position", s, Manual, 0, p) \in FeedMessage
         /\ Message("Position", s, Manual, 0, p).side = s
         /\ Message("Position", s, Manual, 0, p).now = p
         /\ Message("Position", s, Manual, 0, p).kind = "Position"
<1>1. Manual \in Keys /\ "Position" \in Kinds /\ "Position" # "Open" /\ 0 \in Nat
  BY DEF Keys, Kinds
<1> QED BY <1>1, MessageOK

(* The exchange changes a position and sends messages of it.               *)
LEMMA BecomesFacts ==
  ASSUME StateInv, NEW s \in Sides, NEW p \in Position \cup {None}, NEW q \in Seq(FeedMessage),
         Becomes(s, p, q)
  PROVE  /\ pos' \in [Sides -> Position \cup {None}]
         /\ feed' \in Seq(FeedMessage)
  BY ConcatFacts DEF Becomes, StateInv, StateOK

(* A fill and the report of the position it leads to, in either order.     *)
LEMMA ChangeCases ==
  ASSUME StateInv, NEW s \in Sides, NEW p \in Position \cup {None}, NEW fill \in FeedMessage,
         Change(s, p, fill)
  PROVE  LET report == Message("Position", s, Manual, 0, p) IN
           /\ changes' = changes + 1 /\ changes < MaxChanges
           /\ UNCHANGED <<record, tasks, posts, overlay, req, asked, faults>>
           /\ \/ Becomes(s, p, <<fill, report>>) /\ UNCHANGED doubt
              \/ /\ Becomes(s, p, <<report, fill>>)
                 /\ doubt' = IF pos[s] # None /\ p # None THEN doubt \cup {s} ELSE doubt
  BY DEF Change, botVars, apiVars

LEMMA ChangeKeepsState ==
  ASSUME StateInv, NEW s \in Sides, NEW p \in Position \cup {None}, NEW fill \in FeedMessage,
         Change(s, p, fill), entries' \in 0..changes', ordered' \subseteq Zones
  PROVE  StateInv'
<1>1. PICK report \in FeedMessage : report = Message("Position", s, Manual, 0, p)
  BY ReportOK
<1>2. <<fill, report>> \in Seq(FeedMessage) /\ <<report, fill>> \in Seq(FeedMessage)
  OBVIOUS
<1>3. pos' \in [Sides -> Position \cup {None}] /\ feed' \in Seq(FeedMessage)
  BY <1>1, <1>2, ChangeCases, BecomesFacts
<1>4. changes' \in 0..MaxChanges /\ doubt' \subseteq Sides
  <2>1. changes \in 0..MaxChanges /\ doubt \subseteq Sides /\ MaxChanges \in Nat
    BY OverlayAssumption DEF StateInv, StateOK
  <2>2. /\ changes' = changes + 1 /\ changes < MaxChanges
        /\ doubt' = doubt \/ doubt' = doubt \cup {s}
    BY ChangeCases
  <2> QED BY <2>1, <2>2
<1>5. UNCHANGED <<record, tasks, posts, overlay, req, asked, faults>>
  BY ChangeCases
<1> QED BY <1>3, <1>4, <1>5 DEF StateInv, StateOK, NoticesRecorded, Recorded

(* What an entry, a close and a move of the take profit make of a position. *)
LEMMA PositionsOK ==
  ASSUME StateInv, NEW s \in Sides
  PROVE  /\ \A n \in Nat \ {0}, a \in 1..MaxChanges : Grown(s, n, a) \in Position
         /\ pos[s] # None =>
              /\ \A n \in 1..pos[s].size : Shrunk(s, n) \in Position \cup {None}
              /\ \A t \in Prices : Moved(s, t) \in Position
<1>1. pos[s] \in Position \cup {None}
  BY DEF StateInv, StateOK
<1>2. ASSUME NEW n \in Nat \ {0}, NEW a \in 1..MaxChanges PROVE Grown(s, n, a) \in Position
  <2>1. CASE pos[s] = None
    BY <2>1 DEF Grown, Position, Prices
  <2>2. CASE pos[s] # None
    <3>1. PICK c : c = pos[s].size + n
      OBVIOUS
    <3>2. pos[s] \in Position /\ c \in Nat \ {0}
      BY <1>1, <2>2, <3>1 DEF Position
    <3>3. Grown(s, n, a) = [pos[s] EXCEPT !.entry = a, !.size = c]
      BY <2>2, <3>1 DEF Grown
    <3> QED BY <3>2, <3>3 DEF Position
  <2> QED BY <2>1, <2>2
<1>3. ASSUME pos[s] # None, NEW n \in 1..pos[s].size PROVE Shrunk(s, n) \in Position \cup {None}
  BY <1>1, <1>3 DEF Shrunk, Position
<1>4. ASSUME pos[s] # None, NEW t \in Prices PROVE Moved(s, t) \in Position
  BY <1>1, <1>4 DEF Moved, Position
<1> QED BY <1>2, <1>3, <1>4

(* The average an entry leads to is that of an entry there has been.       *)
LEMMA EnterFacts ==
  ASSUME StateInv, NEW s \in Sides, NEW k \in Keys, NEW n \in 1..MaxQty, Enter(s, k, n)
  PROVE  \E p \in Position :
           /\ Message("Open", s, k, n, p) \in FeedMessage
           /\ Change(s, p, Message("Open", s, k, n, p))
           /\ pos[s] = None => p.tp = 0
           /\ entries' \in 0..changes'
<1>0. /\ changes \in 0..MaxChanges /\ entries \in 0..changes /\ MaxChanges \in Nat /\ MaxQty \in Nat
      /\ pos[s] \in Position \cup {None}
  BY OverlayAssumption DEF StateInv, StateOK
<1>1. PICK a \in Averages(s) :
        Change(s, Grown(s, n, a), Message("Open", s, k, n, Grown(s, n, a)))
  BY DEF Enter
<1>2. changes < MaxChanges /\ changes' = changes + 1 /\ entries' = entries + 1
  BY <1>1 DEF Enter, Change
<1>3. a \in 1..MaxChanges
  <2>1. CASE a = entries + 1
    BY <1>0, <1>2, <2>1
  <2>2. CASE pos[s] # None /\ a = pos[s].entry
    BY <1>0, <2>2 DEF Position
  <2> QED BY <2>1, <2>2 DEF Averages
<1>4. PICK p : p = Grown(s, n, a)
  OBVIOUS
<1>5. p \in Position
  BY <1>0, <1>3, <1>4, PositionsOK
<1>6. pos[s] = None => p.tp = 0
  BY <1>4 DEF Grown
<1>7. "Open" \in Kinds /\ n \in Nat /\ entries + 1 \in 1..MaxChanges
  BY <1>0, <1>2 DEF Kinds
<1>8. Message("Open", s, k, n, p) \in FeedMessage
  BY <1>5, <1>7, MessageOK
<1>9. Change(s, p, Message("Open", s, k, n, p)) /\ entries' \in 0..changes'
  BY <1>0, <1>1, <1>2, <1>4
<1> QED BY <1>5, <1>6, <1>8, <1>9

LEMMA ReduceFacts ==
  ASSUME StateInv, NEW s \in Sides, NEW kind \in {"Close", "TakeProfit", "StopLoss"}, NEW n,
         Reduce(s, kind, n)
  PROVE  \E p \in Position \cup {None} :
           /\ Message(kind, s, Manual, n, p) \in FeedMessage
           /\ Change(s, p, Message(kind, s, Manual, n, p))
           /\ pos[s] # None /\ UNCHANGED <<entries, ordered>>
<1>1. PICK p : p = Shrunk(s, n)
  OBVIOUS
<1>2. p \in Position \cup {None} /\ n \in Nat
  <2>1. pos[s] \in Position \cup {None} /\ pos[s] # None /\ n \in 1..pos[s].size
    BY DEF Reduce, StateInv, StateOK
  <2> QED BY <1>1, <2>1, PositionsOK DEF Position
<1>3. kind \in Kinds /\ kind # "Open" /\ Manual \in Keys
  BY DEF Kinds, Keys
<1>4. Message(kind, s, Manual, n, p) \in FeedMessage
  BY <1>2, <1>3, MessageOK
<1> QED BY <1>1, <1>2, <1>4 DEF Reduce

LEMMA MoveFacts ==
  ASSUME StateInv, NEW s \in Sides, NEW level \in Prices, MoveTakeProfit(s, level)
  PROVE  \E p \in Position :
           /\ Becomes(s, p, <<Message("Position", s, Manual, 0, p)>>)
           /\ changes < MaxChanges /\ changes' = changes + 1
           /\ UNCHANGED <<entries, ordered, record, tasks, posts, overlay, req, asked, faults, doubt>>
<1>1. Moved(s, level) \in Position
  BY PositionsOK DEF MoveTakeProfit
<1> QED BY <1>1 DEF MoveTakeProfit, botVars, apiVars

LEMMA ExchangeKeepsState ==
  ASSUME StateInv, Exchange
  PROVE  StateInv'
<1>0. /\ changes \in 0..MaxChanges /\ entries \in 0..changes /\ MaxChanges \in Nat
      /\ ordered \subseteq Zones
  BY OverlayAssumption DEF StateInv, StateOK
<1>1. ASSUME NEW s \in Sides, NEW k \in Keys, NEW n \in 1..MaxQty, Enter(s, k, n),
             ordered' \subseteq Zones
      PROVE  StateInv'
  BY <1>1, EnterFacts, ChangeKeepsState
<1>2. ASSUME NEW s \in Sides, NEW kind \in {"Close", "TakeProfit", "StopLoss"}, NEW n,
             Reduce(s, kind, n)
      PROVE  StateInv'
  <2>1. PICK p \in Position \cup {None} :
          /\ Message(kind, s, Manual, n, p) \in FeedMessage
          /\ Change(s, p, Message(kind, s, Manual, n, p))
          /\ UNCHANGED <<entries, ordered>>
    BY <1>2, ReduceFacts
  <2>2. changes' = changes + 1
    BY <2>1 DEF Change
  <2>3. entries' \in 0..changes' /\ ordered' \subseteq Zones
    BY <1>0, <2>1, <2>2
  <2> QED BY <2>1, <2>3, ChangeKeepsState
<1>3. ASSUME NEW s \in Sides, NEW level \in Prices, MoveTakeProfit(s, level)
      PROVE  StateInv'
  <2>1. PICK p \in Position :
          /\ Becomes(s, p, <<Message("Position", s, Manual, 0, p)>>)
          /\ changes < MaxChanges /\ changes' = changes + 1
          /\ UNCHANGED <<entries, ordered, record, tasks, posts, overlay, req, asked, faults, doubt>>
    BY <1>3, MoveFacts
  <2>2. PICK report \in FeedMessage : report = Message("Position", s, Manual, 0, p)
    BY <2>1, ReportOK
  <2>3. <<report>> \in Seq(FeedMessage)
    OBVIOUS
  <2>4. pos' \in [Sides -> Position \cup {None}] /\ feed' \in Seq(FeedMessage)
    BY <2>1, <2>2, <2>3, BecomesFacts
  <2>5. changes' \in 0..MaxChanges /\ entries' \in 0..changes'
    BY <1>0, <2>1
  <2> QED BY <2>1, <2>4, <2>5 DEF StateInv, StateOK, NoticesRecorded, Recorded
<1>4. ASSUME NEW s \in Sides, NEW n \in 1..MaxQty,
             EnterManually(s, n) \/ \E z \in Zones : EnterZone(s, z, n)
      PROVE  StateInv'
  <2>1. CASE EnterManually(s, n)
    <3>1. Manual \in Keys
      BY DEF Keys
    <3> QED BY <1>0, <1>1, <2>1, <3>1 DEF EnterManually
  <2>2. ASSUME NEW z \in Zones, EnterZone(s, z, n) PROVE StateInv'
    <3>1. z \in Keys /\ ordered' \subseteq Zones
      BY <1>0, <2>2 DEF EnterZone, Keys
    <3> QED BY <1>1, <2>2, <3>1 DEF EnterZone
  <2> QED BY <1>4, <2>1, <2>2
<1> QED BY <1>2, <1>3, <1>4 DEF Exchange

(***************************************************************************)
(* So do the steps of the bot.                                             *)
(***************************************************************************)

(* A handler's record and the notice it makes of it, if any.               *)
LEMMA HandledKeepsState ==
  ASSUME StateInv, feed # <<>>, feed' = Tail(feed), NEW s \in Sides, NEW k \in Keys,
         NEW r \in Record, NEW notices \in Seq(Notice),
         Len(notices) \in 0..1,
         \A i \in 1..Len(notices) : notices[i].side = s /\ notices[i].key = k,
         Handled(s, k, r, notices), doubt' \subseteq Sides,
         UNCHANGED <<exchangeVars, posts, apiVars, faults>>
  PROVE  StateInv'
<1>1. /\ feed' \in Seq(FeedMessage) /\ tasks \in Seq(Notice) /\ record \in Records
  BY TailFacts DEF StateInv, StateOK
<1>2. /\ record' \in Records
      /\ record'[s][k] = r
      /\ \A d \in Sides, j \in Keys : record[d][j] \in Record => record'[d][j] \in Record
  BY <1>1 DEF Handled, Records
<1>3. tasks' = tasks \o notices /\ tasks' \in Seq(Notice)
  BY <1>1, ConcatFacts DEF Handled
<1>4. StateOK'
  BY <1>1, <1>2, <1>3 DEF StateInv, StateOK, exchangeVars, apiVars
<1>5. NoticesRecorded'
  <2> SUFFICES ASSUME NEW i \in 1..Len(tasks'), tasks'[i].op = "update"
               PROVE  record'[tasks'[i].side][tasks'[i].key] \in Record
    BY DEF NoticesRecorded, Recorded
  <2>1. CASE i \in 1..Len(tasks)
    <3>1. tasks'[i] = tasks[i] /\ tasks[i] \in Notice
      BY <1>1, <1>3, <2>1, ConcatFacts
    <3>2. /\ tasks[i].side \in Sides /\ tasks[i].key \in Keys
          /\ record[tasks[i].side][tasks[i].key] \in Record
      BY <2>1, <3>1 DEF StateInv, NoticesRecorded, Recorded, Notice
    <3> QED BY <1>2, <3>1, <3>2
  <2>2. CASE i - Len(tasks) \in 1..Len(notices)
    <3>1. tasks'[i] = notices[i - Len(tasks)]
      BY <1>1, <1>3, <2>2, ConcatFacts
    <3> QED BY <1>2, <2>2, <3>1
  <2> QED BY <1>1, <1>3, <2>1, <2>2, ConcatFacts
<1> QED BY <1>4, <1>5 DEF StateInv

(* What a message on the stream says.                                      *)
LEMMA HeadFacts ==
  ASSUME StateInv, Handle
  PROVE  LET m == Head(feed) IN
           /\ feed # <<>> /\ m \in FeedMessage /\ m = feed[1] /\ m.side \in Sides /\ m.key \in Keys
           /\ m.now \in Position \cup {None} /\ m.was \in Position \cup {None} /\ m.qty \in Nat
           /\ m.kind = "Open" => m.now \in Position /\ m.time \in 1..MaxChanges
           /\ feed' = Tail(feed) /\ feed' \in Seq(FeedMessage)
           /\ UNCHANGED <<pos, posts, overlay, req>>
           /\ HandleOpen(m) \/ HandleClose(m) \/ HandlePosition(m)
<1>1. feed # <<>> /\ feed \in Seq(FeedMessage)
  BY DEF Handle, StateInv, StateOK
<1> QED BY <1>1, TailFacts DEF Handle, FeedMessage, exchangeVars, apiVars

(* What changes in a record.                                               *)
LEMMA RecordUpdated ==
  ASSUME NEW r \in Record, NEW size \in Nat
  PROVE  /\ \A entry \in 0..MaxChanges, total \in Nat :
              [r EXCEPT !.entry = entry, !.size = size, !.total = total] \in Record
         /\ \A entry \in 0..MaxChanges, tp \in Prices :
              LET c == [r EXCEPT !.size = size, !.entry = entry, !.tp = tp] IN
                c \in Record /\ c.time = r.time /\ c.entry = entry /\ c.tp = tp
                /\ c.closed = r.closed
  BY DEF Record

(* What a close makes of a record.                                         *)
LEMMA ClosedFacts ==
  ASSUME StateInv, NEW m \in FeedMessage, m.kind \in {"Close", "TakeProfit", "StopLoss"},
         NEW r \in Record, NEW kept \in {0, r.out}
  PROVE  /\ Closed(r, m, kept) \in Record
         /\ Closed(r, m, kept).time = r.time /\ Closed(r, m, kept).entry = r.entry
         /\ Closed(r, m, kept).tp = r.tp
<1>1. kept + m.qty \in Nat /\ m.qty \in Nat
  BY DEF Record, FeedMessage
<1>2. \A a \in Int : AtLeastZero(a) \in Nat
  BY DEF AtLeastZero
<1>3. PICK left : left = CASE m.kind = "Close" -> Least(r.size, AtLeastZero(r.total - r.out)) - m.qty
                           [] m.kind = "TakeProfit" -> Least(r.size, AtLeastZero(r.total - (kept + m.qty)))
                           [] m.kind = "StopLoss" -> 0
  OBVIOUS
<1>4. r.size \in Nat /\ r.total - r.out \in Int /\ r.total - (kept + m.qty) \in Int
  BY <1>1 DEF Record
<1>5. \A a, b \in Nat : Least(a, b) \in Nat
  BY DEF Least
<1>6. left \in Int
  <2>1. CASE m.kind = "Close"
    BY <1>1, <1>2, <1>3, <1>4, <1>5, <2>1
  <2>2. CASE m.kind = "TakeProfit"
    BY <1>1, <1>2, <1>3, <1>4, <1>5, <2>2
  <2>3. CASE m.kind = "StopLoss"
    BY <1>3, <2>3
  <2> QED BY <2>1, <2>2, <2>3
<1>7. PICK size : size = IF m.kind = "StopLoss" THEN r.size ELSE AtLeastZero(left)
  OBVIOUS
<1>8. size \in Nat
  BY <1>2, <1>4, <1>6, <1>7
<1>9. Closed(r, m, kept) = [r EXCEPT !.size = size, !.out = kept + m.qty, !.closed = (left <= 0)]
  BY <1>3, <1>7 DEF Closed, Record
<1>10. PICK closed \in BOOLEAN : closed = (left <= 0)
  <2>1. (left <= 0) \in BOOLEAN
    BY <1>6
  <2> QED BY <2>1, Zenon
<1>11. PICK out \in Nat : out = kept + m.qty
  BY <1>1
<1>12. Closed(r, m, kept) = [r EXCEPT !.size = size, !.out = out, !.closed = closed]
  BY <1>9, <1>10, <1>11
<1>13. PICK c : c = [r EXCEPT !.size = size, !.out = out, !.closed = closed]
  OBVIOUS
<1>14. c \in Record /\ c.time = r.time /\ c.entry = r.entry /\ c.tp = r.tp
  <2>1. size \in Nat /\ out \in Nat /\ closed \in BOOLEAN
    BY <1>8
  <2> QED BY <1>13, <2>1 DEF Record
<1> QED BY <1>12, <1>13, <1>14

LEMMA HandleKeepsState ==
  ASSUME StateInv, Handle
  PROVE  StateInv'
<1>1. PICK m : m = Head(feed)
  OBVIOUS
<1>2. PICK s \in Sides : s = m.side
  BY <1>1, HeadFacts
<1>3. /\ feed # <<>> /\ m \in FeedMessage /\ m.key \in Keys /\ m.qty \in Nat
      /\ m.now \in Position \cup {None}
      /\ m.kind = "Open" => m.now \in Position /\ m.time \in 1..MaxChanges
      /\ m.was \in Position \cup {None}
      /\ feed' = Tail(feed) /\ feed' \in Seq(FeedMessage)
      /\ UNCHANGED <<exchangeVars, posts, apiVars, faults>>
      /\ HandleOpen(m) \/ HandleClose(m) \/ HandlePosition(m)
  BY <1>1, HeadFacts DEF Handle
<1>4. record \in Records /\ doubt \subseteq Sides /\ MaxChanges \in Nat
  BY OverlayAssumption DEF StateInv, StateOK
<1>5. doubt' \subseteq Sides
  BY <1>2, <1>3, <1>4 DEF HandleOpen, HandleClose, HandlePosition, Doubted, Skip
<1>6. ASSUME NEW k \in Keys, NEW r \in Record, NEW n \in Notice, n.side = s, n.key = k,
             Handled(s, k, r, <<n>>)
      PROVE  StateInv'
  <2>1. PICK notices : notices = <<n>>
    OBVIOUS
  <2>2. /\ notices \in Seq(Notice) /\ Len(notices) \in 0..1
        /\ \A i \in 1..Len(notices) : notices[i] = n
    BY <2>1
  <2> QED BY <1>3, <1>5, <1>6, <2>1, <2>2, HandledKeepsState
<1>7. ASSUME NEW k \in Keys, NEW r \in Record, Handled(s, k, r, <<>>) PROVE StateInv'
  <2>1. PICK notices : notices = <<>>
    OBVIOUS
  <2>2. /\ notices \in Seq(Notice) /\ Len(notices) \in 0..1
        /\ \A i \in 1..Len(notices) : FALSE
    BY <2>1
  <2> QED BY <1>3, <1>5, <1>7, <2>1, <2>2, HandledKeepsState
<1>8. ASSUME UNCHANGED botVars PROVE StateInv'
  BY <1>3, <1>5, <1>8 DEF StateInv, StateOK, NoticesRecorded, Recorded, botVars, exchangeVars, apiVars
<1>9. CASE HandleOpen(m)
  <2>1. m.now \in Position /\ m.time \in 1..MaxChanges /\ m.now.entry \in 1..MaxChanges
    BY <1>3, <1>9 DEF HandleOpen, Position
  <2>2. CASE IsOpen(s, m.key)
    <3>1. record[s][m.key] \in Record
      BY <1>3, <1>4, <2>2, OpenRecord DEF OpenKeys
    <3>2. PICK w : w = Weighted(record[s][m.key], m)
      OBVIOUS
    <3>3. w \in 0..MaxChanges
      BY <1>4, <2>1, <3>2 DEF Weighted
    <3>4. PICK r : r = [record[s][m.key] EXCEPT !.entry = w, !.size = @ + m.qty, !.total = @ + m.qty]
      OBVIOUS
    <3>5. r \in Record
      <4>1. PICK a \in Nat : a = record[s][m.key].size + m.qty
        BY <1>3, <3>1 DEF Record
      <4>2. PICK b \in Nat : b = record[s][m.key].total + m.qty
        BY <1>3, <3>1 DEF Record
      <4>3. r = [record[s][m.key] EXCEPT !.entry = w, !.size = a, !.total = b]
        BY <3>4, <4>1, <4>2
      <4> QED BY <3>1, <3>3, <4>3, RecordUpdated
    <3>6. Handled(s, m.key, r, <<>>)
      BY <1>2, <1>9, <2>2, <3>2, <3>4 DEF HandleOpen
    <3> QED BY <1>3, <1>7, <3>5, <3>6
  <2>3. CASE ~IsOpen(s, m.key)
    <3>1. OwnPrice(m) \in 0..MaxChanges
      BY <1>4, <2>1 DEF OwnPrice
    <3>2. PICK r : r = [time |-> m.time, entry |-> OwnPrice(m), size |-> m.qty,
                        total |-> m.qty, out |-> 0, tp |-> 0, closed |-> FALSE]
      OBVIOUS
    <3>3. r \in Record
      BY <1>3, <2>1, <3>1, <3>2 DEF Record, Prices
    <3>4. PICK n : n = Update(s, m.key, 0)
      OBVIOUS
    <3>5. n \in Notice /\ n.side = s /\ n.key = m.key
      BY <1>3, <3>4 DEF Update, Notice, Prices
    <3>6. Handled(s, m.key, r, <<n>>)
      BY <1>2, <1>9, <2>3, <3>2, <3>4 DEF HandleOpen
    <3> QED BY <1>3, <1>6, <3>3, <3>5, <3>6
  <2> QED BY <2>2, <2>3
<1>10. CASE HandleClose(m)
  <2>1. CASE OpenKeys(s) = {}
    BY <1>2, <1>8, <1>10, <2>1 DEF HandleClose, Skip
  <2>2. CASE OpenKeys(s) # {}
    <3>1. PICK k : k = Newest(s)
      OBVIOUS
    <3>2. k \in Keys /\ record[s][k] \in Record
      BY <1>4, <2>2, <3>1, NewestOpen, OpenRecord
    <3>3. PICK kept \in {0, record[s][k].out} :
            LET c == Closed(record[s][k], m, kept) IN
              Handled(s, k, c, IF c.closed THEN <<Clear(s, k)>> ELSE <<>>)
      BY <1>2, <1>10, <2>2, <3>1 DEF HandleClose
    <3>4. PICK c : c = Closed(record[s][k], m, kept)
      OBVIOUS
    <3>5. c \in Record
      BY <1>3, <1>10, <3>2, <3>4, ClosedFacts DEF HandleClose
    <3>6. PICK n : n = Clear(s, k)
      OBVIOUS
    <3>7. n \in Notice /\ n.side = s /\ n.key = k
      BY <3>2, <3>6 DEF Clear, Notice, Prices
    <3>8. Handled(s, k, c, <<n>>) \/ Handled(s, k, c, <<>>)
      BY <3>3, <3>4, <3>6
    <3> QED BY <1>6, <1>7, <3>2, <3>5, <3>7, <3>8
  <2> QED BY <2>1, <2>2
<1>11. CASE HandlePosition(m)
  <2>1. CASE UNCHANGED botVars
    BY <1>8, <2>1
  <2>2. CASE ~(UNCHANGED botVars)
    <3>1. PICK k : k = Target(s)
      OBVIOUS
    <3>2. PICK r : r = [record[s][k] EXCEPT !.size = m.now.size, !.entry = m.now.entry, !.tp = m.now.tp]
      OBVIOUS
    <3>3. PICK n : n = Update(s, k, m.now.tp)
      OBVIOUS
    <3>4. m.now # None /\ OpenKeys(s) # {} /\ Handled(s, k, r, <<n>>)
      BY <1>2, <1>11, <2>2, <3>1, <3>2, <3>3 DEF HandlePosition, Skip
    <3>5. k \in Keys /\ record[s][k] \in Record
      BY <1>4, <3>1, <3>4, NewestOpen, OpenRecord
    <3>6. m.now \in Position
      BY <1>3, <3>4
    <3>7. r \in Record
      <4>1. m.now.size \in Nat /\ m.now.entry \in 0..MaxChanges /\ m.now.tp \in Prices
        BY <1>4, <3>6 DEF Position
      <4> QED BY <3>2, <3>5, <4>1, RecordUpdated
    <3>8. n \in Notice /\ n.side = s /\ n.key = k
      BY <3>3, <3>5, <3>6 DEF Update, Notice, Position
    <3> QED BY <1>6, <3>4, <3>5, <3>7, <3>8
  <2> QED BY <2>1, <2>2
<1> QED BY <1>3, <1>9, <1>10, <1>11

(* The payload of a notice is fit to be sent.                              *)
LEMMA PayloadOK ==
  ASSUME record \in Records, NEW t \in Notice, Recorded(t)
  PROVE  Payload(t) \in Post /\ Payload(t).side = t.side
<1>1. t.side \in Sides /\ t.key \in Keys /\ t.tp \in Prices /\ t.op \in {"update", "clear"}
  BY DEF Notice
<1>2. CASE t.op = "clear"
  BY <1>1, <1>2 DEF Payload, Post
<1>3. CASE t.op = "update"
  <2>1. PICK r : r = record[t.side][t.key]
    OBVIOUS
  <2>2. r \in Record
    BY <1>3, <2>1 DEF Recorded
  <2>3. PICK o : o = [entry |-> r.entry, tp |-> IF t.tp # 0 THEN t.tp ELSE r.tp, closed |-> r.closed]
    OBVIOUS
  <2>4. o \in Overlay
    BY <1>1, <2>2, <2>3 DEF Overlay, Record
  <2>5. Payload(t) = [side |-> t.side, overlay |-> o]
    BY <1>3, <2>1, <2>3 DEF Payload
  <2> QED BY <1>1, <2>4, <2>5 DEF Post
<1> QED BY <1>1, <1>2, <1>3

(* A notice is sent.                                                       *)
LEMMA StartFacts ==
  ASSUME StateInv, StartNotice
  PROVE  LET t == Head(tasks) IN
           /\ tasks \in Seq(Notice) /\ tasks # <<>> /\ tasks' = Tail(tasks) /\ tasks' \in Seq(Notice)
           /\ posts \in Seq(Post) /\ posts' = Append(posts, Payload(t)) /\ posts' \in Seq(Post)
           /\ t = tasks[1] /\ 1 \in 1..Len(tasks)
           /\ Payload(t) \in Post /\ Payload(t).side = t.side
           /\ UNCHANGED <<exchangeVars, feed, record, overlay, req, asked, faults, doubt>>
<1>1. PICK t : t = Head(tasks)
  OBVIOUS
<1>2. /\ tasks \in Seq(Notice) /\ tasks # <<>> /\ tasks' = Tail(tasks) /\ record \in Records
      /\ posts \in Seq(Post) /\ posts' = Append(posts, Payload(t))
      /\ UNCHANGED <<exchangeVars, feed, record, overlay, req, asked, faults, doubt>>
  BY <1>1 DEF StartNotice, StateInv, StateOK, apiVars
<1>3. t \in Notice /\ t = tasks[1] /\ 1 \in 1..Len(tasks) /\ tasks' \in Seq(Notice)
  BY <1>1, <1>2, TailFacts
<1>4. Recorded(t)
  BY <1>3 DEF StateInv, NoticesRecorded
<1>5. Payload(t) \in Post /\ Payload(t).side = t.side
  BY <1>2, <1>3, <1>4, PayloadOK
<1>6. posts' \in Seq(Post)
  BY <1>2, <1>5, AppendFacts
<1> QED BY <1>1, <1>2, <1>3, <1>5, <1>6

LEMMA StartKeepsState ==
  ASSUME StateInv, StartNotice
  PROVE  StateInv'
<1>1. \A i \in 1..Len(tasks') : tasks'[i] = tasks[i + 1] /\ i + 1 \in 1..Len(tasks)
  BY StartFacts, TailFacts
<1>2. UNCHANGED record
  BY StartFacts
<1>3. NoticesRecorded'
  BY <1>1, <1>2 DEF StateInv, NoticesRecorded, Recorded
<1> QED BY <1>3, StartFacts DEF StateInv, StateOK, exchangeVars

(***************************************************************************)
(* So do the steps of the API.                                             *)
(***************************************************************************)

(* A notice arrives or is lost.                                            *)
LEMMA NoticeFacts ==
  ASSUME StateInv, NEW i \in 1..Len(posts), NoticeArrives(i) \/ NoticeFails(i)
  PROVE  /\ posts[i] \in Post /\ posts[i].side \in Sides /\ posts[i].overlay \in Overlay \cup {None}
         /\ posts' = RemoveAt(posts, i) /\ posts' \in Seq(Post)
         /\ UNCHANGED <<pos, entries, changes, ordered, feed, record, tasks, req, asked>>
<1>1. posts \in Seq(Post) /\ posts[i] \in Post
  BY DEF StateInv, StateOK
<1>2. posts' = RemoveAt(posts, i) /\ posts' \in Seq(Post)
  BY <1>1, RemoveFacts DEF NoticeArrives, NoticeFails
<1>3. UNCHANGED <<pos, entries, changes, ordered, feed, record, tasks, req, asked>>
  BY DEF NoticeArrives, NoticeFails, exchangeVars, botVars, apiVars
<1> QED BY <1>1, <1>2, <1>3 DEF Post

LEMMA NoticesKeepState ==
  ASSUME StateInv, Notices
  PROVE  StateInv'
<1>1. PICK i \in 1..Len(posts) : NoticeArrives(i) \/ NoticeFails(i)
  BY DEF Notices
<1>2. PICK s \in Sides : s = posts[i].side
  BY <1>1, NoticeFacts
<1>3. overlay' \in Map /\ doubt' \subseteq Sides /\ faults' \in 0..MaxFaults
  <2>1. overlay \in Map /\ doubt \subseteq Sides /\ faults \in 0..MaxFaults
    BY DEF StateInv, StateOK
  <2>2. doubt' \subseteq Sides
    BY <1>1, <1>2, <2>1 DEF NoticeArrives, NoticeFails, Doubted
  <2>3. CASE NoticeArrives(i)
    BY <1>1, <1>2, <2>1, <2>2, <2>3, NoticeFacts DEF NoticeArrives, Put, Map
  <2>4. CASE NoticeFails(i)
    BY <2>1, <2>2, <2>4, Faulty DEF NoticeFails, apiVars
  <2> QED BY <1>1, <2>3, <2>4
<1> QED BY <1>1, <1>3, NoticeFacts DEF StateInv, StateOK, NoticesRecorded, Recorded

(***************************************************************************)
(* Requests.                                                               *)
(***************************************************************************)

(* What a request at each of its steps is.                                 *)
LEMMA RequestKinds ==
  ASSUME StateInv, NEW r \in Requests, req[r] # None
  PROVE  /\ req[r].at \in {"list", "build", "write"} => req[r] \in Snapshot
         /\ req[r].at \in {"check", "set", "patch"} => req[r] \in Edit
  BY DEF StateInv, StateOK, Snapshot, Edit

(* What a request begins with.                                             *)
LEMMA SnapshotBegins ==
  ASSUME StateInv, NEW r \in Requests, AskSnapshot(r)
  PROVE  \E q \in Snapshot : q.at = "list" /\ Ask(r, q)
<1>1. PICK read : read = [s \in Sides |-> Row(s)]
  OBVIOUS
<1>2. ASSUME NEW s \in Sides PROVE Row(s) \in Overlay \cup {None}
  <2>1. CASE OpenKeys(s) # {}
    <3>1. PICK e : e = record[s][Newest(s)].entry
      OBVIOUS
    <3>2. e \in 0..MaxChanges
      BY <2>1, <3>1, NewestOpen, OpenRecord DEF StateInv, StateOK, Record
    <3>3. Row(s) = [entry |-> e, tp |-> 0, closed |-> FALSE]
      BY <2>1, <3>1 DEF Row
    <3> QED BY <3>2, <3>3 DEF Overlay, Prices
  <2> QED BY <2>1 DEF Row
<1>3. read \in Map /\ Nowhere \in Map
  BY <1>1, <1>2 DEF Map, Nowhere
<1>4. PICK q : q = [kind |-> "snapshot", at |-> "list", left |-> Sides, read |-> read,
                    ok |-> FALSE, answer |-> Nowhere]
  OBVIOUS
<1>5. q \in Snapshot /\ q.at = "list"
  BY <1>3, <1>4 DEF Snapshot
<1>6. Ask(r, q)
  BY <1>1, <1>4 DEF AskSnapshot
<1> QED BY <1>5, <1>6

LEMMA EditBegins ==
  ASSUME StateInv, NEW r \in Requests, NEW s \in Sides, NEW level \in Levels, AskEdit(r, s, level)
  PROVE  \E q \in Edit : q.at = "check" /\ Ask(r, q)
<1>1. PICK q : q = [kind |-> "edit", at |-> "check", side |-> s, tp |-> level, seen |-> overlay[s]]
  OBVIOUS
<1>2. overlay[s] \in Overlay
  BY DEF AskEdit, StateInv, StateOK, Map
<1>3. q \in Edit /\ q.at = "check"
  BY <1>1, <1>2 DEF Edit
<1>4. Ask(r, q)
  BY <1>1 DEF AskEdit
<1> QED BY <1>3, <1>4

LEMMA AskKeepsState ==
  ASSUME StateInv, NEW r \in Requests, NEW q \in Snapshot \cup Edit, Ask(r, q)
  PROVE  StateInv'
<1>1. UNCHANGED <<pos, entries, ordered, changes, feed, record, tasks, posts, overlay, faults, doubt>>
  BY DEF Ask, exchangeVars, botVars
<1> QED BY <1>1, Asking DEF StateInv, StateOK, NoticesRecorded, Recorded

(* A request takes a step that only changes what is kept of it.            *)
LEMMA RequestGoesOn ==
  ASSUME StateInv, NEW r \in Requests, NEW q \in {None} \cup Snapshot \cup Edit,
         req' = [req EXCEPT ![r] = q],
         UNCHANGED <<exchangeVars, feed, botVars, posts, overlay, asked, doubt>>,
         faults' \in 0..MaxFaults
  PROVE  StateInv'
  BY DEF StateInv, StateOK, NoticesRecorded, Recorded, exchangeVars, botVars

(* The exchange answers a snapshot, or does not.                           *)
LEMMA ListFacts ==
  ASSUME StateInv, NEW r \in Requests, ExchangeLists(r) \/ ListFails(r)
  PROVE  \E q \in Snapshot : q.at = "build" /\ req' = [req EXCEPT ![r] = q]
<1>1. /\ req[r] \in Snapshot /\ pos \in [Sides -> Position \cup {None}]
      /\ req \in [Requests -> {None} \cup Snapshot \cup Edit]
  BY RequestKinds DEF ExchangeLists, ListFails, StateInv, StateOK
<1>2. CASE ExchangeLists(r)
  <2>1. PICK read : read = [s \in Sides |-> View(pos[s])]
    OBVIOUS
  <2>2. read \in Map
    BY <1>1, <2>1, ViewOK DEF Map
  <2>3. PICK q : q = [req[r] EXCEPT !.at = "build", !.ok = TRUE, !.read = read]
    OBVIOUS
  <2>4. q \in Snapshot /\ q.at = "build"
    BY <1>1, <2>2, <2>3 DEF Snapshot
  <2>5. req' = [req EXCEPT ![r] = q]
    BY <1>1, <1>2, <2>1, <2>3 DEF ExchangeLists
  <2> QED BY <2>4, <2>5
<1>3. CASE ListFails(r)
  <2>1. PICK q : q = [req[r] EXCEPT !.at = "build"]
    OBVIOUS
  <2>2. q \in Snapshot /\ q.at = "build"
    BY <1>1, <2>1 DEF Snapshot
  <2>3. req' = [req EXCEPT ![r] = q]
    BY <1>1, <1>3, <2>1 DEF ListFails
  <2> QED BY <2>2, <2>3
<1> QED BY <1>2, <1>3

LEMMA ListKeepsState ==
  ASSUME StateInv, NEW r \in Requests, ExchangeLists(r) \/ ListFails(r)
  PROVE  StateInv'
<1>1. faults' \in 0..MaxFaults
  BY Faulty DEF ExchangeLists, ListFails, StateInv, StateOK
<1>2. UNCHANGED <<exchangeVars, feed, botVars, posts, overlay, asked, doubt>>
  BY DEF ExchangeLists, ListFails
<1> QED BY <1>1, <1>2, ListFacts, RequestGoesOn

(* One side of a snapshot is written: q is the request with its answer, w  *)
(* what is kept of it.                                                     *)
Writing(r, q, s, w) ==
  /\ q = IF req[r].at = "build" THEN [req[r] EXCEPT !.at = "write", !.answer = Built(req[r])]
         ELSE req[r]
  /\ req[r] \in Snapshot /\ req[r] # None /\ req[r].at \in {"build", "write"}
  /\ q.answer[s] \in Overlay \cup {None}
  /\ WriteSide(r, q, s)
  /\ req' = [req EXCEPT ![r] = w]
  /\ w = None \/ (w.ok = q.ok /\ w.read = q.read /\ w.answer = q.answer)

LEMMA WriteFacts ==
  ASSUME StateInv, NEW r \in Requests, WriteSnapshot(r)
  PROVE  \E q \in Snapshot, s \in Sides, w \in {None} \cup Snapshot : Writing(r, q, s, w)
<1>1. /\ req[r] # None /\ req[r] \in Snapshot /\ record \in Records
      /\ req[r].at \in {"build", "write"}
  BY RequestKinds DEF WriteSnapshot, StateInv, StateOK
<1>2. PICK q : q = IF req[r].at = "build"
                     THEN [req[r] EXCEPT !.at = "write", !.answer = Built(req[r])]
                     ELSE req[r]
  OBVIOUS
<1>3. Built(req[r]) \in Map
  BY <1>1, LiveOK DEF Built, Map, Snapshot
<1>4. q \in Snapshot
  BY <1>1, <1>2, <1>3 DEF Snapshot
<1>5. PICK s \in NextSides(q) : WriteSide(r, q, s)
  BY <1>2 DEF WriteSnapshot
<1>6. s \in Sides
  BY <1>4, <1>5 DEF NextSides, Snapshot
<1>7. q.answer[s] \in Overlay \cup {None}
  BY <1>4, <1>6 DEF Snapshot, Map
<1>8. PICK left \in SUBSET Sides : left = q.left \ {s}
  BY <1>4 DEF Snapshot
<1>9. PICK z : z = [q EXCEPT !.left = left]
  OBVIOUS
<1>10. z \in Snapshot /\ z.ok = q.ok /\ z.read = q.read /\ z.answer = q.answer
  BY <1>4, <1>9 DEF Snapshot
<1>11. PICK w : w = IF q.left = {s} THEN None ELSE z
  OBVIOUS
<1>12. req' = [req EXCEPT ![r] = w]
  BY <1>5, <1>8, <1>9, <1>11 DEF WriteSide
<1>13. w \in {None} \cup Snapshot /\ (w = None \/ (w.ok = q.ok /\ w.read = q.read /\ w.answer = q.answer))
  BY <1>10, <1>11
<1>14. Writing(r, q, s, w)
  BY <1>1, <1>2, <1>5, <1>7, <1>12, <1>13 DEF Writing
<1> QED BY <1>4, <1>6, <1>13, <1>14

LEMMA WriteKeepsState ==
  ASSUME StateInv, NEW r \in Requests, WriteSnapshot(r)
  PROVE  StateInv'
<1>1. PICK q \in Snapshot, s \in Sides, w \in {None} \cup Snapshot : Writing(r, q, s, w)
  BY WriteFacts
<1>2. overlay' \in Map /\ doubt' \subseteq Sides
  BY <1>1 DEF Writing, WriteSide, Put, StateInv, StateOK, Map
<1>3. req' \in [Requests -> {None} \cup Snapshot \cup Edit]
  BY <1>1 DEF Writing, StateInv, StateOK
<1>4. UNCHANGED <<pos, entries, ordered, changes, feed, record, tasks, posts, asked, faults>>
  BY DEF WriteSnapshot, exchangeVars, botVars
<1> QED BY <1>2, <1>3, <1>4 DEF StateInv, StateOK, NoticesRecorded, Recorded

(* An edit is checked, or its answer is lost.                              *)
LEMMA CheckFacts ==
  ASSUME StateInv, NEW r \in Requests, CheckPosition(r) \/ SetAnswerLost(r)
  PROVE  \E q \in {None} \cup Edit :
           (q # None => q.at = "set") /\ req' = [req EXCEPT ![r] = q]
<1>1. req[r] \in Edit /\ req \in [Requests -> {None} \cup Snapshot \cup Edit]
  BY RequestKinds DEF CheckPosition, SetAnswerLost, StateInv, StateOK
<1>2. PICK q : q = [req[r] EXCEPT !.at = "set"]
  OBVIOUS
<1>3. q \in Edit /\ q.at = "set"
  BY <1>1, <1>2 DEF Edit
<1>4. req' = [req EXCEPT ![r] = q] \/ req' = [req EXCEPT ![r] = None]
  BY <1>1, <1>2 DEF CheckPosition, SetAnswerLost
<1> QED BY <1>3, <1>4

LEMMA CheckKeepsState ==
  ASSUME StateInv, NEW r \in Requests, CheckPosition(r) \/ SetAnswerLost(r)
  PROVE  StateInv'
<1>1. faults' \in 0..MaxFaults
  BY Faulty DEF CheckPosition, SetAnswerLost, StateInv, StateOK
<1>2. UNCHANGED <<exchangeVars, feed, botVars, posts, overlay, asked, doubt>>
  BY DEF CheckPosition, SetAnswerLost
<1> QED BY <1>1, <1>2, CheckFacts, RequestGoesOn

(* An edit reaches the exchange, which refuses it or does it.              *)
LEMMA SetFacts ==
  ASSUME StateInv, NEW r \in Requests, SetTakeProfit(r)
  PROVE  /\ UNCHANGED <<entries, ordered, changes, record, tasks, posts, overlay, asked, faults, doubt>>
         /\ \/ req' = [req EXCEPT ![r] = None] /\ UNCHANGED <<pos, feed>>
            \/ \E s \in Sides, p \in Position, q \in Edit :
                 /\ Becomes(s, p, <<Message("Position", s, Manual, 0, p)>>)
                 /\ req' = [req EXCEPT ![r] = q]
                 /\ q.at = "patch"
<1>1. req[r] \in Edit /\ req \in [Requests -> {None} \cup Snapshot \cup Edit]
  BY RequestKinds DEF SetTakeProfit, StateInv, StateOK
<1>2. PICK s \in Sides, t \in Levels : s = req[r].side /\ t = req[r].tp
  BY <1>1 DEF Edit
<1>3. CASE pos[s] = None
  BY <1>2, <1>3 DEF SetTakeProfit, botVars
<1>4. CASE pos[s] # None
  <2>1. PICK p : p = Moved(s, t)
    OBVIOUS
  <2>2. p \in Position
    BY <1>4, <2>1, PositionsOK DEF Prices
  <2>3. PICK q : q = [req[r] EXCEPT !.at = "patch"]
    OBVIOUS
  <2>4. q \in Edit /\ q.at = "patch"
    BY <1>1, <2>3 DEF Edit
  <2>5. Becomes(s, p, <<Message("Position", s, Manual, 0, p)>>) /\ req' = [req EXCEPT ![r] = q]
    BY <1>1, <1>2, <1>4, <2>1, <2>3 DEF SetTakeProfit
  <2>6. UNCHANGED <<entries, ordered, changes, record, tasks, posts, overlay, asked, faults, doubt>>
    BY DEF SetTakeProfit, botVars
  <2> QED BY <2>2, <2>4, <2>5, <2>6
<1> QED BY <1>3, <1>4

LEMMA SetKeepsState ==
  ASSUME StateInv, NEW r \in Requests, SetTakeProfit(r)
  PROVE  StateInv'
<1>1. UNCHANGED <<entries, ordered, changes, record, tasks, posts, overlay, asked, faults, doubt>>
  BY SetFacts
<1>2. CASE req' = [req EXCEPT ![r] = None] /\ UNCHANGED <<pos, feed>>
  BY <1>1, <1>2 DEF StateInv, StateOK, NoticesRecorded, Recorded
<1>3. ASSUME NEW s \in Sides, NEW p \in Position, NEW q \in Edit,
             Becomes(s, p, <<Message("Position", s, Manual, 0, p)>>),
             req' = [req EXCEPT ![r] = q]
      PROVE  StateInv'
  <2>1. PICK report \in FeedMessage : report = Message("Position", s, Manual, 0, p)
    BY ReportOK
  <2>2. <<report>> \in Seq(FeedMessage)
    OBVIOUS
  <2>3. pos' \in [Sides -> Position \cup {None}] /\ feed' \in Seq(FeedMessage)
    BY <1>3, <2>1, <2>2, BecomesFacts
  <2>4. req' \in [Requests -> {None} \cup Snapshot \cup Edit]
    BY <1>3 DEF StateInv, StateOK
  <2> QED BY <1>1, <2>3, <2>4 DEF StateInv, StateOK, NoticesRecorded, Recorded
<1> QED BY <1>2, <1>3, SetFacts

(* The overlay is patched, or gone.                                        *)
LEMMA PatchFacts ==
  ASSUME StateInv, NEW r \in Requests, Patch(r)
  PROVE  /\ req' = [req EXCEPT ![r] = None]
         /\ UNCHANGED <<pos, entries, ordered, changes, feed, record, tasks, posts, asked, faults>>
         /\ \/ UNCHANGED <<overlay, doubt>>
            \/ \E s \in Sides, t \in Levels, o \in Overlay :
                 /\ overlay[s] \in Overlay /\ o = [overlay[s] EXCEPT !.tp = t]
                 /\ overlay' = [overlay EXCEPT ![s] = o]
                 /\ doubt' = IF pos[s] # None /\ pos[s].tp # t THEN doubt \cup {s} ELSE doubt
<1>1. req[r] \in Edit
  BY RequestKinds DEF Patch
<1>2. PICK s \in Sides, t \in Levels : s = req[r].side /\ t = req[r].tp
  BY <1>1 DEF Edit
<1>3. overlay[s] \in Overlay \cup {None}
  BY DEF StateInv, StateOK, Map
<1>4. PICK o : o = [overlay[s] EXCEPT !.tp = t]
  OBVIOUS
<1>5. overlay[s] # None => o \in Overlay
  BY <1>3, <1>4 DEF Overlay, Prices
<1>6. /\ req' = [req EXCEPT ![r] = None]
      /\ UNCHANGED <<pos, entries, ordered, changes, feed, record, tasks, posts, asked, faults>>
  BY DEF Patch, exchangeVars, botVars
<1>7. CASE overlay[s] = None
  BY <1>2, <1>6, <1>7 DEF Patch
<1>8. CASE overlay[s] # None
  <2>1. /\ overlay' = [overlay EXCEPT ![s] = o]
        /\ doubt' = IF pos[s] # None /\ pos[s].tp # t THEN doubt \cup {s} ELSE doubt
    BY <1>2, <1>4, <1>8 DEF Patch, Put, Doubted
  <2> QED BY <1>3, <1>4, <1>5, <1>6, <1>8, <2>1
<1> QED BY <1>7, <1>8

LEMMA PatchKeepsState ==
  ASSUME StateInv, NEW r \in Requests, Patch(r)
  PROVE  StateInv'
<1>1. overlay' \in Map /\ doubt' \subseteq Sides
  BY PatchFacts DEF StateInv, StateOK, Map
<1> QED BY <1>1, PatchFacts DEF StateInv, StateOK, NoticesRecorded, Recorded

(***************************************************************************)
(* Restarts, and every step.                                               *)
(***************************************************************************)
LEMMA RestartsKeepState ==
  ASSUME StateInv, ApiRestart \/ BotRestart
  PROVE  StateInv'
<1>1. faults' \in 0..MaxFaults /\ Nowhere \in Map
  BY Faulty DEF ApiRestart, BotRestart, Nowhere, Map
<1>2. CASE ApiRestart
  BY <1>1, <1>2 DEF ApiRestart, exchangeVars, botVars, StateInv, StateOK, NoticesRecorded, Recorded
<1>3. CASE BotRestart
  BY <1>1, <1>3 DEF BotRestart, exchangeVars, apiVars, StateInv, StateOK, NoticesRecorded
<1> QED BY <1>2, <1>3

LEMMA StateNext ==
  ASSUME StateInv, [Next]_vars
  PROVE  StateInv'
<1>1. CASE UNCHANGED vars
  BY <1>1 DEF vars, StateInv, StateOK, NoticesRecorded, Recorded
<1>2. ASSUME NEW r \in Requests, Serve(r) PROVE StateInv'
  BY <1>2, ListKeepsState, WriteKeepsState, CheckKeepsState, SetKeepsState, PatchKeepsState
     DEF Serve
<1>3. ASSUME NEW r \in Requests,
             AskSnapshot(r) \/ \E s \in Sides, level \in Levels : AskEdit(r, s, level)
      PROVE  StateInv'
  BY <1>3, SnapshotBegins, EditBegins, AskKeepsState
<1> QED BY <1>1, <1>2, <1>3, ExchangeKeepsState, HandleKeepsState, StartKeepsState,
           NoticesKeepState, RestartsKeepState DEF Next

(* The types of the exchange's positions, the bot's records and the API's  *)
(* overlays and requests hold throughout, whatever sizes the closes of a   *)
(* record and the position messages leave it.                              *)
THEOREM TypeCorrect == Spec => []TypeOK
<1>1. StateInv => TypeOK
  BY DEF StateInv, StateOK, TypeOK, Records, Snapshot, Edit
<1> QED BY <1>1, StateInit, StateNext, PTL DEF Spec

LEMMA StateHolds == Spec => []StateInv
  BY StateInit, StateNext, PTL DEF Spec

(***************************************************************************)
(* What is on its way says the right thing in the end.                     *)
(***************************************************************************)

(* No element of a sequence is of side s; the last of side s is the i-th.  *)
NoneOf(q, s) == \A i \in 1..Len(q) : q[i].side # s

LastOf(q, s, i) ==
  /\ i \in 1..Len(q)
  /\ q[i].side = s
  /\ \A j \in 1..Len(q) : j > i => q[j].side # s

(* There is a last one, if there is one.                                   *)
LEMMA LastExists ==
  ASSUME NEW S, NEW q \in Seq(S), NEW s, ~NoneOf(q, s)
  PROVE  \E i \in 1..Len(q) : LastOf(q, s, i)
<1>1. PICK T : T = {i \in 1..Len(q) : q[i].side = s}
  OBVIOUS
<1>2. Len(q) \in Nat /\ T \in SUBSET (0..Len(q)) /\ T # {}
  BY <1>1 DEF NoneOf
<1>3. PICK g \in T : \A t \in T : t <= g
  BY <1>2, Greatest
<1>4. LastOf(q, s, g)
  <2>1. ASSUME NEW j \in 1..Len(q), j > g, q[j].side = s PROVE FALSE
    <3>1. j \in T /\ j <= g /\ g \in 1..Len(q)
      BY <1>1, <1>3, <2>1
    <3> QED BY <2>1, <3>1
  <2> QED BY <1>1, <2>1 DEF LastOf
<1> QED BY <1>1, <1>4

(* The last one of a side when an element is put at the end.               *)
LEMMA LastAppend ==
  ASSUME NEW S, NEW q \in Seq(S), NEW e \in S, NEW s
  PROVE  /\ \A i \in 1..Len(Append(q, e)) :
              LastOf(Append(q, e), s, i) =>
                \/ e.side = s /\ Append(q, e)[i] = e
                \/ e.side # s /\ LastOf(q, s, i) /\ i \in 1..Len(q) /\ Append(q, e)[i] = q[i]
         /\ NoneOf(Append(q, e), s) => NoneOf(q, s) /\ e.side # s
<1> DEFINE a == Append(q, e)
<1>1. /\ Len(a) = Len(q) + 1 /\ Len(q) \in Nat
      /\ \A i \in 1..Len(q) : i \in 1..Len(a) /\ a[i] = q[i]
      /\ a[Len(q) + 1] = e
      /\ Len(q) + 1 \in 1..Len(a)
      /\ \A i \in 1..Len(a) : i \in 1..Len(q) \/ i = Len(q) + 1
  BY AppendFacts
<1> HIDE DEF a
<1>2. ASSUME NEW i \in 1..Len(a), LastOf(a, s, i)
      PROVE  \/ e.side = s /\ a[i] = e
             \/ e.side # s /\ LastOf(q, s, i) /\ i \in 1..Len(q) /\ a[i] = q[i]
  <2>1. CASE i = Len(q) + 1
    BY <1>1, <1>2, <2>1 DEF LastOf
  <2>2. CASE i \in 1..Len(q)
    <3>1. e.side # s
      BY <1>1, <1>2, <2>2 DEF LastOf
    <3>2. LastOf(q, s, i)
      BY <1>1, <1>2, <2>2 DEF LastOf
    <3> QED BY <1>1, <2>2, <3>1, <3>2
  <2> QED BY <1>1, <2>1, <2>2
<1>3. NoneOf(a, s) => NoneOf(q, s) /\ e.side # s
  BY <1>1 DEF NoneOf
<1> QED BY <1>2, <1>3 DEF a

(* And in what is left when the head is taken off.                         *)
LEMMA LastTail ==
  ASSUME NEW S, NEW q \in Seq(S), q # <<>>, NEW s
  PROVE  /\ \A i \in 1..Len(Tail(q)) :
              LastOf(Tail(q), s, i) =>
                LastOf(q, s, i + 1) /\ i + 1 \in 1..Len(q) /\ Tail(q)[i] = q[i + 1]
         /\ NoneOf(Tail(q), s) /\ q[1].side = s => LastOf(q, s, 1)
         /\ NoneOf(Tail(q), s) /\ q[1].side # s => NoneOf(q, s)
<1> DEFINE t == Tail(q)
<1>1. /\ 1 \in 1..Len(q) /\ Len(t) = Len(q) - 1 /\ Len(q) \in Nat
      /\ \A i \in 1..Len(t) : t[i] = q[i + 1] /\ i + 1 \in 1..Len(q)
      /\ \A i \in 1..Len(q) : i = 1 \/ (i - 1 \in 1..Len(t) /\ t[i - 1] = q[i])
  BY TailFacts
<1> HIDE DEF t
<1>2. ASSUME NEW i \in 1..Len(t), LastOf(t, s, i)
      PROVE  LastOf(q, s, i + 1) /\ i + 1 \in 1..Len(q) /\ t[i] = q[i + 1]
  <2>1. ASSUME NEW j \in 1..Len(q), j > i + 1 PROVE q[j].side # s
    <3>1. j - 1 \in 1..Len(t) /\ t[j - 1] = q[j] /\ j - 1 > i
      BY <1>1, <2>1
    <3> QED BY <1>2, <3>1 DEF LastOf
  <2> QED BY <1>1, <1>2, <2>1 DEF LastOf
<1>3. ASSUME NoneOf(t, s) PROVE \A j \in 1..Len(q) : j = 1 \/ q[j].side # s
  BY <1>1, <1>3 DEF NoneOf
<1>4. NoneOf(t, s) /\ q[1].side = s => LastOf(q, s, 1)
  BY <1>1, <1>3 DEF LastOf
<1>5. NoneOf(t, s) /\ q[1].side # s => NoneOf(q, s)
  BY <1>3 DEF NoneOf
<1> QED BY <1>2, <1>4, <1>5 DEF t

(* And in what is left when one is taken out that none of the side is      *)
(* before.                                                                 *)
LEMMA LastRemove ==
  ASSUME NEW S, NEW q \in Seq(S), NEW i \in 1..Len(q), NEW s,
         q[i].side # s \/ \A j \in 1..(i - 1) : q[j].side # s
  PROVE  /\ \A j \in 1..Len(RemoveAt(q, i)) :
              LastOf(RemoveAt(q, i), s, j) =>
                \E k \in 1..Len(q) : LastOf(q, s, k) /\ RemoveAt(q, i)[j] = q[k]
         /\ NoneOf(RemoveAt(q, i), s) /\ q[i].side = s => LastOf(q, s, i)
         /\ NoneOf(RemoveAt(q, i), s) /\ q[i].side # s => NoneOf(q, s)
<1> DEFINE t == RemoveAt(q, i)
<1>1. /\ Len(t) = Len(q) - 1 /\ Len(q) \in Nat
      /\ \A j \in 1..Len(t) : t[j] = IF j < i THEN q[j] ELSE q[j + 1]
  <2> DEFINE a == SubSeq(q, 1, i - 1)
             b == SubSeq(q, i + 1, Len(q))
  <2>1. /\ a \in Seq(S) /\ Len(a) = i - 1 /\ \A j \in 1..(i - 1) : a[j] = q[j]
    OBVIOUS
  <2>2. /\ b \in Seq(S) /\ Len(b) = Len(q) - i
        /\ \A j \in 1..(Len(q) - i) : b[j] = q[i + j]
    OBVIOUS
  <2>3. t = a \o b
    BY DEF RemoveAt
  <2> HIDE DEF a, b, t
  <2>4. Len(t) = Len(q) - 1 /\ Len(q) \in Nat
    BY <2>1, <2>2, <2>3
  <2>5. ASSUME NEW j \in 1..Len(t) PROVE t[j] = IF j < i THEN q[j] ELSE q[j + 1]
    <3>1. CASE j < i
      BY <2>1, <2>2, <2>3, <2>4, <3>1
    <3>2. CASE ~(j < i)
      <4>1. j - (i - 1) \in 1..(Len(q) - i) /\ i + (j - (i - 1)) = j + 1
        BY <2>4, <3>2
      <4>2. t[j] = b[j - (i - 1)]
        BY <2>1, <2>2, <2>3, <2>4, <3>2, <4>1
      <4> QED BY <2>2, <3>2, <4>1, <4>2
    <3> QED BY <3>1, <3>2
  <2> QED BY <2>4, <2>5
<1> HIDE DEF t
<1>2. \A k \in 1..Len(q) :
        \/ k = i
        \/ k < i /\ k \in 1..Len(t) /\ t[k] = q[k]
        \/ k > i /\ k - 1 \in 1..Len(t) /\ t[k - 1] = q[k]
  <2> SUFFICES ASSUME NEW k \in 1..Len(q), k # i
               PROVE  \/ k < i /\ k \in 1..Len(t) /\ t[k] = q[k]
                      \/ k > i /\ k - 1 \in 1..Len(t) /\ t[k - 1] = q[k]
    OBVIOUS
  <2>1. CASE k < i
    BY <1>1, <2>1
  <2>2. CASE k > i
    <3>1. k - 1 \in 1..Len(t) /\ ~(k - 1 < i) /\ (k - 1) + 1 = k
      BY <1>1, <2>2
    <3>2. t[k - 1] = q[(k - 1) + 1]
      BY <1>1, <3>1
    <3> QED BY <2>2, <3>1, <3>2
  <2> QED BY <2>1, <2>2
<1>3. ASSUME NEW j \in 1..Len(t), LastOf(t, s, j)
      PROVE  \E k \in 1..Len(q) : LastOf(q, s, k) /\ t[j] = q[k]
  <2> DEFINE k == IF j < i THEN j ELSE j + 1
  <2>1. k \in 1..Len(q) /\ t[j] = q[k] /\ q[k].side = s /\ k # i
    BY <1>1, <1>3 DEF LastOf
  <2>2. ASSUME NEW l \in 1..Len(q), l > k PROVE q[l].side # s
    <3>1. CASE l = i
      BY <1>1, <2>1, <2>2, <3>1
    <3>2. CASE l < i /\ l \in 1..Len(t) /\ t[l] = q[l]
      BY <1>1, <1>3, <2>2, <3>2 DEF LastOf
    <3>3. CASE l > i /\ l - 1 \in 1..Len(t) /\ t[l - 1] = q[l]
      <4>1. l - 1 > j
        BY <1>1, <2>2, <3>3
      <4> QED BY <1>3, <3>3, <4>1 DEF LastOf
    <3> QED BY <1>2, <3>1, <3>2, <3>3
  <2> HIDE DEF k
  <2> QED BY <2>1, <2>2 DEF LastOf
<1>4. ASSUME NoneOf(t, s) PROVE \A k \in 1..Len(q) : k = i \/ q[k].side # s
  BY <1>2, <1>4 DEF NoneOf
<1>5. NoneOf(t, s) /\ q[i].side = s => LastOf(q, s, i)
  BY <1>4 DEF LastOf
<1>6. NoneOf(t, s) /\ q[i].side # s => NoneOf(q, s)
  BY <1>4 DEF NoneOf
<1> QED BY <1>3, <1>5, <1>6 DEF t

(* And when a sequence of one side is put at the end.                      *)
LEMMA LastConcat ==
  ASSUME NEW S, NEW q \in Seq(S), NEW a \in Seq(S), NEW d, NEW s,
         \A i \in 1..Len(a) : a[i].side = d
  PROVE  /\ \A i \in 1..Len(q \o a) :
              LastOf(q \o a, s, i) =>
                \/ s = d /\ Len(a) > 0 /\ (q \o a)[i] = a[Len(a)]
                \/ LastOf(q, s, i) /\ i \in 1..Len(q) /\ (q \o a)[i] = q[i]
                   /\ (s # d \/ Len(a) = 0)
         /\ NoneOf(q \o a, s) => NoneOf(q, s) /\ (s # d \/ Len(a) = 0)
<1> DEFINE c == q \o a
<1>1. /\ Len(c) = Len(q) + Len(a) /\ Len(q) \in Nat /\ Len(a) \in Nat
      /\ \A i \in 1..Len(q) : i \in 1..Len(c) /\ c[i] = q[i]
      /\ \A i \in 1..Len(a) : Len(q) + i \in 1..Len(c) /\ c[Len(q) + i] = a[i]
      /\ \A i \in 1..Len(c) : i \in 1..Len(q) \/ i - Len(q) \in 1..Len(a)
  BY ConcatFacts
<1> HIDE DEF c
<1>2. Len(a) > 0 => Len(a) \in 1..Len(a) /\ Len(q) + Len(a) \in 1..Len(c)
                    /\ c[Len(q) + Len(a)] = a[Len(a)] /\ a[Len(a)].side = d
  BY <1>1
<1>3. ASSUME NEW i \in 1..Len(c), LastOf(c, s, i)
      PROVE  \/ s = d /\ Len(a) > 0 /\ c[i] = a[Len(a)]
             \/ LastOf(q, s, i) /\ i \in 1..Len(q) /\ c[i] = q[i] /\ (s # d \/ Len(a) = 0)
  <2>1. CASE s = d /\ Len(a) > 0
    <3>1. ~(Len(q) + Len(a) > i)
      BY <1>2, <1>3, <2>1 DEF LastOf
    <3>2. i = Len(q) + Len(a)
      BY <1>1, <3>1
    <3> QED BY <1>2, <2>1, <3>2
  <2>2. CASE s # d \/ Len(a) = 0
    <3>1. ~(i - Len(q) \in 1..Len(a))
      <4> SUFFICES ASSUME i - Len(q) \in 1..Len(a) PROVE FALSE
        OBVIOUS
      <4>1. Len(q) + (i - Len(q)) = i
        BY <1>1
      <4>2. c[i] = a[i - Len(q)]
        BY <1>1, <4>1
      <4>3. s = d
        BY <1>3, <4>2 DEF LastOf
      <4> QED BY <1>1, <2>2, <4>3
    <3>2. i \in 1..Len(q) /\ c[i] = q[i]
      BY <1>1, <3>1
    <3>3. LastOf(q, s, i)
      BY <1>1, <1>3, <3>2 DEF LastOf
    <3> QED BY <2>2, <3>2, <3>3
  <2> QED BY <1>1, <2>1, <2>2
<1>4. ASSUME NoneOf(c, s) PROVE NoneOf(q, s) /\ (s # d \/ Len(a) = 0)
  BY <1>1, <1>2, <1>4 DEF NoneOf
<1> QED BY <1>3, <1>4 DEF c

(* The last notice of a side says what the bot takes its position for;     *)
TasksCurrent(s) ==
  \A i \in 1..Len(tasks) : LastOf(tasks, s, i) => Payload(tasks[i]).overlay = Live(s)

PostsCurrent(s) ==
  NoneOf(tasks, s) =>
    \A i \in 1..Len(posts) : LastOf(posts, s, i) => posts[i].overlay = Live(s)

(* the last message says what the position is: a report, a fill that ended *)
(* it, or the fill of a first entry;                                       *)
FirstFill(m) == m.kind = "Open" /\ m.was = None /\ m.now.tp = 0

Reported(s) ==
  \A i \in 1..Len(feed) : LastOf(feed, s, i) =>
    /\ feed[i].now = pos[s]
    /\ feed[i].kind = "Position" \/ feed[i].now = None \/ FirstFill(feed[i])

(* when all were read, the bot knows the position.                         *)
Known(s) == NoneOf(feed, s) => Live(s) = View(pos[s])

(* A message that will have the bot tell the API nothing, and messages of  *)
(* a side that are all such.                                               *)
Harmless(m, s) ==
  /\ m.kind # "Open"
  /\ m.kind = "Position" => View(m.now) = Live(s)
  /\ m.kind # "Position" /\ m.now = None => Live(s) = None

Quiet(s) == \A i \in 1..Len(feed) : feed[i].side = s => Harmless(feed[i], s)

(* When the bot has nothing left to tell, the API has what it told.        *)
Settled(s) == NoneOf(tasks, s) /\ NoneOf(posts, s) /\ Quiet(s) => overlay[s] = Live(s)

Follows(s) == TasksCurrent(s) /\ PostsCurrent(s) /\ Reported(s) /\ Known(s) /\ Settled(s)

(* What a snapshot writes of a side the exchange answered is what it read. *)
Readings ==
  \A r \in Requests :
    req[r] # None /\ req[r].at = "write" /\ req[r].ok => req[r].answer = req[r].read

FollowInv == Readings /\ \A s \in Sides \ doubt : Follows(s)

(* When all that is left to be read is harmless, the bot knows the         *)
(* position already.                                                       *)
LEMMA QuietKnown ==
  ASSUME StateInv, NEW s \in Sides, Reported(s), Known(s), Quiet(s)
  PROVE  Live(s) = View(pos[s])
<1>1. CASE NoneOf(feed, s)
  BY <1>1 DEF Known
<1>2. CASE ~NoneOf(feed, s)
  <2>1. feed \in Seq(FeedMessage)
    BY DEF StateInv, StateOK
  <2>2. PICK i \in 1..Len(feed) : LastOf(feed, s, i)
    BY <1>2, <2>1, LastExists
  <2>3. /\ feed[i].now = pos[s]
        /\ feed[i].kind = "Position" \/ feed[i].now = None \/ FirstFill(feed[i])
    BY <2>2 DEF Reported
  <2>4. Harmless(feed[i], s)
    BY <2>2 DEF Quiet, LastOf
  <2>5. CASE feed[i].kind = "Position"
    BY <2>3, <2>4, <2>5 DEF Harmless
  <2>6. CASE feed[i].kind # "Position"
    <3>1. feed[i].now = None /\ Live(s) = None
      BY <2>3, <2>4, <2>6 DEF Harmless, FirstFill
    <3> QED BY <2>3, <3>1 DEF View
  <2> QED BY <2>5, <2>6
<1> QED BY <1>1, <1>2

(* What does not change with the records left alone.                       *)
LEMMA RecordKept ==
  ASSUME UNCHANGED record
  PROVE  /\ \A s : Live(s)' = Live(s)
         /\ \A t : Payload(t)' = Payload(t)
<1>1. \A s, k : IsOpen(s, k)' <=> IsOpen(s, k)
  BY DEF IsOpen
<1>2. \A s : OpenKeys(s)' = OpenKeys(s)
  BY DEF OpenKeys, IsOpen
<1>3. \A s : Newest(s)' = Newest(s)
  BY <1>2 DEF Newest, Newests
<1>4. \A s : Target(s)' = Target(s)
  BY <1>1, <1>3 DEF Target
<1> QED BY <1>2, <1>4 DEF Live, Payload

(* A side of which nothing changes is followed as before.                  *)
LEMMA SideKept ==
  ASSUME UNCHANGED <<feed, record, tasks, posts>>, NEW s \in Sides,
         pos'[s] = pos[s], overlay'[s] = overlay[s], Follows(s)
  PROVE  Follows(s)'
<1>1. Live(s)' = Live(s) /\ \A t : Payload(t)' = Payload(t)
  BY RecordKept
<1>2. TasksCurrent(s)' /\ PostsCurrent(s)'
  BY <1>1 DEF Follows, TasksCurrent, PostsCurrent, LastOf, NoneOf
<1>3. Reported(s)' /\ Known(s)'
  BY <1>1 DEF Follows, Reported, Known, LastOf, NoneOf
<1>4. Quiet(s)' <=> Quiet(s)
  BY <1>1 DEF Quiet, Harmless
<1>5. Settled(s)'
  BY <1>1, <1>4 DEF Follows, Settled, NoneOf
<1> QED BY <1>2, <1>3, <1>5 DEF Follows

LEMMA StillFollows ==
  ASSUME FollowInv, UNCHANGED <<pos, feed, record, tasks, posts, overlay>>,
         doubt \subseteq doubt', Readings'
  PROVE  FollowInv'
  BY SideKept DEF FollowInv

(***************************************************************************)
(* The exchange.                                                           *)
(***************************************************************************)

(* It sends messages of a side of which the last says the position, or the *)
(* side is put in doubt.                                                   *)
LEMMA BecomesFollows ==
  ASSUME StateInv, FollowInv, NEW s \in Sides, NEW p \in Position \cup {None},
         NEW q \in Seq(FeedMessage), Len(q) > 0, \A i \in 1..Len(q) : q[i].side = s,
         Becomes(s, p, q), UNCHANGED <<record, tasks, posts, overlay>>,
         doubt' = doubt \/ doubt' = doubt \cup {s},
         \/ s \in doubt'
         \/ /\ q[Len(q)].now = p
            /\ q[Len(q)].kind = "Position" \/ p = None \/ FirstFill(q[Len(q)]),
         Readings'
  PROVE  FollowInv'
<1>1. /\ feed' = feed \o q /\ feed \in Seq(FeedMessage)
      /\ pos'[s] = p /\ \A d \in Sides : d # s => pos'[d] = pos[d]
  BY DEF Becomes, StateInv, StateOK
<1>2. \A d : Live(d)' = Live(d) /\ \A t : Payload(t)' = Payload(t)
  BY RecordKept
<1>3. ASSUME NEW d \in Sides \ doubt' PROVE Follows(d)'
  <2>1. Follows(d)
    BY <1>3 DEF FollowInv
  <2>2. TasksCurrent(d)' /\ PostsCurrent(d)'
    BY <1>2, <2>1 DEF Follows, TasksCurrent, PostsCurrent, LastOf, NoneOf
  <2>3. PICK c : c = feed \o q
    OBVIOUS
  <2>4. /\ \A i \in 1..Len(c) :
             LastOf(c, d, i) =>
               \/ d = s /\ c[i] = q[Len(q)]
               \/ LastOf(feed, d, i) /\ i \in 1..Len(feed) /\ c[i] = feed[i] /\ d # s
        /\ NoneOf(c, d) => NoneOf(feed, d) /\ d # s
    <3>1. /\ \A i \in 1..Len(feed \o q) :
               LastOf(feed \o q, d, i) =>
                 \/ d = s /\ Len(q) > 0 /\ (feed \o q)[i] = q[Len(q)]
                 \/ LastOf(feed, d, i) /\ i \in 1..Len(feed) /\ (feed \o q)[i] = feed[i]
                    /\ (d # s \/ Len(q) = 0)
          /\ NoneOf(feed \o q, d) => NoneOf(feed, d) /\ (d # s \/ Len(q) = 0)
      BY <1>1, LastConcat
    <3>2. Len(q) # 0
      OBVIOUS
    <3> QED BY <2>3, <3>1, <3>2
  <2>5. Reported(d)'
    <3> SUFFICES ASSUME NEW i \in 1..Len(c), LastOf(c, d, i)
                 PROVE  /\ c[i].now = pos'[d]
                        /\ c[i].kind = "Position" \/ c[i].now = None \/ FirstFill(c[i])
      BY <1>1, <2>3 DEF Reported, LastOf, FirstFill
    <3>1. CASE d = s /\ c[i] = q[Len(q)]
      BY <1>1, <1>3, <3>1
    <3>2. CASE LastOf(feed, d, i) /\ i \in 1..Len(feed) /\ c[i] = feed[i] /\ d # s
      BY <1>1, <2>1, <3>2 DEF Follows, Reported
    <3> QED BY <2>4, <3>1, <3>2
  <2>6. Known(d)'
    <3> SUFFICES ASSUME NoneOf(c, d) PROVE Live(d) = View(pos'[d])
      BY <1>1, <1>2, <2>3 DEF Known, NoneOf
    <3> QED BY <1>1, <2>1, <2>4 DEF Follows, Known
  <2>7. Settled(d)'
    <3>1. Quiet(d)' => Quiet(d)
      BY <1>1, <1>2, ConcatFacts DEF Quiet, Harmless
    <3> QED BY <1>2, <2>1, <3>1 DEF Follows, Settled, NoneOf
  <2> QED BY <2>2, <2>5, <2>6, <2>7 DEF Follows
<1> QED BY <1>3 DEF FollowInv

(* A position is reported alone.                                           *)
LEMMA ReportFollows ==
  ASSUME StateInv, FollowInv, NEW s \in Sides, NEW p \in Position,
         Becomes(s, p, <<Message("Position", s, Manual, 0, p)>>),
         UNCHANGED <<record, tasks, posts, overlay, doubt>>, Readings'
  PROVE  FollowInv'
<1>1. PICK report \in FeedMessage : report = Message("Position", s, Manual, 0, p)
  BY ReportOK
<1>2. report.side = s /\ report.now = p /\ report.kind = "Position"
  BY <1>1, ReportOK
<1>3. PICK q : q = <<report>>
  OBVIOUS
<1>4. q \in Seq(FeedMessage) /\ Len(q) = 1 /\ q[1] = report
  BY <1>3, PairFacts
<1>5. q[Len(q)] = report /\ Len(q) > 0 /\ \A i \in 1..Len(q) : q[i].side = s
  BY <1>2, <1>4
<1>6. Becomes(s, p, q)
  BY <1>1, <1>3
<1> QED BY <1>2, <1>4, <1>5, <1>6, BecomesFollows

(* A fill and its report, in either order.                                 *)
LEMMA ChangeFollows ==
  ASSUME StateInv, FollowInv, NEW s \in Sides, NEW p \in Position \cup {None},
         NEW fill \in FeedMessage, Change(s, p, fill), fill.side = s, fill.now = p,
         pos[s] = None => FirstFill(fill)
  PROVE  FollowInv'
<1>1. PICK report \in FeedMessage : report = Message("Position", s, Manual, 0, p)
  BY ReportOK
<1>2. report.side = s /\ report.now = p /\ report.kind = "Position"
  BY <1>1, ReportOK
<1>3. UNCHANGED <<record, tasks, posts, overlay, req>>
  BY ChangeCases
<1>4. Readings'
  BY <1>3 DEF FollowInv, Readings
<1>5. ASSUME NEW a \in {fill, report}, NEW b \in {fill, report}, Becomes(s, p, <<a, b>>),
             doubt' = doubt \/ doubt' = doubt \cup {s},
             s \in doubt' \/ b = report \/ p = None \/ FirstFill(b)
      PROVE  FollowInv'
  <2>1. PICK q : q = <<a, b>>
    OBVIOUS
  <2>2. q \in Seq(FeedMessage) /\ Len(q) = 2 /\ q[1] = a /\ q[2] = b
    BY <2>1, PairFacts
  <2>3. q[Len(q)] = b /\ Len(q) > 0 /\ \A i \in 1..Len(q) : q[i].side = s
    BY <1>2, <2>2
  <2>4. b.now = p
    BY <1>2
  <2>5. Becomes(s, p, q)
    BY <1>5, <2>1
  <2>6. b = report => b.kind = "Position"
    BY <1>2
  <2> QED BY <1>3, <1>4, <1>5, <2>2, <2>3, <2>4, <2>5, <2>6, BecomesFollows
<1>6. CASE Becomes(s, p, <<fill, report>>) /\ UNCHANGED doubt
  BY <1>5, <1>6
<1>7. CASE /\ Becomes(s, p, <<report, fill>>)
           /\ doubt' = IF pos[s] # None /\ p # None THEN doubt \cup {s} ELSE doubt
  <2>1. s \in doubt' \/ p = None \/ FirstFill(fill)
    BY <1>7
  <2>2. doubt' = doubt \/ doubt' = doubt \cup {s}
    BY <1>7
  <2> QED BY <1>5, <1>7, <2>1, <2>2
<1> QED BY <1>1, <1>6, <1>7, ChangeCases

LEMMA ExchangeFollows ==
  ASSUME StateInv, FollowInv, Exchange
  PROVE  FollowInv'
<1>1. ASSUME NEW s \in Sides, NEW k \in Keys, NEW n \in 1..MaxQty, Enter(s, k, n)
      PROVE  FollowInv'
  <2>1. PICK p \in Position :
          /\ Message("Open", s, k, n, p) \in FeedMessage
          /\ Change(s, p, Message("Open", s, k, n, p))
          /\ pos[s] = None => p.tp = 0
    BY <1>1, EnterFacts
  <2>2. PICK fill \in FeedMessage : fill = Message("Open", s, k, n, p)
    BY <2>1
  <2>3. fill.side = s /\ fill.now = p /\ fill.kind = "Open" /\ fill.was = pos[s]
    BY <2>2 DEF Message
  <2> QED BY <2>1, <2>2, <2>3, ChangeFollows DEF FirstFill
<1>2. ASSUME NEW s \in Sides, NEW kind \in {"Close", "TakeProfit", "StopLoss"}, NEW n,
             Reduce(s, kind, n)
      PROVE  FollowInv'
  <2>1. PICK p \in Position \cup {None} :
          /\ Message(kind, s, Manual, n, p) \in FeedMessage
          /\ Change(s, p, Message(kind, s, Manual, n, p))
          /\ pos[s] # None /\ UNCHANGED <<entries, ordered>>
    BY <1>2, ReduceFacts
  <2>2. PICK fill \in FeedMessage : fill = Message(kind, s, Manual, n, p)
    BY <2>1
  <2>3. fill.side = s /\ fill.now = p
    BY <2>2 DEF Message
  <2> QED BY <2>1, <2>2, <2>3, ChangeFollows
<1>3. ASSUME NEW s \in Sides, NEW level \in Prices, MoveTakeProfit(s, level)
      PROVE  FollowInv'
  <2>1. PICK p \in Position :
          /\ Becomes(s, p, <<Message("Position", s, Manual, 0, p)>>)
          /\ changes < MaxChanges /\ changes' = changes + 1
          /\ UNCHANGED <<entries, ordered, record, tasks, posts, overlay, req, asked, faults, doubt>>
    BY <1>3, MoveFacts
  <2>2. Readings'
    BY <2>1 DEF FollowInv, Readings
  <2> QED BY <2>1, <2>2, ReportFollows
<1>4. ASSUME NEW s \in Sides, NEW n \in 1..MaxQty,
             EnterManually(s, n) \/ \E z \in Zones : EnterZone(s, z, n)
      PROVE  FollowInv'
  BY <1>1, <1>4 DEF EnterManually, EnterZone, Keys
<1> QED BY <1>2, <1>3, <1>4 DEF Exchange

(***************************************************************************)
(* The bot.                                                                *)
(***************************************************************************)

(* A record is changed.                                                    *)
Changed(s, k, r) == record' = [record EXCEPT ![s][k] = r]

LEMMA RecordChanged ==
  ASSUME record \in Records, NEW s \in Sides, NEW k \in Keys, NEW r \in Record,
         Changed(s, k, r)
  PROVE  /\ record' \in Records
         /\ record'[s][k] = r /\ r # None
         /\ \A j \in Keys : j # k => record'[s][j] = record[s][j]
         /\ OpenKeys(s)' = IF r.closed THEN OpenKeys(s) \ {k} ELSE OpenKeys(s) \cup {k}
<1>1. record' \in Records /\ record'[s][k] = r /\ r # None
  BY NoneAssumption DEF Records, Changed
<1>2. \A j \in Keys : j # k => record'[s][j] = record[s][j]
  BY DEF Records, Changed
<1>4. \A j \in Keys : j # k => (IsOpen(s, j)' <=> IsOpen(s, j))
  BY <1>2 DEF IsOpen
<1>5. IsOpen(s, k)' <=> ~r.closed
  BY <1>1 DEF IsOpen
<1>6. \A j : j \in OpenKeys(s)' <=> j \in Keys /\ IsOpen(s, j)'
  BY DEF OpenKeys
<1>7. \A j : j \in OpenKeys(s) <=> j \in Keys /\ IsOpen(s, j)
  BY DEF OpenKeys
<1>8. OpenKeys(s)' = IF r.closed THEN OpenKeys(s) \ {k} ELSE OpenKeys(s) \cup {k}
  BY <1>4, <1>5, <1>6, <1>7
<1> QED BY <1>1, <1>2, <1>8

(* What is known of another side stays.                                    *)
LEMMA OtherSide ==
  ASSUME NEW d \in Sides, record'[d] = record[d]
  PROVE  Live(d)' = Live(d)
<1>1. OpenKeys(d)' = OpenKeys(d)
  BY DEF OpenKeys, IsOpen
<1>2. Target(d)' = Target(d)
  BY <1>1, SameTarget
<1> QED BY <1>1, <1>2 DEF Live

(* One that is open and stays so, and says the same: so does the bot.      *)
LEMMA RecordTouched ==
  ASSUME record \in Records, NEW s \in Sides, NEW k \in OpenKeys(s), NEW r \in Record,
         Changed(s, k, r), ~r.closed, r.time = record[s][k].time
  PROVE  OpenKeys(s)' = OpenKeys(s) /\ Newest(s)' = Newest(s) /\ Target(s)' = Target(s)
<1>1. k \in Keys
  BY OpenRecord
<1>2. /\ record'[s][k] = r
      /\ \A j \in Keys : j # k => record'[s][j] = record[s][j]
      /\ OpenKeys(s)' = OpenKeys(s) \cup {k}
  BY <1>1, RecordChanged
<1>3. OpenKeys(s)' = OpenKeys(s)
  BY <1>2
<1>4. \A j \in OpenKeys(s) : record'[s][j].time = record[s][j].time
  BY <1>2 DEF OpenKeys
<1> QED BY <1>3, <1>4, SameTarget

(* What a handler does for the side of its message: it tells nothing and   *)
(* changes nothing the API should know, and then its message was harmless  *)
(* or the rest is not; or it tells what is so now.                         *)
Silent(m, s) ==
  /\ tasks' = tasks
  /\ Live(s)' = Live(s)
  /\ \A t \in Notice : t.side = s /\ Recorded(t) => Payload(t)' = Payload(t)
  /\ (\A i \in 2..Len(feed) : feed[i].side = s => Harmless(feed[i], s)) => Harmless(m, s)

Told(s) ==
  \E n \in Notice :
    tasks' = Append(tasks, n) /\ n.side = s /\ Payload(n)'.overlay = Live(s)'

(* Behind the last message of the side, the bot knows the position.        *)
Learnt(s) == LastOf(feed, s, 1) /\ Reported(s) => Live(s)' = View(pos[s])

LEMMA LastMessage ==
  ASSUME StateInv, Handle, NEW s, LastOf(feed, s, 1), Reported(s)
  PROVE  LET m == Head(feed) IN
           /\ m.now = pos[s]
           /\ m.kind = "Position" \/ m.now = None \/ FirstFill(m)
  BY HeadFacts DEF Reported, LastOf

LEMMA OpenAnswers ==
  ASSUME StateInv, Handle, NEW m, m = Head(feed), NEW s \in Sides, s = m.side,
         HandleOpen(m), s \notin doubt'
  PROVE  Told(s) /\ Learnt(s)
<1>1. /\ record \in Records /\ m.kind = "Open" /\ m.now \in Position /\ m.key \in Keys
      /\ m.time \in 1..MaxChanges /\ m.qty \in Nat /\ m.now.entry \in 1..MaxChanges
      /\ MaxChanges \in Nat
  BY HeadFacts, OverlayAssumption DEF StateInv, StateOK, HandleOpen, Position
<1>2. PICK k \in Keys : k = m.key
  BY <1>1
<1>3. ~IsOpen(s, k) /\ (k = Manual \/ OpenKeys(s) = {})
  BY <1>2 DEF HandleOpen, Doubted
<1>4. PICK e : e = OwnPrice(m)
  OBVIOUS
<1>5. e \in 0..MaxChanges
  BY <1>1, <1>4 DEF OwnPrice
<1>6. PICK r : r = [time |-> m.time, entry |-> e, size |-> m.qty, total |-> m.qty, out |-> 0,
                    tp |-> 0, closed |-> FALSE]
  OBVIOUS
<1>7. r \in Record /\ r.entry = e /\ r.tp = 0 /\ ~r.closed
  BY <1>1, <1>5, <1>6 DEF Record, Prices
<1>8. PICK n : n = Update(s, k, 0)
  OBVIOUS
<1>9. n \in Notice /\ n.side = s /\ n.key = k /\ n.op = "update" /\ n.tp = 0
  BY <1>8 DEF Update, Notice, Prices
<1>10. Changed(s, k, r) /\ tasks' = Append(tasks, n)
  <2>1. Handled(s, k, r, <<n>>)
    BY <1>2, <1>3, <1>4, <1>6, <1>8 DEF HandleOpen
  <2>2. tasks \o <<n>> = Append(tasks, n)
    BY <1>9 DEF StateInv, StateOK
  <2> QED BY <2>1, <2>2 DEF Handled, Changed
<1>11. /\ record' \in Records /\ record'[s][k] = r
       /\ OpenKeys(s)' = OpenKeys(s) \cup {k}
  BY <1>1, <1>7, <1>10, RecordChanged
<1>12. Target(s)' = k
  <2>1. CASE k = Manual
    <3>1. IsOpen(s, Manual)'
      BY <1>7, <1>11, <2>1, NoneAssumption DEF IsOpen
    <3> QED BY <2>1, <3>1 DEF Target
  <2>2. CASE k # Manual
    <3>1. OpenKeys(s)' = {k}
      BY <1>3, <1>11, <2>2
    <3>2. Newests(s)' = {k}
      <4>1. record'[s][k].time <= record'[s][k].time
        BY <1>1, <1>6, <1>11
      <4> QED BY <3>1, <4>1 DEF Newests
    <3>3. Newest(s)' = k
      BY <3>2 DEF Newest
    <3>4. ~IsOpen(s, Manual)'
      BY <2>2, <3>1 DEF OpenKeys, Keys
    <3> QED BY <3>3, <3>4 DEF Target
  <2> QED BY <2>1, <2>2
<1>13. Live(s)' = [entry |-> e, tp |-> 0, closed |-> FALSE]
  <2>1. OpenKeys(s)' # {}
    BY <1>11
  <2> QED BY <1>7, <1>11, <1>12, <2>1 DEF Live
<1>14. Payload(n)'.overlay = Live(s)'
  BY <1>6, <1>9, <1>11, <1>13 DEF Payload
<1>15. Learnt(s)
  <2> SUFFICES ASSUME LastOf(feed, s, 1), Reported(s) PROVE Live(s)' = View(pos[s])
    BY DEF Learnt
  <2>1. m.now = pos[s] /\ (m.kind = "Position" \/ m.now = None \/ FirstFill(m))
    BY LastMessage
  <2>2. m.was = None /\ m.now.tp = 0 /\ m.now # None
    BY <1>1, <2>1, NoneAssumption DEF FirstFill
  <2>3. e = m.now.entry
    BY <1>4, <2>2 DEF OwnPrice
  <2> QED BY <1>13, <2>1, <2>2, <2>3 DEF View
<1> QED BY <1>9, <1>10, <1>14, <1>15 DEF Told

LEMMA CloseAnswers ==
  ASSUME StateInv, Handle, NEW m, m = Head(feed), NEW s \in Sides, s = m.side,
         HandleClose(m), s \notin doubt'
  PROVE  (Silent(m, s) \/ Told(s)) /\ Learnt(s)
<1>1. /\ record \in Records /\ m \in FeedMessage /\ m.kind \in {"Close", "TakeProfit", "StopLoss"}
      /\ m.kind # "Position" /\ m.kind # "Open"
  BY HeadFacts DEF StateInv, StateOK, HandleClose
<1>2. LastOf(feed, s, 1) /\ Reported(s) => m.now = None /\ pos[s] = None
  BY <1>1, LastMessage DEF FirstFill
<1>3. CASE OpenKeys(s) = {}
  <2>1. tasks' = tasks /\ record' = record
    BY <1>3 DEF HandleClose, Skip, botVars
  <2>2. Live(s)' = Live(s) /\ Live(s) = None /\ \A t : Payload(t)' = Payload(t)
    BY <1>3, <2>1, RecordKept DEF Live
  <2>3. Harmless(m, s)
    BY <1>1, <2>2 DEF Harmless
  <2> QED BY <1>2, <2>1, <2>2, <2>3 DEF Silent, Learnt, View
<1>4. CASE OpenKeys(s) # {}
  <2>1. PICK k : k = Newest(s)
    OBVIOUS
  <2>2. k \in OpenKeys(s) /\ k \in Keys /\ record[s][k] \in Record
    BY <1>1, <1>4, <2>1, NewestOpen, OpenRecord
  <2>3. PICK kept \in {0, record[s][k].out} :
          LET c == Closed(record[s][k], m, kept) IN
            /\ Handled(s, k, c, IF c.closed THEN <<Clear(s, k)>> ELSE <<>>)
            /\ Doubted(s, IF c.closed THEN m.now # None \/ OpenKeys(s) # {k} ELSE m.now = None)
    BY <1>4, <2>1 DEF HandleClose
  <2>4. PICK c : c = Closed(record[s][k], m, kept)
    OBVIOUS
  <2>5. /\ c \in Record /\ c.time = record[s][k].time /\ c.entry = record[s][k].entry
        /\ c.tp = record[s][k].tp
    BY <1>1, <2>2, <2>4, ClosedFacts
  <2>6. Changed(s, k, c)
    BY <2>3, <2>4 DEF Handled, Changed
  <2>7. /\ record' \in Records /\ record'[s][k] = c
        /\ \A j \in Keys : j # k => record'[s][j] = record[s][j]
        /\ OpenKeys(s)' = IF c.closed THEN OpenKeys(s) \ {k} ELSE OpenKeys(s) \cup {k}
    <3>1. c \in Record /\ k \in Keys /\ record \in Records
      BY <1>1, <2>2, <2>5
    <3>2. /\ record' \in Records /\ record'[s][k] = c
          /\ \A j \in Keys : j # k => record'[s][j] = record[s][j]
      BY <2>6, <3>1, RecordChanged
    <3>3. OpenKeys(s)' = IF c.closed THEN OpenKeys(s) \ {k} ELSE OpenKeys(s) \cup {k}
      BY <2>6, <3>1, RecordChanged
    <3> QED BY <3>2, <3>3
  <2>8. CASE c.closed
    <3>1. m.now = None /\ OpenKeys(s) = {k}
      BY <2>3, <2>4, <2>8 DEF Doubted
    <3>2. Live(s)' = None
      <4>1. OpenKeys(s)' = {}
        BY <2>7, <2>8, <3>1
      <4> QED BY <4>1 DEF Live
    <3>3. PICK n : n = Clear(s, k)
      OBVIOUS
    <3>4. n \in Notice /\ n.side = s /\ n.op = "clear"
      BY <2>2, <3>3 DEF Clear, Notice, Prices
    <3>5. tasks' = Append(tasks, n)
      <4>1. Handled(s, k, c, <<n>>)
        BY <2>3, <2>4, <2>8, <3>3
      <4>2. tasks \o <<n>> = Append(tasks, n)
        BY <3>4 DEF StateInv, StateOK
      <4> QED BY <4>1, <4>2 DEF Handled
    <3>6. Payload(n)'.overlay = Live(s)'
      BY <3>2, <3>4 DEF Payload
    <3>7. Learnt(s)
      BY <1>2, <3>2 DEF Learnt, View
    <3> QED BY <3>4, <3>5, <3>6, <3>7 DEF Told
  <2>9. CASE ~c.closed
    <3>1. m.now # None
      BY <2>3, <2>4, <2>9 DEF Doubted
    <3>2. tasks' = tasks
      BY <2>3, <2>4, <2>9 DEF Handled, StateInv, StateOK
    <3>3. OpenKeys(s)' = OpenKeys(s) /\ Target(s)' = Target(s)
      BY <1>1, <2>2, <2>5, <2>6, <2>9, RecordTouched
    <3>4. \A j \in Keys : /\ record'[s][j].entry = record[s][j].entry
                          /\ record'[s][j].tp = record[s][j].tp
      BY <2>5, <2>7
    <3>5. Target(s) \in Keys
      BY <1>1, <1>4, NewestOpen, OpenRecord
    <3>6. Live(s)' = Live(s)
      BY <1>4, <3>3, <3>4, <3>5 DEF Live
    <3>7. ASSUME NEW t \in Notice, t.side = s, Recorded(t) PROVE Payload(t)' = Payload(t)
      <4>1. t.key \in Keys
        BY DEF Notice
      <4>2. record'[s][t.key].closed = record[s][t.key].closed
        <5>1. CASE t.key = k
          <6>1. c.closed = FALSE /\ record[s][k].closed = FALSE
            BY <1>1, <2>2, <2>5, <2>9, OpenRecord DEF Record
          <6> QED BY <2>7, <5>1, <6>1
        <5>2. CASE t.key # k
          BY <2>7, <4>1, <5>2
        <5> QED BY <5>1, <5>2
      <4> QED BY <3>4, <3>7, <4>1, <4>2 DEF Payload
    <3>8. Harmless(m, s)
      BY <1>1, <3>1 DEF Harmless
    <3> QED BY <1>2, <3>1, <3>2, <3>6, <3>7, <3>8 DEF Silent, Learnt
  <2> QED BY <2>8, <2>9
<1> QED BY <1>3, <1>4

LEMMA PositionAnswers ==
  ASSUME StateInv, Handle, NEW m, m = Head(feed), NEW s \in Sides, s = m.side,
         HandlePosition(m), s \notin doubt'
  PROVE  (Silent(m, s) \/ Told(s)) /\ Learnt(s)
<1>1. /\ record \in Records /\ m \in FeedMessage /\ m.kind = "Position"
      /\ m.now \in Position \cup {None}
      /\ feed' = Tail(feed)
  BY HeadFacts DEF StateInv, StateOK, HandlePosition
<1>2. LastOf(feed, s, 1) /\ Reported(s) => m.now = pos[s]
  BY LastMessage
<1>3. PICK k : k = Target(s)
  OBVIOUS
<1>4. CASE m.now = None \/ OpenKeys(s) = {}
  <2>1. tasks' = tasks /\ record' = record
    BY <1>4 DEF HandlePosition, botVars
  <2>2. Live(s)' = Live(s) /\ \A t : Payload(t)' = Payload(t)
    BY <2>1, RecordKept
  <2>3. CASE m.now = None /\ OpenKeys(s) = {}
    <3>1. Live(s) = None /\ View(m.now) = None
      BY <2>3 DEF Live, View
    <3>2. Harmless(m, s)
      BY <1>1, <3>1 DEF Harmless
    <3> QED BY <1>2, <2>1, <2>2, <3>1, <3>2 DEF Silent, Learnt
  <2>4. CASE ~(m.now = None /\ OpenKeys(s) = {})
    <3>1. Overtook(s, m.now)
      BY <1>4, <2>4 DEF HandlePosition, Doubted
    <3>2. PICK i \in 2..Len(feed) :
            /\ feed[i].side = s
            /\ IF m.now = None THEN feed[i].kind # "Position" /\ feed[i].now = None
               ELSE feed[i].kind = "Open"
      BY <3>1 DEF Overtook
    <3>3. ~LastOf(feed, s, 1)
      <4>1. i \in 1..Len(feed) /\ i > 1
        OBVIOUS
      <4> QED BY <3>2, <4>1 DEF LastOf
    <3>4. ASSUME Harmless(feed[i], s) PROVE Harmless(m, s)
      <4>1. m.now = None /\ Live(s) = None
        BY <3>2, <3>4 DEF Harmless
      <4> QED BY <1>1, <4>1 DEF Harmless, View
    <3>5. Silent(m, s)
      BY <2>1, <2>2, <3>2, <3>4 DEF Silent
    <3> QED BY <3>3, <3>5 DEF Learnt
  <2> QED BY <2>3, <2>4
<1>5. CASE m.now # None /\ OpenKeys(s) # {}
  <2>1. /\ k \in OpenKeys(s) /\ k \in Keys /\ record[s][k] \in Record /\ m.now \in Position
        /\ ~record[s][k].closed
    BY <1>1, <1>3, <1>5, NewestOpen, OpenRecord
  <2>2. View(m.now) = [entry |-> m.now.entry, tp |-> m.now.tp, closed |-> FALSE]
    BY <1>5 DEF View
  <2>3. CASE /\ record[s][k].size = m.now.size /\ record[s][k].entry = m.now.entry
             /\ record[s][k].tp = m.now.tp
    <3>1. tasks' = tasks /\ record' = record
      BY <1>3, <1>5, <2>3 DEF HandlePosition, Skip, botVars
    <3>2. Live(s)' = Live(s) /\ \A t : Payload(t)' = Payload(t)
      BY <3>1, RecordKept
    <3>3. Live(s) = View(m.now)
      BY <1>3, <1>5, <2>2, <2>3 DEF Live
    <3>4. Harmless(m, s)
      BY <1>1, <3>3 DEF Harmless
    <3> QED BY <1>2, <3>1, <3>2, <3>3, <3>4 DEF Silent, Learnt
  <2>4. CASE ~(/\ record[s][k].size = m.now.size /\ record[s][k].entry = m.now.entry
               /\ record[s][k].tp = m.now.tp)
    <3>1. PICK r : r = [record[s][k] EXCEPT !.size = m.now.size, !.entry = m.now.entry,
                                            !.tp = m.now.tp]
      OBVIOUS
    <3>2. /\ r \in Record /\ r.time = record[s][k].time /\ r.entry = m.now.entry
          /\ r.tp = m.now.tp /\ r.closed = FALSE
      <4>1. m.now.size \in Nat /\ m.now.entry \in 0..MaxChanges /\ m.now.tp \in Prices
        BY <2>1, OverlayAssumption DEF Position
      <4>2. record[s][k].closed = FALSE
        BY <2>1 DEF Record
      <4>3. PICK a \in Nat, e \in 0..MaxChanges, l \in Prices :
              a = m.now.size /\ e = m.now.entry /\ l = m.now.tp
        BY <4>1
      <4>4. r = [record[s][k] EXCEPT !.size = a, !.entry = e, !.tp = l]
        BY <3>1, <4>3
      <4> QED BY <2>1, <4>2, <4>3, <4>4 DEF Record
    <3>3. PICK n : n = Update(s, k, m.now.tp)
      OBVIOUS
    <3>4. n \in Notice /\ n.side = s /\ n.key = k /\ n.op = "update" /\ n.tp = m.now.tp
      BY <2>1, <3>3 DEF Update, Notice, Position
    <3>5. Changed(s, k, r) /\ tasks' = Append(tasks, n)
      <4>1. Handled(s, k, r, <<n>>)
        BY <1>3, <1>5, <2>4, <3>1, <3>3 DEF HandlePosition
      <4>2. tasks \o <<n>> = Append(tasks, n)
        BY <3>4 DEF StateInv, StateOK
      <4> QED BY <4>1, <4>2 DEF Handled, Changed
    <3>6. OpenKeys(s)' = OpenKeys(s) /\ Target(s)' = k
      BY <1>1, <1>3, <2>1, <3>2, <3>5, RecordTouched
    <3>7. record'[s][k] = r
      BY <1>1, <2>1, <3>2, <3>5, RecordChanged
    <3>8. Live(s)' = View(m.now)
      BY <1>5, <2>2, <3>2, <3>6, <3>7 DEF Live
    <3>9. Payload(n)'.overlay = Live(s)'
      BY <2>2, <3>2, <3>4, <3>7, <3>8 DEF Payload
    <3> QED BY <1>2, <3>4, <3>5, <3>8, <3>9 DEF Told, Learnt
  <2> QED BY <2>3, <2>4
<1> QED BY <1>4, <1>5

LEMMA HandleFollows ==
  ASSUME StateInv, FollowInv, Handle
  PROVE  FollowInv'
<1>1. PICK m : m = Head(feed)
  OBVIOUS
<1>2. PICK s \in Sides : s = m.side
  BY <1>1, HeadFacts
<1>3. /\ feed # <<>> /\ feed' = Tail(feed) /\ m = feed[1]
      /\ feed \in Seq(FeedMessage) /\ tasks \in Seq(Notice) /\ record \in Records
      /\ HandleOpen(m) \/ HandleClose(m) \/ HandlePosition(m)
      /\ UNCHANGED <<pos, posts, overlay, req>>
  BY <1>1, HeadFacts DEF StateInv, StateOK
<1>4. doubt' = doubt \/ doubt' = doubt \cup {s}
  BY <1>2, <1>3 DEF HandleOpen, HandleClose, HandlePosition, Doubted, Skip
<1>5. \A d \in Sides : d # s => record'[d] = record[d]
  <2> SUFFICES ASSUME NEW d \in Sides, d # s PROVE record'[d] = record[d]
    OBVIOUS
  <2>1. ASSUME NEW k, NEW r, NEW notices, Handled(s, k, r, notices) PROVE record'[d] = record[d]
    BY <1>3, <2>1 DEF Handled, Records
  <2>2. CASE HandleOpen(m)
    BY <1>2, <2>1, <2>2 DEF HandleOpen
  <2>3. CASE HandleClose(m)
    BY <1>2, <2>1, <2>3 DEF HandleClose, Skip, botVars
  <2>4. CASE HandlePosition(m)
    BY <1>2, <2>1, <2>4 DEF HandlePosition, Skip, botVars
  <2> QED BY <1>3, <2>2, <2>3, <2>4
<1>6. \/ tasks' = tasks
      \/ \E n \in Notice : tasks' = Append(tasks, n) /\ n.side = s
  <2>1. ASSUME NEW k \in Keys, NEW r, NEW op \in {"update", "clear"}, NEW tp \in Prices,
               Handled(s, k, r, <<[op |-> op, side |-> s, key |-> k, tp |-> tp]>>)
        PROVE  \E n \in Notice : tasks' = Append(tasks, n) /\ n.side = s
    <3>1. PICK n : n = [op |-> op, side |-> s, key |-> k, tp |-> tp]
      OBVIOUS
    <3>2. n \in Notice /\ n.side = s
      BY <3>1 DEF Notice
    <3>3. tasks \o <<n>> = Append(tasks, n)
      BY <1>3, <3>2
    <3>4. tasks' = tasks \o <<n>>
      BY <2>1, <3>1 DEF Handled
    <3> QED BY <3>2, <3>3, <3>4
  <2>2. ASSUME NEW k, NEW r, Handled(s, k, r, <<>>) PROVE tasks' = tasks
    BY <1>3, <2>2 DEF Handled
  <2>3. CASE HandleOpen(m)
    <3>1. m.key \in Keys /\ 0 \in Prices
      BY <1>1, HeadFacts DEF Prices
    <3> QED BY <1>2, <2>1, <2>2, <2>3, <3>1 DEF HandleOpen, Update
  <2>4. CASE HandleClose(m)
    <3>1. CASE OpenKeys(s) = {}
      BY <1>2, <2>4, <3>1 DEF HandleClose, Skip, botVars
    <3>2. CASE OpenKeys(s) # {}
      <4>1. PICK k \in Keys : k = Newest(s)
        BY <1>3, <3>2, NewestOpen, OpenRecord
      <4>2. PICK kept : LET c == Closed(record[s][k], m, kept) IN
                          Handled(s, k, c, IF c.closed THEN <<Clear(s, k)>> ELSE <<>>)
        BY <1>2, <2>4, <3>2, <4>1 DEF HandleClose
      <4>3. PICK c : c = Closed(record[s][k], m, kept)
        OBVIOUS
      <4>4. Handled(s, k, c, <<Clear(s, k)>>) \/ Handled(s, k, c, <<>>)
        BY <4>2, <4>3
      <4>5. 0 \in Prices
        BY DEF Prices
      <4> QED BY <2>1, <2>2, <4>1, <4>4, <4>5 DEF Clear
    <3> QED BY <3>1, <3>2
  <2>5. CASE HandlePosition(m)
    <3>1. CASE UNCHANGED botVars
      BY <3>1 DEF botVars
    <3>2. CASE ~(UNCHANGED botVars)
      <4>1. PICK k : k = Target(s)
        OBVIOUS
      <4>2. m.now # None /\ OpenKeys(s) # {}
        BY <1>2, <2>5, <3>2 DEF HandlePosition
      <4>3. k \in Keys /\ m.now.tp \in Prices
        BY <1>1, <1>3, <4>1, <4>2, HeadFacts, NewestOpen, OpenRecord DEF Position
      <4>4. \E r : Handled(s, k, r, <<Update(s, k, m.now.tp)>>)
        BY <1>2, <2>5, <3>2, <4>1 DEF HandlePosition, Skip
      <4> QED BY <2>1, <4>3, <4>4 DEF Update
    <3> QED BY <3>1, <3>2
  <2> QED BY <1>3, <2>3, <2>4, <2>5
<1>7. PICK left : left = Tail(feed)
  OBVIOUS
<1>8. ASSUME NEW d
      PROVE  /\ \A i \in 1..Len(left) :
                  LastOf(left, d, i) =>
                    LastOf(feed, d, i + 1) /\ i + 1 \in 1..Len(feed) /\ left[i] = feed[i + 1]
             /\ NoneOf(left, d) /\ s = d => LastOf(feed, d, 1)
             /\ NoneOf(left, d) /\ s # d => NoneOf(feed, d)
  BY <1>2, <1>3, <1>7, LastTail
<1>9. /\ Len(left) = Len(feed) - 1 /\ Len(feed) \in Nat
      /\ \A i \in 1..Len(feed) : i = 1 \/ (i - 1 \in 1..Len(left) /\ left[i - 1] = feed[i])
  BY <1>3, <1>7, TailFacts
<1>10. ASSUME NEW d \in Sides, Follows(d) PROVE Reported(d)'
  <2> SUFFICES ASSUME NEW i \in 1..Len(left), LastOf(left, d, i)
               PROVE  /\ left[i].now = pos[d]
                      /\ left[i].kind = "Position" \/ left[i].now = None \/ FirstFill(left[i])
    BY <1>3, <1>7 DEF Reported, LastOf, FirstFill
  <2>1. LastOf(feed, d, i + 1) /\ i + 1 \in 1..Len(feed) /\ left[i] = feed[i + 1]
    BY <1>8
  <2> QED BY <1>10, <2>1 DEF Follows, Reported
<1>11. ASSUME NEW d \in Sides, d # s, Follows(d) PROVE Follows(d)'
  <2>1. Live(d)' = Live(d) /\ record'[d] = record[d]
    BY <1>5, <1>11, OtherSide
  <2>2. \A i \in 1..Len(tasks') :
          LastOf(tasks', d, i) => LastOf(tasks, d, i) /\ i \in 1..Len(tasks) /\ tasks'[i] = tasks[i]
    <3>1. CASE tasks' = tasks
      BY <3>1 DEF LastOf
    <3>2. ASSUME NEW n \in Notice, tasks' = Append(tasks, n), n.side = s
          PROVE  \A i \in 1..Len(tasks') :
                   LastOf(tasks', d, i) => LastOf(tasks, d, i) /\ i \in 1..Len(tasks) /\ tasks'[i] = tasks[i]
      <4>1. PICK a : a = Append(tasks, n)
        OBVIOUS
      <4>2. \A i \in 1..Len(a) :
              LastOf(a, d, i) => LastOf(tasks, d, i) /\ i \in 1..Len(tasks) /\ a[i] = tasks[i]
        <5>1. /\ \A i \in 1..Len(Append(tasks, n)) :
                   LastOf(Append(tasks, n), d, i) =>
                     \/ n.side = d /\ Append(tasks, n)[i] = n
                     \/ n.side # d /\ LastOf(tasks, d, i) /\ i \in 1..Len(tasks)
                        /\ Append(tasks, n)[i] = tasks[i]
              /\ NoneOf(Append(tasks, n), d) => NoneOf(tasks, d) /\ n.side # d
          <6>1. tasks \in Seq(Notice)
            BY <1>3
          <6> QED BY <6>1, LastAppend
        <5> QED BY <1>11, <3>2, <4>1, <5>1
      <4> QED BY <3>2, <4>1, <4>2
    <3> QED BY <1>6, <3>1, <3>2
  <2>3. NoneOf(tasks', d) => NoneOf(tasks, d)
    <3>1. ASSUME NEW n \in Notice, tasks' = Append(tasks, n) PROVE NoneOf(tasks', d) => NoneOf(tasks, d)
      BY <1>3, <3>1, LastAppend
    <3> QED BY <1>6, <3>1
  <2>4. TasksCurrent(d)'
    <3> SUFFICES ASSUME NEW i \in 1..Len(tasks'), LastOf(tasks', d, i)
                 PROVE  Payload(tasks[i])'.overlay = Live(d)'
      BY DEF TasksCurrent, LastOf
    <3>1. PICK t : t = tasks[i]
      OBVIOUS
    <3>2. Payload(t).overlay = Live(d) /\ t.side = d /\ tasks'[i] = t
      BY <1>11, <2>2, <3>1 DEF Follows, TasksCurrent, LastOf
    <3>3. Payload(t)' = Payload(t)
      BY <2>1, <3>2 DEF Payload
    <3> QED BY <2>1, <3>2, <3>3 DEF Payload
  <2>5. PostsCurrent(d)'
    BY <1>3, <1>11, <2>1, <2>3 DEF Follows, PostsCurrent, LastOf, NoneOf
  <2>6. Known(d)'
    BY <1>3, <1>7, <1>8, <1>11, <2>1 DEF Follows, Known, NoneOf
  <2>7. Settled(d)'
    <3>1. Quiet(d)' => Quiet(d)
      <4> SUFFICES ASSUME Quiet(d)', NEW i \in 1..Len(feed), feed[i].side = d
                   PROVE  Harmless(feed[i], d)
        BY DEF Quiet
      <4>1. i # 1
        BY <1>2, <1>3, <1>11
      <4>2. i - 1 \in 1..Len(feed') /\ feed'[i - 1] = feed[i]
        BY <1>3, <1>7, <1>9, <4>1
      <4> QED BY <2>1, <4>2 DEF Quiet, Harmless
    <3> QED BY <1>3, <1>11, <2>1, <2>3, <3>1 DEF Follows, Settled, NoneOf
  <2> QED BY <1>10, <1>11, <2>4, <2>5, <2>6, <2>7 DEF Follows
<1>12. ASSUME s \notin doubt' PROVE Follows(s)'
  <2>1. Follows(s)
    BY <1>4, <1>12 DEF FollowInv
  <2>2. (Silent(m, s) \/ Told(s)) /\ Learnt(s)
    BY <1>1, <1>2, <1>3, <1>12, OpenAnswers, CloseAnswers, PositionAnswers
  <2>3. Known(s)'
    <3> SUFFICES ASSUME NoneOf(left, s) PROVE Live(s)' = View(pos[s])
      BY <1>3, <1>7 DEF Known, NoneOf
    <3> QED BY <1>8, <2>1, <2>2 DEF Learnt, Follows
  <2>4. CASE Silent(m, s)
    <3>1. Live(s)' = Live(s) /\ tasks' = tasks
      BY <2>4 DEF Silent
    <3>2. TasksCurrent(s)'
      <4> SUFFICES ASSUME NEW i \in 1..Len(tasks), LastOf(tasks, s, i)
                   PROVE  Payload(tasks[i])'.overlay = Live(s)'
        BY <3>1 DEF TasksCurrent, LastOf
      <4>1. PICK t \in Notice : t = tasks[i]
        BY <1>3
      <4>2. t.side = s /\ Recorded(t) /\ Payload(t).overlay = Live(s)
        BY <2>1, <4>1 DEF Follows, TasksCurrent, LastOf, StateInv, NoticesRecorded
      <4>3. Payload(t)' = Payload(t)
        BY <2>4, <4>2 DEF Silent
      <4> QED BY <3>1, <4>1, <4>2, <4>3 DEF Payload
    <3>3. PostsCurrent(s)'
      BY <1>3, <2>1, <3>1 DEF Follows, PostsCurrent, LastOf, NoneOf
    <3>4. Settled(s)'
      <4>1. Quiet(s)' => Quiet(s)
        <5> SUFFICES ASSUME Quiet(s)' PROVE Quiet(s)
          OBVIOUS
        <5>1. \A i \in 2..Len(feed) : feed[i].side = s => Harmless(feed[i], s)
          <6> SUFFICES ASSUME NEW i \in 2..Len(feed), feed[i].side = s PROVE Harmless(feed[i], s)
            OBVIOUS
          <6>1. i \in 1..Len(feed) /\ i # 1
            OBVIOUS
          <6>2. i - 1 \in 1..Len(feed') /\ feed'[i - 1] = feed[i]
            BY <1>3, <1>7, <1>9, <6>1
          <6> QED BY <3>1, <6>2 DEF Quiet, Harmless
        <5>2. Harmless(m, s)
          BY <2>4, <5>1 DEF Silent
        <5>3. \A i \in 1..Len(feed) : i = 1 \/ i \in 2..Len(feed)
          BY <1>9
        <5> QED BY <1>3, <5>1, <5>2, <5>3 DEF Quiet
      <4> QED BY <1>3, <2>1, <3>1, <4>1 DEF Follows, Settled, NoneOf
    <3> QED BY <1>10, <2>1, <2>3, <3>2, <3>3, <3>4 DEF Follows
  <2>5. CASE Told(s)
    <3>1. PICK n \in Notice : /\ tasks' = Append(tasks, n) /\ n.side = s
                              /\ Payload(n)'.overlay = Live(s)'
      BY <2>5 DEF Told
    <3>2. PICK a : a = Append(tasks, n)
      OBVIOUS
    <3>3. /\ \A i \in 1..Len(a) : LastOf(a, s, i) => a[i] = n
          /\ ~NoneOf(a, s)
      <4>1. /\ \A i \in 1..Len(Append(tasks, n)) :
                 LastOf(Append(tasks, n), s, i) =>
                   \/ n.side = s /\ Append(tasks, n)[i] = n
                   \/ n.side # s /\ LastOf(tasks, s, i) /\ i \in 1..Len(tasks)
                      /\ Append(tasks, n)[i] = tasks[i]
            /\ NoneOf(Append(tasks, n), s) => NoneOf(tasks, s) /\ n.side # s
        <5>1. tasks \in Seq(Notice)
          BY <1>3
        <5> QED BY <5>1, LastAppend
      <4> QED BY <3>1, <3>2, <4>1
    <3>4. TasksCurrent(s)'
      <4> SUFFICES ASSUME NEW i \in 1..Len(a), LastOf(a, s, i)
                   PROVE  Payload(a[i])'.overlay = Live(s)'
        BY <3>1, <3>2 DEF TasksCurrent, LastOf, Payload
      <4>1. a[i] = n
        BY <3>3
      <4> QED BY <3>1, <4>1 DEF Payload
    <3>5. ~NoneOf(tasks, s)'
      BY <3>1, <3>2, <3>3 DEF NoneOf
    <3>6. PostsCurrent(s)' /\ Settled(s)'
      BY <3>5 DEF PostsCurrent, Settled
    <3> QED BY <1>10, <2>1, <2>3, <3>4, <3>6 DEF Follows
  <2> QED BY <2>2, <2>4, <2>5
<1>13. Readings'
  BY <1>3 DEF FollowInv, Readings
<1> QED BY <1>4, <1>11, <1>12, <1>13 DEF FollowInv

(* A task starts: its notice is the last one of its side, or another task  *)
(* of the side is left.                                                    *)
LEMMA StartFollows ==
  ASSUME StateInv, FollowInv, StartNotice
  PROVE  FollowInv'
<1>1. PICK t : t = Head(tasks)
  OBVIOUS
<1>2. PICK e : e = Payload(t)
  OBVIOUS
<1>3. /\ tasks \in Seq(Notice) /\ tasks # <<>> /\ tasks' = Tail(tasks)
      /\ posts \in Seq(Post) /\ posts' = Append(posts, e)
      /\ t = tasks[1] /\ 1 \in 1..Len(tasks)
      /\ e \in Post /\ e.side = t.side
      /\ UNCHANGED <<pos, feed, record, overlay, req, doubt>>
  BY <1>1, <1>2, StartFacts DEF exchangeVars
<1>4. /\ \A s : Live(s)' = Live(s)
      /\ \A u : Payload(u)' = Payload(u)
  BY <1>3, RecordKept
<1>5. PICK left : left = Tail(tasks)
  OBVIOUS
<1>6. PICK sent : sent = Append(posts, e)
  OBVIOUS
<1>7. ASSUME NEW s
      PROVE  /\ \A i \in 1..Len(left) :
                  LastOf(left, s, i) =>
                    LastOf(tasks, s, i + 1) /\ i + 1 \in 1..Len(tasks) /\ left[i] = tasks[i + 1]
             /\ NoneOf(left, s) /\ t.side = s => LastOf(tasks, s, 1)
             /\ NoneOf(left, s) /\ t.side # s => NoneOf(tasks, s)
  BY <1>3, <1>5, LastTail
<1>8. ASSUME NEW s
      PROVE  /\ \A i \in 1..Len(sent) :
                  LastOf(sent, s, i) =>
                    \/ e.side = s /\ sent[i] = e
                    \/ e.side # s /\ LastOf(posts, s, i) /\ i \in 1..Len(posts) /\ sent[i] = posts[i]
             /\ NoneOf(sent, s) => NoneOf(posts, s) /\ e.side # s
  <2>1. /\ \A i \in 1..Len(Append(posts, e)) :
             LastOf(Append(posts, e), s, i) =>
               \/ e.side = s /\ Append(posts, e)[i] = e
               \/ e.side # s /\ LastOf(posts, s, i) /\ i \in 1..Len(posts) /\ Append(posts, e)[i] = posts[i]
        /\ NoneOf(Append(posts, e), s) => NoneOf(posts, s) /\ e.side # s
    <3>1. posts \in Seq(Post) /\ e \in Post
      BY <1>3
    <3> QED BY <3>1, LastAppend
  <2> QED BY <1>6, <2>1
<1>9. ASSUME NEW s \in Sides \ doubt PROVE Follows(s)'
  <2>1. Follows(s)
    BY <1>9 DEF FollowInv
  <2>2. TasksCurrent(s)'
    <3> SUFFICES ASSUME NEW i \in 1..Len(left), LastOf(left, s, i)
                 PROVE  Payload(left[i]).overlay = Live(s)
      BY <1>3, <1>4, <1>5 DEF TasksCurrent, LastOf
    <3>1. LastOf(tasks, s, i + 1) /\ i + 1 \in 1..Len(tasks) /\ left[i] = tasks[i + 1]
      BY <1>7
    <3> QED BY <2>1, <3>1 DEF Follows, TasksCurrent
  <2>3. PostsCurrent(s)'
    <3> SUFFICES ASSUME NoneOf(left, s), NEW i \in 1..Len(sent), LastOf(sent, s, i)
                 PROVE  sent[i].overlay = Live(s)
      BY <1>3, <1>4, <1>5, <1>6 DEF PostsCurrent, LastOf, NoneOf
    <3>1. CASE e.side = s /\ sent[i] = e
      <4>1. LastOf(tasks, s, 1)
        BY <1>3, <1>7, <3>1
      <4>2. Payload(tasks[1]).overlay = Live(s)
        BY <1>3, <2>1, <4>1 DEF Follows, TasksCurrent
      <4> QED BY <1>2, <1>3, <3>1, <4>2
    <3>2. CASE e.side # s /\ LastOf(posts, s, i) /\ i \in 1..Len(posts) /\ sent[i] = posts[i]
      <4>1. NoneOf(tasks, s)
        BY <1>3, <1>7, <3>2
      <4> QED BY <2>1, <3>2, <4>1 DEF Follows, PostsCurrent
    <3> QED BY <1>8, <3>1, <3>2
  <2>4. Reported(s)' /\ Known(s)'
    BY <1>3, <1>4, <2>1 DEF Follows, Reported, Known, LastOf, NoneOf
  <2>5. Settled(s)'
    <3>1. Quiet(s)' <=> Quiet(s)
      BY <1>3, <1>4 DEF Quiet, Harmless
    <3>2. NoneOf(tasks', s) /\ NoneOf(posts', s) => NoneOf(tasks, s) /\ NoneOf(posts, s)
      BY <1>3, <1>5, <1>6, <1>7, <1>8
    <3> QED BY <1>3, <1>4, <2>1, <3>1, <3>2 DEF Follows, Settled, NoneOf
  <2> QED BY <2>2, <2>3, <2>4, <2>5 DEF Follows
<1>10. Readings'
  BY <1>3 DEF FollowInv, Readings
<1> QED BY <1>3, <1>9, <1>10 DEF FollowInv

(***************************************************************************)
(* The API.                                                                *)
(***************************************************************************)

(* A notice arrives in its turn, or its side is in doubt from now on.      *)
LEMMA NoticesFollow ==
  ASSUME StateInv, FollowInv, Notices
  PROVE  FollowInv'
<1>1. PICK i \in 1..Len(posts) : NoticeArrives(i) \/ NoticeFails(i)
  BY DEF Notices
<1>2. PICK s \in Sides : s = posts[i].side
  BY <1>1, NoticeFacts
<1>3. PICK left : left = RemoveAt(posts, i)
  OBVIOUS
<1>4. /\ posts' = left /\ posts \in Seq(Post)
      /\ UNCHANGED <<pos, feed, record, tasks, req>>
  BY <1>1, <1>3, NoticeFacts DEF StateInv, StateOK
<1>5. /\ \A d \in Sides : d # s => overlay'[d] = overlay[d]
      /\ s \in doubt' \/ (overlay'[s] = posts[i].overlay /\ \A j \in 1..(i - 1) : posts[j].side # s)
      /\ doubt \subseteq doubt'
  <2>1. overlay \in [Sides -> Overlay \cup {None}]
    BY DEF StateInv, StateOK, Map
  <2>2. CASE NoticeArrives(i)
    BY <1>2, <2>1, <2>2 DEF NoticeArrives, Put, Doubted
  <2>3. CASE NoticeFails(i)
    BY <1>2, <2>3 DEF NoticeFails, Doubted, apiVars
  <2> QED BY <1>1, <2>2, <2>3
<1>6. /\ \A d : Live(d)' = Live(d)
      /\ \A u : Payload(u)' = Payload(u)
  BY <1>4, RecordKept
<1>7. ASSUME NEW d \in Sides \ doubt' PROVE Follows(d)'
  <2>1. Follows(d)
    BY <1>5, <1>7 DEF FollowInv
  <2>2. TasksCurrent(d)'
    BY <1>4, <1>6, <2>1 DEF Follows, TasksCurrent, LastOf
  <2>3. posts[i].side # d \/ \A j \in 1..(i - 1) : posts[j].side # d
    BY <1>2, <1>5, <1>7
  <2>4. /\ \A j \in 1..Len(left) :
             LastOf(left, d, j) => \E k \in 1..Len(posts) : LastOf(posts, d, k) /\ left[j] = posts[k]
        /\ NoneOf(left, d) /\ posts[i].side = d => LastOf(posts, d, i)
        /\ NoneOf(left, d) /\ posts[i].side # d => NoneOf(posts, d)
    BY <1>3, <1>4, <2>3, LastRemove
  <2>5. PostsCurrent(d)'
    <3> SUFFICES ASSUME NoneOf(tasks, d), NEW j \in 1..Len(left), LastOf(left, d, j)
                 PROVE  left[j].overlay = Live(d)
      BY <1>4, <1>6 DEF PostsCurrent, LastOf, NoneOf
    <3>1. PICK k \in 1..Len(posts) : LastOf(posts, d, k) /\ left[j] = posts[k]
      BY <2>4
    <3> QED BY <2>1, <3>1 DEF Follows, PostsCurrent
  <2>6. Reported(d)' /\ Known(d)'
    BY <1>4, <1>6, <2>1 DEF Follows, Reported, Known, LastOf, NoneOf
  <2>7. Settled(d)'
    <3>1. Quiet(d)' <=> Quiet(d)
      BY <1>4, <1>6 DEF Quiet, Harmless
    <3> SUFFICES ASSUME NoneOf(tasks, d), NoneOf(left, d), Quiet(d)
                 PROVE  overlay'[d] = Live(d)
      BY <1>4, <1>6, <3>1 DEF Settled, NoneOf
    <3>2. CASE d = s
      <4>1. LastOf(posts, d, i)
        BY <1>2, <2>4, <3>2
      <4>2. posts[i].overlay = Live(d)
        BY <2>1, <4>1 DEF Follows, PostsCurrent
      <4> QED BY <1>5, <1>7, <3>2, <4>2
    <3>3. CASE d # s
      <4>1. NoneOf(posts, d)
        BY <1>2, <2>4, <3>3
      <4> QED BY <1>5, <2>1, <3>3, <4>1 DEF Follows, Settled
    <3> QED BY <3>2, <3>3
  <2> QED BY <2>2, <2>5, <2>6, <2>7 DEF Follows
<1>8. Readings'
  BY <1>4 DEF FollowInv, Readings
<1> QED BY <1>7, <1>8 DEF FollowInv

(* A request goes on: nothing is said of a snapshot that is being written. *)
LEMMA ReadingsKept ==
  ASSUME StateInv, Readings, NEW r \in Requests, NEW q, req' = [req EXCEPT ![r] = q],
         q # None /\ q.at = "write" /\ q.ok => q.answer = q.read
  PROVE  Readings'
<1>1. req'[r] = q /\ \A o \in Requests : o # r => req'[o] = req[o]
  BY DEF StateInv, StateOK
<1> QED BY <1>1 DEF Readings

(* What changes neither the overlays nor what they follow.                 *)
LEMMA RequestFollows ==
  ASSUME StateInv, FollowInv, NEW r \in Requests,
         \/ AskSnapshot(r) \/ \E s \in Sides, level \in Levels : AskEdit(r, s, level)
         \/ ExchangeLists(r) \/ ListFails(r) \/ CheckPosition(r) \/ SetAnswerLost(r)
  PROVE  FollowInv'
<1>1. UNCHANGED <<pos, feed, record, tasks, posts, overlay, doubt>>
  BY DEF AskSnapshot, AskEdit, Ask, ExchangeLists, ListFails, CheckPosition, SetAnswerLost,
         exchangeVars, botVars
<1>2. Readings
  BY DEF FollowInv
<1>3. ASSUME NEW q, req' = [req EXCEPT ![r] = q], q # None => q.at # "write" PROVE Readings'
  BY <1>2, <1>3, ReadingsKept
<1>4. ASSUME NEW q, Ask(r, q), q.at # "write" PROVE Readings'
  BY <1>3, <1>4 DEF Ask
<1>5. ASSUME AskSnapshot(r) PROVE Readings'
  <2>1. PICK q \in Snapshot : q.at = "list" /\ Ask(r, q)
    BY <1>5, SnapshotBegins
  <2> QED BY <1>4, <2>1
<1>6. ASSUME NEW s \in Sides, NEW level \in Levels, AskEdit(r, s, level) PROVE Readings'
  <2>1. PICK q \in Edit : q.at = "check" /\ Ask(r, q)
    BY <1>6, EditBegins
  <2> QED BY <1>4, <2>1
<1>7. ASSUME ExchangeLists(r) \/ ListFails(r) PROVE Readings'
  <2>1. PICK q \in Snapshot : q.at = "build" /\ req' = [req EXCEPT ![r] = q]
    BY <1>7, ListFacts
  <2> QED BY <1>3, <2>1
<1>8. ASSUME CheckPosition(r) \/ SetAnswerLost(r) PROVE Readings'
  <2>1. PICK q \in {None} \cup Edit : (q # None => q.at = "set") /\ req' = [req EXCEPT ![r] = q]
    BY <1>8, CheckFacts
  <2> QED BY <1>3, <2>1
<1>9. Readings'
  BY <1>5, <1>6, <1>7, <1>8
<1> QED BY <1>1, <1>9, StillFollows

(* The API moves the take profit on the exchange.                          *)
LEMMA SetFollows ==
  ASSUME StateInv, FollowInv, NEW r \in Requests, SetTakeProfit(r)
  PROVE  FollowInv'
<1>1. UNCHANGED <<record, tasks, posts, overlay, doubt>> /\ Readings
  BY SetFacts DEF FollowInv
<1>2. CASE req' = [req EXCEPT ![r] = None] /\ UNCHANGED <<pos, feed>>
  BY <1>1, <1>2, ReadingsKept, StillFollows
<1>3. ASSUME NEW s \in Sides, NEW p \in Position, NEW q \in Edit,
             Becomes(s, p, <<Message("Position", s, Manual, 0, p)>>),
             req' = [req EXCEPT ![r] = q], q.at = "patch"
      PROVE  FollowInv'
  <2>1. Readings'
    BY <1>1, <1>3, ReadingsKept
  <2> QED BY <1>1, <1>3, <2>1, ReportFollows
<1> QED BY <1>2, <1>3, SetFacts

(* One side of a snapshot is written: it is out of doubt only when what    *)
(* was read is still the position, the bot knows it and nothing of the     *)
(* side is on its way.                                                     *)
LEMMA WriteFollows ==
  ASSUME StateInv, FollowInv, NEW r \in Requests, WriteSnapshot(r)
  PROVE  FollowInv'
<1>1. PICK q \in Snapshot, s \in Sides, w \in {None} \cup Snapshot : Writing(r, q, s, w)
  BY WriteFacts
<1>2. /\ UNCHANGED <<pos, feed, record, tasks, posts>>
      /\ overlay \in [Sides -> Overlay \cup {None}]
  BY DEF WriteSnapshot, exchangeVars, botVars, StateInv, StateOK, Map
<1>3. /\ overlay' = [overlay EXCEPT ![s] = q.answer[s]]
      /\ doubt' = IF ~q.ok \/ q.read[s] # View(pos[s]) THEN doubt \cup {s}
                  ELSE IF Pending(s) \/ ~Knows(s) THEN doubt ELSE doubt \ {s}
  BY <1>1 DEF Writing, WriteSide, Put
<1>4. q.ok => q.answer = q.read
  <2>1. CASE req[r].at = "build"
    <3>1. PICK built : built = Built(req[r])
      OBVIOUS
    <3>2. req[r] \in Snapshot /\ q = [req[r] EXCEPT !.at = "write", !.answer = built]
      BY <1>1, <2>1, <3>1 DEF Writing
    <3>3. q.ok = req[r].ok /\ q.read = req[r].read /\ q.answer = built
      BY <3>2 DEF Snapshot
    <3>4. req[r].read \in [Sides -> Overlay \cup {None}]
      BY <3>2 DEF Snapshot, Map
    <3>5. req[r].ok => built = [d \in Sides |-> req[r].read[d]]
      BY <3>1 DEF Built
    <3> QED BY <3>3, <3>4, <3>5
  <2>2. CASE req[r].at = "write"
    BY <1>1, <2>2 DEF Writing, FollowInv, Readings
  <2> QED BY <1>1, <2>1, <2>2 DEF Writing
<1>5. Readings'
  <2>1. req' = [req EXCEPT ![r] = w]
    BY <1>1 DEF Writing
  <2>2. w # None /\ w.ok => w.answer = w.read
    BY <1>1, <1>4 DEF Writing
  <2> QED BY <2>1, <2>2, ReadingsKept DEF FollowInv
<1>6. \A d \in Sides : d # s => overlay'[d] = overlay[d]
  BY <1>2, <1>3
<1>7. ASSUME NEW d \in Sides \ doubt', d # s PROVE Follows(d)'
  <2>1. d \notin doubt
    BY <1>3, <1>7
  <2> QED BY <1>2, <1>6, <1>7, <2>1, SideKept DEF FollowInv
<1>8. ASSUME s \notin doubt' PROVE Follows(s)'
  <2>1. q.ok /\ q.read[s] = View(pos[s])
    BY <1>3, <1>8
  <2>2. overlay'[s] = View(pos[s])
    BY <1>2, <1>3, <1>4, <2>1
  <2>3. /\ \A d : Live(d)' = Live(d)
        /\ \A u : Payload(u)' = Payload(u)
    BY <1>2, RecordKept
  <2>4. Quiet(s)' <=> Quiet(s)
    BY <1>2, <2>3 DEF Quiet, Harmless
  <2>5. CASE s \notin doubt
    <3>1. Follows(s)
      BY <2>5 DEF FollowInv
    <3>2. /\ TasksCurrent(s)' /\ PostsCurrent(s)' /\ Reported(s)' /\ Known(s)'
      BY <1>2, <2>3, <3>1
         DEF Follows, TasksCurrent, PostsCurrent, Reported, Known, LastOf, NoneOf
    <3>3. Quiet(s) => Live(s) = View(pos[s])
      BY <3>1, QuietKnown DEF Follows
    <3>4. Settled(s)'
      BY <2>2, <2>3, <2>4, <3>3 DEF Settled
    <3> QED BY <3>2, <3>4 DEF Follows
  <2>6. CASE s \in doubt
    <3>1. ~Pending(s) /\ Live(s) = View(pos[s])
      BY <1>3, <1>8, <2>1, <2>6 DEF Knows
    <3>2. NoneOf(feed, s) /\ NoneOf(tasks, s) /\ NoneOf(posts, s)
      BY <3>1 DEF Pending, NoneOf
    <3>3. TasksCurrent(s)' /\ PostsCurrent(s)' /\ Reported(s)'
      BY <1>2, <3>2 DEF TasksCurrent, PostsCurrent, Reported, LastOf, NoneOf
    <3>4. Known(s)' /\ Settled(s)'
      BY <1>2, <2>2, <2>3, <3>1 DEF Known, Settled
    <3> QED BY <3>3, <3>4 DEF Follows
  <2> QED BY <2>5, <2>6
<1> QED BY <1>5, <1>7, <1>8 DEF FollowInv

(* The overlay gets the level that was set: it has it already, or the side *)
(* is in doubt.                                                            *)
LEMMA PatchFollows ==
  ASSUME StateInv, FollowInv, NEW r \in Requests, Patch(r)
  PROVE  FollowInv'
<1>1. UNCHANGED <<pos, feed, record, tasks, posts>> /\ req' = [req EXCEPT ![r] = None]
  BY PatchFacts
<1>2. Readings'
  BY <1>1, ReadingsKept DEF FollowInv
<1>3. CASE UNCHANGED <<overlay, doubt>>
  BY <1>1, <1>2, <1>3, StillFollows
<1>4. ASSUME NEW s \in Sides, NEW t \in Levels, NEW o \in Overlay,
             overlay[s] \in Overlay, o = [overlay[s] EXCEPT !.tp = t],
             overlay' = [overlay EXCEPT ![s] = o],
             doubt' = IF pos[s] # None /\ pos[s].tp # t THEN doubt \cup {s} ELSE doubt
      PROVE  FollowInv'
  <2>0. overlay \in [Sides -> Overlay \cup {None}] /\ overlay[s] # None
    BY <1>4, NoneAssumption DEF StateInv, StateOK, Map
  <2>1. \A d \in Sides : d # s => overlay'[d] = overlay[d]
    BY <1>4, <2>0
  <2>2. ASSUME NEW d \in Sides \ doubt' PROVE Follows(d)'
    <3>1. Follows(d) /\ d \notin doubt
      BY <1>4, <2>2 DEF FollowInv
    <3>2. CASE d # s
      BY <1>1, <2>1, <3>1, <3>2, SideKept
    <3>3. CASE d = s
      <4>1. /\ \A e : Live(e)' = Live(e)
            /\ \A u : Payload(u)' = Payload(u)
        BY <1>1, RecordKept
      <4>2. /\ TasksCurrent(s)' /\ PostsCurrent(s)' /\ Reported(s)' /\ Known(s)'
        BY <1>1, <3>1, <3>3, <4>1
           DEF Follows, TasksCurrent, PostsCurrent, Reported, Known, LastOf, NoneOf
      <4>3. Quiet(s)' <=> Quiet(s)
        BY <1>1, <4>1 DEF Quiet, Harmless
      <4>4. overlay[s] = Live(s) /\ Quiet(s) => overlay'[s] = Live(s)
        <5> SUFFICES ASSUME overlay[s] = Live(s), Quiet(s) PROVE overlay'[s] = Live(s)
          OBVIOUS
        <5>1. overlay[s] = View(pos[s])
          BY <3>1, <3>3, QuietKnown DEF Follows
        <5>2. pos[s] # None
          BY <2>0, <5>1 DEF View
        <5>3. pos[s].tp = t
          BY <1>4, <2>2, <3>3, <5>2
        <5>4. overlay[s].tp = t
          BY <5>1, <5>2, <5>3 DEF View
        <5>5. o = overlay[s]
          BY <1>4, <5>4 DEF Overlay
        <5> QED BY <1>4, <2>0, <5>5
      <4>5. Settled(s)'
        BY <1>1, <3>1, <3>3, <4>1, <4>3, <4>4 DEF Follows, Settled, NoneOf
      <4> QED BY <3>3, <4>2, <4>5 DEF Follows
    <3> QED BY <3>2, <3>3
  <2> QED BY <1>2, <2>2 DEF FollowInv
<1> QED BY <1>3, <1>4, PatchFacts

(* A restart leaves everything it lost in doubt.                           *)
LEMMA RestartFollows ==
  ASSUME StateInv, FollowInv, ApiRestart \/ BotRestart
  PROVE  FollowInv'
<1>1. CASE ApiRestart
  BY <1>1 DEF ApiRestart, FollowInv, Readings
<1>2. CASE BotRestart
  <2>1. /\ feed' = <<>> /\ tasks' = <<>>
        /\ doubt' = doubt \cup {s \in Sides : \/ \E i \in 1..Len(feed) : feed[i].side = s
                                              \/ \E i \in 1..Len(tasks) : tasks[i].side = s}
        /\ UNCHANGED <<pos, record, posts, overlay, req>>
    BY <1>2 DEF BotRestart, exchangeVars, apiVars
  <2>2. \A s : Live(s)' = Live(s)
    BY <2>1, RecordKept
  <2>3. Readings'
    BY <2>1 DEF FollowInv, Readings
  <2>4. ASSUME NEW s \in Sides \ doubt' PROVE Follows(s)'
    <3>1. Follows(s) /\ NoneOf(feed, s) /\ NoneOf(tasks, s)
      BY <2>1, <2>4 DEF FollowInv, NoneOf
    <3>2. TasksCurrent(s)' /\ Reported(s)'
      BY <2>1 DEF TasksCurrent, Reported, LastOf
    <3>3. PostsCurrent(s)'
      BY <2>1, <2>2, <3>1 DEF Follows, PostsCurrent, LastOf
    <3>4. Known(s)'
      BY <2>1, <2>2, <3>1 DEF Follows, Known
    <3>5. Settled(s)'
      <4>1. Quiet(s)
        BY <3>1 DEF Quiet, NoneOf
      <4> QED BY <2>1, <2>2, <3>1, <4>1 DEF Follows, Settled, NoneOf
    <3> QED BY <3>2, <3>3, <3>4, <3>5 DEF Follows
  <2> QED BY <2>3, <2>4 DEF FollowInv
<1> QED BY <1>1, <1>2

(* Nothing is on its way and there is no position.                         *)
LEMMA FollowInit == Init => FollowInv
<1> SUFFICES ASSUME Init PROVE FollowInv
  OBVIOUS
<1>1. /\ feed = <<>> /\ tasks = <<>> /\ posts = <<>>
      /\ \A s \in Sides : pos[s] = None /\ overlay[s] = None /\ \A k \in Keys : record[s][k] = None
      /\ \A r \in Requests : req[r] = None
  BY DEF Init, Nowhere
<1>2. ASSUME NEW s \in Sides PROVE Follows(s)
  <2>1. Live(s) = None /\ View(pos[s]) = None /\ overlay[s] = None
    BY <1>1 DEF Live, OpenKeys, IsOpen, View
  <2> QED BY <1>1, <2>1
          DEF Follows, TasksCurrent, PostsCurrent, Reported, Known, Settled, LastOf
<1> QED BY <1>1, <1>2 DEF FollowInv, Readings

(* Every step keeps FollowInv.                                             *)
LEMMA FollowNext ==
  ASSUME StateInv, FollowInv, [Next]_vars
  PROVE  FollowInv'
<1>1. CASE UNCHANGED vars
  <2>1. UNCHANGED <<pos, feed, record, tasks, posts, overlay, doubt, req>>
    BY <1>1 DEF vars
  <2> QED BY <2>1, StillFollows DEF FollowInv, Readings
<1>2. ASSUME NEW r \in Requests,
             \/ Serve(r)
             \/ AskSnapshot(r)
             \/ \E s \in Sides, level \in Levels : AskEdit(r, s, level)
      PROVE  FollowInv'
  BY <1>2, RequestFollows, SetFollows, WriteFollows, PatchFollows DEF Serve
<1> QED BY <1>1, <1>2, ExchangeFollows, HandleFollows, StartFollows, NoticesFollow,
           RestartFollows DEF Next

(* Once nothing of a side is on its way, its overlay is the exchange's     *)
(* position, whatever requests are at work and however many records share  *)
(* it, unless the side is in doubt: notices, snapshots and edits put it    *)
(* right in any order.                                                     *)
THEOREM OverlayFollowsHolds == Spec => []OverlayFollows
<1>1. StateInv /\ FollowInv => OverlayFollows
  <2> SUFFICES ASSUME StateInv, FollowInv, NEW s \in Sides \ doubt, ~Pending(s)
               PROVE  overlay[s] = View(pos[s])
    BY DEF OverlayFollows
  <2>1. NoneOf(feed, s) /\ NoneOf(tasks, s) /\ NoneOf(posts, s)
    BY DEF Pending, NoneOf
  <2>2. Follows(s) /\ Quiet(s)
    BY <2>1 DEF FollowInv, Quiet, NoneOf
  <2> QED BY <2>1, <2>2 DEF Follows, Settled, Known
<1> QED BY <1>1, FollowInit, FollowNext, StateHolds, PTL DEF Spec
=============================================================================
