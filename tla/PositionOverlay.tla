--------------------------- MODULE PositionOverlay ---------------------------
(***************************************************************************)
(* The overlay of an open position on the chart: entry, take profit and    *)
(* stop loss.  The exchange, the bot and the API keep a copy each:         *)
(*                                                                         *)
(*   - the bot keeps a record per zone order and one for all manual        *)
(*     entries of a side, which follow the exchange's private stream, and  *)
(*     tells the API by HTTP notices, each a task of its own posted from a *)
(*     thread (backend/core/notifications/position_overlay_notify.py);     *)
(*   - the API keeps the overlays in memory                                *)
(*     (backend/app/api/ws/position_overlay.py), rebuilds them from the    *)
(*     exchange on request and edits the take profit on the exchange       *)
(*     (backend/app/api/router.py), over several awaits each.              *)
(*                                                                         *)
(* The exchange holds one position per side, the bot may hold several open *)
(* records of it, and they share one overlay, pos:SYMBOL:SIDE.  What the   *)
(* browsers are sent is OverlayFanout's.                                   *)
(*                                                                         *)
(* A price of entry is named by the first entry after which the exchange   *)
(* gives it as the average; any other price is 0.  A fill is at the price  *)
(* the position has or at one that changes the average by more than the    *)
(* 0.05 % the bot ignores.  An order has one fill here.                    *)
(* The stop loss goes the way of the take profit and is left out.          *)
(***************************************************************************)
EXTENDS Integers, Sequences, SequencesExt

CONSTANTS
  Sides,          \* LONG, SHORT: one position and one overlay each
  Zones,          \* orderLinkIds of zone entries, one order each
  Manual,         \* the key all manual entries of a side share
  Levels,         \* prices of a take profit
  Requests,       \* requests the API can be working on at once
  None,           \* no position, no record, no overlay, no request
  PositionFirst,  \* a position may be reported before the fill that led to it
  MaxQty,         \* bound: quantity of one entry
  MaxChanges,     \* bound: changes of a position on the exchange
  MaxRequests,    \* bound: requests ever made
  MaxFaults       \* bound: failed notices and calls, restarts

ASSUME OverlayAssumption ==
  /\ Manual \notin Zones
  /\ Levels \subseteq Nat \ {0}
  /\ PositionFirst \in BOOLEAN
  /\ {MaxQty, MaxChanges, MaxRequests, MaxFaults} \subseteq Nat

Keys == Zones \cup {Manual}

VARIABLES
  pos,       \* the exchange: each side's position, or None
  entries,   \* the exchange: entries filled so far
  ordered,   \* the exchange: zone orders it has filled
  changes,   \* the exchange: changes so far
  feed,      \* messages of the private stream on their way to the bot
  record,    \* the bot: execution_data_store, per side and key
  tasks,     \* the bot: notices whose task has not started
  posts,     \* notices on their way to the API, in the order they were sent
  overlay,   \* the API: _POSITION_OVERLAY_STATE
  req,       \* the API: the requests it is working on
  asked,     \* requests so far
  faults,    \* faults so far
  doubt      \* history: sides whose overlay was touched out of turn

exchangeVars == <<pos, entries, ordered, changes>>
botVars      == <<record, tasks>>
apiVars      == <<overlay, req, asked>>
vars == <<pos, entries, ordered, changes, feed, record, tasks, posts, overlay, req,
          asked, faults, doubt>>

-----------------------------------------------------------------------------
Prices == Levels \cup {0}

Position == [entry : 1..MaxChanges, size : Nat \ {0}, tp : Prices]

Record ==
  [time : 1..MaxChanges, entry : 0..MaxChanges, size : Nat, total : Nat, out : Nat,
   tp : Prices, closed : BOOLEAN]

Overlay == [entry : 0..MaxChanges, tp : Prices, closed : BOOLEAN]

ASSUME NoneAssumption == None \notin Position \cup Record \cup Overlay

(* What an overlay should say of a position.                               *)
View(p) == IF p = None THEN None ELSE [entry |-> p.entry, tp |-> p.tp, closed |-> FALSE]

Nowhere == [s \in Sides |-> None]

Fault ==
  /\ faults < MaxFaults
  /\ faults' = faults + 1

Init ==
  /\ pos = Nowhere
  /\ entries = 0
  /\ ordered = {}
  /\ changes = 0
  /\ feed = <<>>
  /\ record = [s \in Sides |-> [k \in Keys |-> None]]
  /\ tasks = <<>>
  /\ posts = <<>>
  /\ overlay = Nowhere
  /\ req = [r \in Requests |-> None]
  /\ asked = 0
  /\ faults = 0
  /\ doubt = {}

-----------------------------------------------------------------------------
(***************************************************************************)
(* The exchange: entries, closes of all or part of the position and moves  *)
(* of its take profit.  A fill and the position it leads to are reported   *)
(* on two topics.                                                          *)
(***************************************************************************)
Message(kind, s, k, n, p) ==
  [kind |-> kind, side |-> s, key |-> k, qty |-> n, time |-> entries + 1, was |-> pos[s],
   now |-> p]

Becomes(s, p, messages) ==
  /\ pos' = [pos EXCEPT ![s] = p]
  /\ feed' = feed \o messages

(* A report that overtakes a fill of a position held before and after it
   has the bot count the fill twice.                                       *)
Change(s, p, fill) ==
  LET report == Message("Position", s, Manual, 0, p) IN
    /\ changes < MaxChanges
    /\ changes' = changes + 1
    /\ \/ Becomes(s, p, <<fill, report>>) /\ UNCHANGED doubt
       \/ /\ PositionFirst
          /\ Becomes(s, p, <<report, fill>>)
          /\ doubt' = IF pos[s] # None /\ p # None THEN doubt \cup {s} ELSE doubt
    /\ UNCHANGED <<botVars, posts, apiVars, faults>>

Grown(s, n, average) ==
  IF pos[s] = None THEN [entry |-> average, size |-> n, tp |-> 0]
  ELSE [pos[s] EXCEPT !.entry = average, !.size = @ + n]

Averages(s) == {entries + 1} \cup (IF pos[s] = None THEN {} ELSE {pos[s].entry})

Enter(s, k, n) ==
  /\ entries' = entries + 1
  /\ \E average \in Averages(s) :
       Change(s, Grown(s, n, average), Message("Open", s, k, n, Grown(s, n, average)))

(* place_order(): the bot enters only while the side is flat.              *)
EnterZone(s, z, n) ==
  /\ z \notin ordered
  /\ pos[s] = None
  /\ ordered' = ordered \cup {z}
  /\ Enter(s, z, n)

EnterManually(s, n) == Enter(s, Manual, n) /\ UNCHANGED ordered

Shrunk(s, n) == IF n = pos[s].size THEN None ELSE [pos[s] EXCEPT !.size = @ - n]

(* The stop loss is set in mode Full: it closes the whole position.        *)
Reduce(s, kind, n) ==
  /\ pos[s] # None
  /\ n \in 1..pos[s].size
  /\ kind = "StopLoss" => n = pos[s].size
  /\ Change(s, Shrunk(s, n), Message(kind, s, Manual, n, Shrunk(s, n)))
  /\ UNCHANGED <<entries, ordered>>

Moved(s, level) == [pos[s] EXCEPT !.tp = level]

MoveTakeProfit(s, level) ==
  /\ pos[s] # None
  /\ pos[s].tp # level
  /\ changes < MaxChanges
  /\ changes' = changes + 1
  /\ Becomes(s, Moved(s, level), <<Message("Position", s, Manual, 0, Moved(s, level))>>)
  /\ UNCHANGED <<entries, ordered, botVars, posts, apiVars, faults, doubt>>

-----------------------------------------------------------------------------
(***************************************************************************)
(* The bot's records.                                                      *)
(***************************************************************************)
IsOpen(s, k) == record[s][k] # None /\ ~record[s][k].closed

OpenKeys(s) == {k \in Keys : IsOpen(s, k)}

(* resolve_position_key_for_close(): closing orders carry keys of their own. *)
Newests(s) ==
  {k \in OpenKeys(s) : \A j \in OpenKeys(s) : record[s][j].time <= record[s][k].time}

Newest(s) == CHOOSE k \in Newests(s) : TRUE

(* resolve_open_position_key_for_update(): the manual record comes first.  *)
Target(s) == IF IsOpen(s, Manual) THEN Manual ELSE Newest(s)

(* What the bot takes the position of s for.                               *)
Live(s) ==
  IF OpenKeys(s) = {} THEN None
  ELSE [entry |-> record[s][Target(s)].entry, tp |-> record[s][Target(s)].tp,
        closed |-> FALSE]

(* Something that will yet change the overlay of s is on its way.          *)
Pending(s) ==
  \/ \E i \in 1..Len(feed) : feed[i].side = s
  \/ \E i \in 1..Len(tasks) : tasks[i].side = s
  \/ \E i \in 1..Len(posts) : posts[i].side = s

-----------------------------------------------------------------------------
(***************************************************************************)
(* The bot's handlers.  A handler changes a record and creates the task of *)
(* a notice; it does not wait for it.  The outside writes they make are    *)
(* ExecutionStore's.                                                       *)
(***************************************************************************)
Update(s, k, override) == [op |-> "update", side |-> s, key |-> k, tp |-> override]
Clear(s, k) == [op |-> "clear", side |-> s, key |-> k, tp |-> 0]

Handled(s, k, r, notices) ==
  /\ record' = [record EXCEPT ![s][k] = r]
  /\ tasks' = tasks \o notices

Skip == UNCHANGED <<botVars, doubt>>

Doubted(s, wrong) == doubt' = IF wrong THEN doubt \cup {s} ELSE doubt

(* A fill's own price is the position's average when the side was flat or
   the average has not changed.  The weighted average of a further one is,
   when the record knew the position.                                      *)
SamePrice(m) == m.was # None /\ m.was.entry = m.now.entry

OwnPrice(m) == IF m.was = None \/ SamePrice(m) THEN m.now.entry ELSE 0

Weighted(r, m) ==
  IF m.was # None /\ r.entry = m.was.entry /\ (SamePrice(m) \/ r.total = m.was.size)
    THEN m.now.entry ELSE 0

(* A further entry tells the API nothing.  A new record is told of; but
   there should be no other when a zone enters.                            *)
HandleOpen(m) ==
  LET s == m.side
      k == m.key
      r == record[s][k]
  IN /\ m.kind = "Open"
     /\ IF IsOpen(s, k)
          THEN /\ Handled(s, k, [r EXCEPT !.entry = Weighted(r, m), !.size = @ + m.qty,
                                          !.total = @ + m.qty], <<>>)
               /\ Doubted(s, TRUE)
          ELSE /\ Handled(s, k, [time |-> m.time, entry |-> OwnPrice(m), size |-> m.qty,
                                 total |-> m.qty, out |-> 0, tp |-> 0, closed |-> FALSE],
                          <<Update(s, k, 0)>>)
               /\ Doubted(s, k # Manual /\ OpenKeys(s) # {})

Least(a, b) == IF a < b THEN a ELSE b

\* Mutant: a size may go below zero.
NotClamped(n) == n

AtLeastZero(n) == IF n > 0 THEN n ELSE 0

(* A market close deducts the fill from the smaller of two sizes; a take
   profit is booked first, in the place of the fills of its second; a stop
   loss closes the record whatever its size.                               *)
Closed(r, m, kept) ==
  LET booked == kept + m.qty
      left   == CASE m.kind = "Close"      -> Least(r.size, AtLeastZero(r.total - r.out)) - m.qty
                  [] m.kind = "TakeProfit" -> Least(r.size, AtLeastZero(r.total - booked))
                  [] m.kind = "StopLoss"   -> 0
  IN [r EXCEPT !.size = IF m.kind = "StopLoss" THEN @ ELSE AtLeastZero(left),
               !.out = booked, !.closed = (left <= 0)]

(* A close without an open record is dropped.  The overlay of the side is
   cleared with the record: wrongly while the position or another record is
   left, and it stays wrongly when the record outlives the position.  (A
   record is closed once, so overlay_cleared is never found set.)          *)
HandleClose(m) ==
  LET s == m.side
      k == Newest(s)
      r == record[s][k]
  IN /\ m.kind \in {"Close", "TakeProfit", "StopLoss"}
     /\ IF OpenKeys(s) = {} THEN Skip
        ELSE \E kept \in {0, r.out} :
               LET c == Closed(r, m, kept) IN
                 /\ Handled(s, k, c, IF c.closed THEN <<Clear(s, k)>> ELSE <<>>)
                 /\ Doubted(s, IF c.closed THEN m.now # None \/ OpenKeys(s) # {k}
                               ELSE m.now = None)

(* The fill that led to a position is still on the stream.                 *)
Overtook(s, p) ==
  \E i \in 2..Len(feed) :
    /\ feed[i].side = s
    /\ IF p = None THEN feed[i].kind # "Position" /\ feed[i].now = None
       ELSE feed[i].kind = "Open"

(* handle_position_message(): size 0 and a side without a record are
   skipped, which is right only if a fill will follow; only a change is
   passed on, and a take profit of 0 is no override.                       *)
HandlePosition(m) ==
  LET s == m.side
      k == Target(s)
      r == record[s][k]
  IN /\ m.kind = "Position"
     /\ IF m.now = None \/ OpenKeys(s) = {}
          THEN /\ UNCHANGED botVars
               /\ Doubted(s, ~(m.now = None /\ OpenKeys(s) = {}) /\ ~Overtook(s, m.now))
        ELSE IF r.size = m.now.size /\ r.entry = m.now.entry /\ r.tp = m.now.tp
          THEN Skip
        ELSE /\ Handled(s, k, [r EXCEPT !.size = m.now.size, !.entry = m.now.entry,
                                        !.tp = m.now.tp], <<Update(s, k, m.now.tp)>>)
             /\ UNCHANGED doubt

Handle ==
  /\ feed # <<>>
  /\ feed' = Tail(feed)
  /\ LET m == Head(feed) IN HandleOpen(m) \/ HandleClose(m) \/ HandlePosition(m)
  /\ UNCHANGED <<exchangeVars, posts, apiVars, faults>>

(***************************************************************************)
(* The task starts: build_position_overlay_from_store() reads the record   *)
(* under its key as it is now, and a thread posts the notice.              *)
(***************************************************************************)
Payload(t) ==
  LET r == record[t.side][t.key] IN
    [side |-> t.side,
     overlay |-> IF t.op = "clear" THEN None
                 ELSE [entry |-> r.entry, tp |-> IF t.tp # 0 THEN t.tp ELSE r.tp,
                       closed |-> r.closed]]

StartNotice ==
  /\ tasks # <<>>
  /\ tasks' = Tail(tasks)
  /\ posts' = Append(posts, Payload(Head(tasks)))
  /\ UNCHANGED <<exchangeVars, feed, record, apiVars, faults, doubt>>

-----------------------------------------------------------------------------
(***************************************************************************)
(* The API.                                                                *)
(***************************************************************************)
(* upsert_ and clear_overlay_and_broadcast().                              *)
Put(s, o) == overlay' = [overlay EXCEPT ![s] = o]

(* /internal/position-overlay-event: a thread may overtake another.        *)
NoticeArrives(i) ==
  /\ LET n == posts[i] IN
       /\ Put(n.side, n.overlay)
       /\ Doubted(n.side, \E j \in 1..(i - 1) : posts[j].side = n.side)
  /\ posts' = RemoveAt(posts, i)
  /\ UNCHANGED <<exchangeVars, feed, botVars, req, asked, faults>>

(* The post fails; it is logged and not repeated.                          *)
NoticeFails(i) ==
  /\ Fault
  /\ Doubted(posts[i].side, TRUE)
  /\ posts' = RemoveAt(posts, i)
  /\ UNCHANGED <<exchangeVars, feed, botVars, apiVars>>

-----------------------------------------------------------------------------
(***************************************************************************)
(* GET /position-overlays/snapshot.  MySQL is read at once; the exchange's *)
(* positions are read by a thread and take its place when the request      *)
(* goes on.                                                                *)
(***************************************************************************)
Ask(r, request) ==
  /\ req[r] = None
  /\ asked < MaxRequests
  /\ asked' = asked + 1
  /\ req' = [req EXCEPT ![r] = request]
  /\ UNCHANGED <<exchangeVars, feed, botVars, posts, overlay, faults, doubt>>

(* The newest open row of positions; a row has no take profit.             *)
Row(s) ==
  IF OpenKeys(s) = {} THEN None
  ELSE [entry |-> record[s][Newest(s)].entry, tp |-> 0, closed |-> FALSE]

AskSnapshot(r) ==
  Ask(r, [kind |-> "snapshot", at |-> "list", left |-> Sides,
          read |-> [s \in Sides |-> Row(s)], ok |-> FALSE, answer |-> Nowhere])

ExchangeLists(r) ==
  /\ req[r] # None /\ req[r].at = "list"
  /\ req' = [req EXCEPT ![r].at = "build", ![r].ok = TRUE,
                        ![r].read = [s \in Sides |-> View(pos[s])]]
  /\ UNCHANGED <<exchangeVars, feed, botVars, posts, overlay, asked, faults, doubt>>

ListFails(r) ==
  /\ Fault
  /\ req[r] # None /\ req[r].at = "list"
  /\ req' = [req EXCEPT ![r].at = "build"]
  /\ UNCHANGED <<exchangeVars, feed, botVars, posts, overlay, asked, doubt>>

(* build_position_overlay_snapshot(): the exchange's positions alone when
   it answered, otherwise what the bot's file says now or MySQL said.      *)
Built(q) ==
  [s \in Sides |-> IF ~q.ok /\ OpenKeys(s) # {} THEN Live(s) ELSE q.read[s]]

(* The bot has missed nothing of s and will report what comes.             *)
Knows(s) == Live(s) = View(pos[s])

(* One side: its overlay is put or cleared, in an await of its own.  Only a
   reading that still holds settles the side.                              *)
WriteSide(r, q, s) ==
  /\ Put(s, q.answer[s])
  /\ req' = [req EXCEPT ![r] = IF q.left = {s} THEN None ELSE [q EXCEPT !.left = @ \ {s}]]
  /\ doubt' = IF ~q.ok \/ q.read[s] # View(pos[s]) THEN doubt \cup {s}
              ELSE IF Pending(s) \/ ~Knows(s) THEN doubt ELSE doubt \ {s}

(* Overlays are put before the other sides are cleared.                    *)
NextSides(q) ==
  LET puts == {s \in q.left : q.answer[s] # None}
  IN IF puts # {} THEN puts ELSE q.left

WriteSnapshot(r) ==
  /\ req[r] # None /\ req[r].at \in {"build", "write"}
  /\ LET q == IF req[r].at = "build"
                THEN [req[r] EXCEPT !.at = "write", !.answer = Built(req[r])]
                ELSE req[r]
     IN \E s \in NextSides(q) : WriteSide(r, q, s)
  /\ UNCHANGED <<exchangeVars, feed, botVars, posts, asked, faults>>

-----------------------------------------------------------------------------
(***************************************************************************)
(* POST /positions/{overlay_id}/tpsl: look up the overlay, then read the   *)
(* position, set the level and patch the overlay, an await before each.    *)
(***************************************************************************)
AskEdit(r, s, level) ==
  /\ overlay[s] # None /\ ~overlay[s].closed
  /\ Ask(r, [kind |-> "edit", at |-> "check", side |-> s, tp |-> level, seen |-> overlay[s]])

(* No position, or a level on the wrong side of the price: refused.        *)
CheckPosition(r) ==
  /\ req[r] # None /\ req[r].at = "check"
  /\ \/ /\ pos[req[r].side] # None
        /\ req' = [req EXCEPT ![r].at = "set"]
     \/ req' = [req EXCEPT ![r] = None]
  /\ UNCHANGED <<exchangeVars, feed, botVars, posts, overlay, asked, faults, doubt>>

(* update_linear_position_tpsl(): the exchange refuses without a position. *)
SetTakeProfit(r) ==
  /\ req[r] # None /\ req[r].at = "set"
  /\ LET s == req[r].side
         p == Moved(s, req[r].tp)
     IN IF pos[s] = None
          THEN req' = [req EXCEPT ![r] = None] /\ UNCHANGED <<pos, feed>>
          ELSE /\ Becomes(s, p, <<Message("Position", s, Manual, 0, p)>>)
               /\ req' = [req EXCEPT ![r].at = "patch"]
  /\ UNCHANGED <<entries, ordered, changes, botVars, posts, overlay, asked, faults, doubt>>

(* The exchange did it and its answer is lost: the request ends with 502.  *)
SetAnswerLost(r) ==
  /\ Fault
  /\ req[r] # None /\ req[r].at = "patch"
  /\ req' = [req EXCEPT ![r] = None]
  /\ UNCHANGED <<exchangeVars, feed, botVars, posts, overlay, asked, doubt>>

\* Mutant: the overlay looked up at the beginning is patched and stored.
PatchSeen(r) ==
  /\ req[r] # None /\ req[r].at = "patch"
  /\ LET s == req[r].side IN
       /\ Put(s, [req[r].seen EXCEPT !.tp = req[r].tp])
       /\ Doubted(s, overlay[s] # None /\ pos[s] # None /\ pos[s].tp # req[r].tp)
  /\ req' = [req EXCEPT ![r] = None]
  /\ UNCHANGED <<exchangeVars, feed, botVars, posts, asked, faults>>

(* patch_overlay_and_broadcast(): nothing is stored when the overlay is
   gone.  A level that has been moved again since was patched out of turn. *)
Patch(r) ==
  /\ req[r] # None /\ req[r].at = "patch"
  /\ LET s == req[r].side IN
       IF overlay[s] = None
         THEN UNCHANGED <<overlay, doubt>>
         ELSE /\ Put(s, [overlay[s] EXCEPT !.tp = req[r].tp])
              /\ Doubted(s, pos[s] # None /\ pos[s].tp # req[r].tp)
  /\ req' = [req EXCEPT ![r] = None]
  /\ UNCHANGED <<exchangeVars, feed, botVars, posts, asked, faults>>

-----------------------------------------------------------------------------
(* The API process restarts: the overlays were in memory only.             *)
ApiRestart ==
  /\ Fault
  /\ overlay' = Nowhere
  /\ req' = [r \in Requests |-> None]
  /\ doubt' = Sides
  /\ UNCHANGED <<exchangeVars, feed, botVars, posts, asked>>

(* The bot restarts: what it had not read or not sent is lost.             *)
BotRestart ==
  /\ Fault
  /\ feed' = <<>>
  /\ tasks' = <<>>
  /\ doubt' = doubt \cup {s \in Sides : \/ \E i \in 1..Len(feed) : feed[i].side = s
                                        \/ \E i \in 1..Len(tasks) : tasks[i].side = s}
  /\ UNCHANGED <<exchangeVars, record, posts, apiVars>>

-----------------------------------------------------------------------------
Exchange == \E s \in Sides :
  \/ \E n \in 1..MaxQty : EnterManually(s, n) \/ \E z \in Zones : EnterZone(s, z, n)
  \/ \E kind \in {"Close", "TakeProfit", "StopLoss"}, n \in 1..(MaxQty * MaxChanges) :
       Reduce(s, kind, n)
  \/ \E level \in Prices : MoveTakeProfit(s, level)

Notices == \E i \in 1..Len(posts) : NoticeArrives(i) \/ NoticeFails(i)

Serve(r) ==
  \/ ExchangeLists(r) \/ ListFails(r) \/ WriteSnapshot(r)
  \/ CheckPosition(r) \/ SetTakeProfit(r) \/ SetAnswerLost(r) \/ Patch(r)

Next ==
  \/ Exchange
  \/ Handle
  \/ StartNotice
  \/ Notices
  \/ \E r \in Requests :
       \/ Serve(r)
       \/ AskSnapshot(r)
       \/ \E s \in Sides, level \in Levels : AskEdit(r, s, level)
  \/ ApiRestart
  \/ BotRestart

Spec == Init /\ [][Next]_vars

-----------------------------------------------------------------------------
(***************************************************************************)
(* Properties.                                                             *)
(***************************************************************************)
Map == [Sides -> Overlay \cup {None}]

TypeOK ==
  /\ pos \in [Sides -> Position \cup {None}]
  /\ entries \in 0..changes /\ changes \in 0..MaxChanges
  /\ ordered \subseteq Zones
  /\ record \in [Sides -> [Keys -> Record \cup {None}]]
  /\ overlay \in Map
  /\ asked \in 0..MaxRequests /\ faults \in 0..MaxFaults
  /\ doubt \subseteq Sides
  /\ \A r \in Requests : req[r] # None => req[r].kind \in {"snapshot", "edit"}

(***************************************************************************)
(* Once every notice has arrived the overlay is the exchange's position,   *)
(* whatever requests are at work: an edit whose position is closed         *)
(* meanwhile, for one, brings back no overlay of a position that is gone.  *)
(* Left out are the sides in doubt, because                                *)
(*   - a notice was lost or overtaken, a reading that no longer held was   *)
(*     written, or a process restarted;                                    *)
(*   - a further entry was added to a record, which no notice tells;       *)
(*   - a record's end and the position's did not go together: the records  *)
(*     of the side share one overlay, and ExecutionStore says when a       *)
(*     record is closed too early or too late;                             *)
(*   - a report overtook a fill of a position that was held before and     *)
(*     after it, or found no record.                                       *)
(* A snapshot taken from the exchange puts the side right again, if the    *)
(* bot's record is right.                                                  *)
(***************************************************************************)
OverlayFollows ==
  \A s \in Sides \ doubt : ~Pending(s) => overlay[s] = View(pos[s])
=============================================================================
