---------------------------- MODULE OverlayFanout ----------------------------
(***************************************************************************)
(* The API's overlays of open positions and what the browsers show of      *)
(* them (backend/app/api/ws/position_overlay.py, CandleChart.jsx and       *)
(* positionOverlay/ws.js in the frontend).  Any request may put any        *)
(* overlay at any time: which ones, and when, is PositionOverlay's.        *)
(*                                                                         *)
(* A change of the state and the write to the first browser are one step:  *)
(* the state lock is never contended.  Each further write follows in a     *)
(* step of its own, in any order (the clients are a set), while other      *)
(* requests change the state and browsers come and go.  A websocket keeps  *)
(* the order of what is written to it.                                     *)
(***************************************************************************)
EXTENDS Integers, Sequences

CONSTANTS
  Sides,      \* one overlay each
  Entries,    \* prices of entry
  Levels,     \* prices of a take profit
  Clients,    \* browsers
  Requests,   \* requests the API can be working on at once
  None,       \* no overlay, no request, no broadcast
  MaxPuts     \* bound: changes of an overlay

ASSUME FanoutAssumption == Levels \subseteq Nat \ {0} /\ MaxPuts \in Nat

VARIABLES
  overlay,   \* _POSITION_OVERLAY_STATE
  puts,      \* changes of an overlay so far
  req,       \* per request: the snapshot or the edit it serves, or None
  cast,      \* per request: the broadcast it has begun, or None
  conn,      \* _POSITION_OVERLAY_CLIENTS
  wire,      \* per browser: what was written to its websocket and not read
  shown,     \* per browser: its overlaysById
  late       \* history: browsers that were told something out of turn

vars == <<overlay, puts, req, cast, conn, wire, shown, late>>

-----------------------------------------------------------------------------
Prices == Levels \cup {0}

Overlay == [entry : Entries, tp : Prices]

(* A broadcast that has yet to write to the clients in todo; at is the
   number of the change it tells of.                                       *)
Cast == [side : Sides, overlay : Overlay \cup {None}, at : Nat, todo : SUBSET Clients]

ASSUME NoneAssumption == None \notin Overlay \cup Cast

Map == [Sides -> Overlay \cup {None}]

Nowhere == [s \in Sides |-> None]

Init ==
  /\ overlay = Nowhere
  /\ puts = 0
  /\ req = [r \in Requests |-> None]
  /\ cast = [r \in Requests |-> None]
  /\ conn = {}
  /\ wire = [c \in Clients |-> <<>>]
  /\ shown = [c \in Clients |-> Nowhere]
  /\ late = {}

-----------------------------------------------------------------------------
(***************************************************************************)
(* _broadcast(): to every client of a list made at its start.              *)
(***************************************************************************)
Event(k) == [kind |-> "update", side |-> k.side, overlay |-> k.overlay]

(* An older broadcast of the side still has to write to c: c is told of
   the older overlay last.                                                 *)
Overtakes(r, k, c) ==
  \E q \in Requests \ {r} :
    /\ cast[q] # None
    /\ cast[q].side = k.side /\ cast[q].at < k.at /\ c \in cast[q].todo

Write(r, k, c) ==
  /\ c \in k.todo
  /\ wire' = [wire EXCEPT ![c] = Append(@, Event(k))]
  /\ cast' = [cast EXCEPT ![r] = IF k.todo = {c} THEN None ELSE [k EXCEPT !.todo = @ \ {c}]]
  /\ late' = IF Overtakes(r, k, c) THEN late \cup {c} ELSE late

\* Mutant: the list is of every client there ever was.
Everyone == Clients

Listed == conn

(* upsert_, patch_ and clear_overlay_and_broadcast(): None is a clear.     *)
Put(r, s, o) ==
  /\ cast[r] = None
  /\ puts < MaxPuts
  /\ puts' = puts + 1
  /\ overlay' = [overlay EXCEPT ![s] = o]
  /\ IF Listed = {} THEN UNCHANGED <<cast, wire, late>>
     ELSE \E c \in Listed :
            Write(r, [side |-> s, overlay |-> o, at |-> puts + 1, todo |-> Listed], c)

SendNext(r) ==
  /\ cast[r] # None
  /\ \E c \in cast[r].todo : Write(r, cast[r], c)
  /\ UNCHANGED <<overlay, puts, req, conn, shown>>

(* A notice of the bot, POST /internal/position-overlay-event.             *)
Notify(r, s, o) ==
  /\ req[r] = None
  /\ Put(r, s, o)
  /\ UNCHANGED <<req, conn, shown>>

-----------------------------------------------------------------------------
(***************************************************************************)
(* GET /position-overlays/snapshot.  A browser asks for it when it has not *)
(* read the snapshot of its websocket in time.  The request puts what it   *)
(* has made out and clears the rest, and answers after the last broadcast. *)
(***************************************************************************)
Ask(r, request) ==
  /\ req[r] = None /\ cast[r] = None
  /\ req' = [req EXCEPT ![r] = request]
  /\ UNCHANGED <<overlay, puts, cast, conn, wire, shown, late>>

AskSnapshot(r, c, answer) ==
  /\ c \in conn
  /\ \E i \in 1..Len(wire[c]) : wire[c][i].kind = "snapshot"
  /\ Ask(r, [kind |-> "snapshot", client |-> c, left |-> Sides, answer |-> answer])

NextSides(q) ==
  LET present == {s \in q.left : q.answer[s] # None}
  IN IF present # {} THEN present ELSE q.left

WriteSnapshot(r) ==
  /\ req[r] # None /\ req[r].kind = "snapshot"
  /\ \E s \in NextSides(req[r]) :
       /\ Put(r, s, req[r].answer[s])
       /\ req' = [req EXCEPT ![r].left = @ \ {s}]
  /\ UNCHANGED <<conn, shown>>

(* A browser puts an answer in the place of what it shows, however old.    *)
Reply(r) ==
  /\ req[r] # None /\ req[r].kind = "snapshot" /\ req[r].left = {} /\ cast[r] = None
  /\ LET c == req[r].client IN
       IF c \in conn
         THEN /\ shown' = [shown EXCEPT ![c] = req[r].answer]
              /\ late' = IF req[r].answer # overlay THEN late \cup {c} ELSE late
         ELSE UNCHANGED <<shown, late>>
  /\ req' = [req EXCEPT ![r] = None]
  /\ UNCHANGED <<overlay, puts, cast, conn, wire>>

-----------------------------------------------------------------------------
(***************************************************************************)
(* POST /positions/{overlay_id}/tpsl: the overlay is looked up first and   *)
(* patched after the exchange has been asked three times.                  *)
(***************************************************************************)
AskEdit(r, c, s, level) ==
  /\ c \in conn
  /\ overlay[s] # None
  /\ Ask(r, [kind |-> "edit", client |-> c, side |-> s, tp |-> level, seen |-> overlay[s],
             answer |-> None])

(* Refused, or the exchange fails: the browser shows what it did.          *)
EditFails(r) ==
  /\ req[r] # None /\ req[r].kind = "edit" /\ req[r].answer = None
  /\ req' = [req EXCEPT ![r] = None]
  /\ UNCHANGED <<overlay, puts, cast, conn, wire, shown, late>>

(* When the overlay is gone nothing is stored, and the answer is made up
   from the one looked up at first.                                        *)
Patch(r) ==
  /\ req[r] # None /\ req[r].kind = "edit" /\ req[r].answer = None
  /\ LET s       == req[r].side
         patched == [(IF overlay[s] = None THEN req[r].seen ELSE overlay[s])
                       EXCEPT !.tp = req[r].tp]
     IN /\ req' = [req EXCEPT ![r].answer = patched]
        /\ IF overlay[s] = None THEN UNCHANGED <<overlay, puts, cast, wire, late>>
           ELSE Put(r, s, patched)
  /\ UNCHANGED <<conn, shown>>

ReplyEdit(r) ==
  /\ req[r] # None /\ req[r].kind = "edit" /\ req[r].answer # None /\ cast[r] = None
  /\ LET c == req[r].client
         s == req[r].side
     IN IF c \in conn
          THEN /\ shown' = [shown EXCEPT ![c][s] = req[r].answer]
               /\ late' = IF req[r].answer # overlay[s] THEN late \cup {c} ELSE late
          ELSE UNCHANGED <<shown, late>>
  /\ req' = [req EXCEPT ![r] = None]
  /\ UNCHANGED <<overlay, puts, cast, conn, wire>>

-----------------------------------------------------------------------------
(***************************************************************************)
(* The browsers.                                                           *)
(***************************************************************************)
\* Mutant: a new client gets no snapshot.
ConnectWithoutSnapshot(c) ==
  /\ c \notin conn
  /\ conn' = conn \cup {c}
  /\ UNCHANGED <<overlay, puts, req, cast, wire, shown, late>>

(* register_position_overlay_client(): from here on it is broadcast to.    *)
Connect(c) ==
  /\ c \notin conn
  /\ conn' = conn \cup {c}
  /\ wire' = [wire EXCEPT ![c] = <<[kind |-> "snapshot", overlays |-> overlay]>>]
  /\ UNCHANGED <<overlay, puts, req, cast, shown, late>>

(* A snapshot replaces what the browser shows, an event one overlay of it. *)
Receive(c) ==
  /\ wire[c] # <<>>
  /\ LET m == Head(wire[c]) IN
       shown' = [shown EXCEPT ![c] =
                   IF m.kind = "snapshot" THEN m.overlays
                   ELSE [@ EXCEPT ![m.side] = m.overlay]]
  /\ wire' = [wire EXCEPT ![c] = Tail(@)]
  /\ UNCHANGED <<overlay, puts, req, cast, conn, late>>

(* The broadcast cast has no more to write to the clients gone.            *)
Without(k, gone) ==
  IF k = None \/ k.todo \subseteq gone THEN None ELSE [k EXCEPT !.todo = @ \ gone]

(* The connection ends: a write to it fails.  What the browser shows until
   it connects again is not spoken of.                                     *)
Disconnect(c) ==
  /\ c \in conn
  /\ conn' = conn \ {c}
  /\ cast' = [r \in Requests |-> Without(cast[r], {c})]
  /\ wire' = [wire EXCEPT ![c] = <<>>]
  /\ shown' = [shown EXCEPT ![c] = Nowhere]
  /\ late' = late \ {c}
  /\ UNCHANGED <<overlay, puts, req>>

(* The API restarts: the overlays, the requests and the connections end.   *)
ApiRestart ==
  /\ overlay' = Nowhere
  /\ req' = [r \in Requests |-> None]
  /\ cast' = [r \in Requests |-> None]
  /\ conn' = {}
  /\ wire' = [c \in Clients |-> <<>>]
  /\ shown' = [c \in Clients |-> Nowhere]
  /\ late' = {}
  /\ UNCHANGED puts

-----------------------------------------------------------------------------
Next ==
  \/ \E r \in Requests :
       \/ SendNext(r) \/ WriteSnapshot(r) \/ Reply(r)
       \/ EditFails(r) \/ Patch(r) \/ ReplyEdit(r)
       \/ \E s \in Sides, o \in Overlay \cup {None} : Notify(r, s, o)
       \/ \E c \in Clients :
            \/ \E answer \in Map : AskSnapshot(r, c, answer)
            \/ \E s \in Sides, level \in Levels : AskEdit(r, c, s, level)
  \/ \E c \in Clients : Connect(c) \/ Receive(c) \/ Disconnect(c)
  \/ ApiRestart

Spec == Init /\ [][Next]_vars

-----------------------------------------------------------------------------
(***************************************************************************)
(* Properties.                                                             *)
(***************************************************************************)
TypeOK ==
  /\ overlay \in Map
  /\ puts \in 0..MaxPuts
  /\ \A r \in Requests : req[r] # None => req[r].kind \in {"snapshot", "edit"}
  /\ cast \in [Requests -> Cast \cup {None}]
  /\ \A r \in Requests :
       cast[r] # None =>
         cast[r].todo # {} /\ cast[r].todo \subseteq conn /\ cast[r].at <= puts
  /\ conn \subseteq Clients /\ late \subseteq conn
  /\ DOMAIN wire = Clients
  /\ \A c \in Clients \ conn : wire[c] = <<>>
  /\ shown \in [Clients -> Map]

(***************************************************************************)
(* position_overlay.py:25: a client gets the state when it connects and    *)
(* everything after it, without polling and without gaps.  A connected     *)
(* browser that has read its wire, and that no broadcast still has to      *)
(* write to, shows the server's overlays, whatever requests, broadcasts    *)
(* and connections interleave - unless it was told something out of turn:  *)
(*   - two broadcasts of one side passed each other on the way to it;      *)
(*   - the answer to its own request, which does not come by the wire, was *)
(*     older than the state, or of an overlay that was gone.               *)
(* Nothing repairs that until it connects again.                           *)
(***************************************************************************)
Awaited(c) == \E r \in Requests : cast[r] # None /\ c \in cast[r].todo

BrowserFollows ==
  \A c \in conn \ late : wire[c] = <<>> /\ ~Awaited(c) => shown[c] = overlay
=============================================================================
