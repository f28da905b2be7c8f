------------------------------ MODULE ZoneState ------------------------------
(***************************************************************************)
(* Trading zones: the table zone_state and its read model zone_projection. *)
(* Two processes write both:                                               *)
(*                                                                         *)
(*   - the bot (backend/core/persistence/zone_state_repo.py), one call at  *)
(*     a time, with every statement a transaction of its own: it changes   *)
(*     zone_state, then reads the row again and writes the projection;     *)
(*   - the API (backend/app/db/crud.py), one request at a time, in one     *)
(*     transaction that reads both rows without locking them and updates   *)
(*     the columns its session saw change.                                 *)
(*                                                                         *)
(* A zone keeps its switch, the entry a user put in place of its own       *)
(* (0: none) and whether it is broken, i.e. has an end_time.  Prices and   *)
(* the columns computed from them follow from these.  Who calls the bot's  *)
(* operations is a strategy's business; here anything may at any time.     *)
(***************************************************************************)
EXTENDS Naturals

CONSTANTS
  Zones,      \* keys: symbol, interval, start time and side
  Entries,    \* prices of an entry_override
  None,       \* no row, no request
  MaxFaults   \* bound: failed statements and API restarts

ASSUME ZoneAssumption ==
  /\ Entries \subseteq Nat \ {0}
  /\ MaxFaults \in Nat

VARIABLES
  row,     \* zone_state
  proj,    \* zone_projection
  todo,    \* the bot: zones whose projection it has yet to bring up to date
  copy,    \* the bot: the row it read for one of them, or None
  edit,    \* the API: the POST /zones/state it is working on, or None
  faults,  \* faults so far
  doubt    \* history: zones whose projection was left or written out of turn

zoneVars == <<row, proj, todo, copy, edit, doubt>>
vars     == <<zoneVars, faults>>

-----------------------------------------------------------------------------
Row == [active : BOOLEAN, entry : Entries \cup {0}, broken : BOOLEAN]

ASSUME NoneAssumption == None \notin Row

(* build_zone_projection_payload(): a broken zone is shown inactive.       *)
View(r) ==
  IF r = None THEN None
  ELSE [active |-> r.active /\ ~r.broken, entry |-> r.entry, broken |-> r.broken]

Fault ==
  /\ faults < MaxFaults
  /\ faults' = faults + 1

Init ==
  /\ row = [z \in Zones |-> None]
  /\ proj = [z \in Zones |-> None]
  /\ todo = {}
  /\ copy = None
  /\ edit = None
  /\ doubt = {}
  /\ faults = 0

-----------------------------------------------------------------------------
(***************************************************************************)
(* The bot.  The first statement of an operation; the projection of the    *)
(* zones in Z is to follow.                                                *)
(***************************************************************************)
IsLive(z) == row[z] # None /\ ~row[z].broken

Ended(r, off) == [active |-> r.active /\ ~off, entry |-> r.entry, broken |-> TRUE]

Change(newRow, Z) ==
  /\ todo = {}
  /\ row' = newRow
  /\ todo' = Z
  /\ UNCHANGED <<proj, copy, edit, doubt, faults>>

(* upsert_zone() keeps the user's columns, unless the zone has ended.  One
   that is detected as live again has no end_time any more.                *)
Detected(r, ended) ==
  IF r = None THEN [active |-> FALSE, entry |-> 0, broken |-> ended]
  ELSE [active |-> r.active /\ ~ended, entry |-> r.entry, broken |-> ended]

Detect(z, ended) == Change([row EXCEPT ![z] = Detected(row[z], ended)], {z})

\* Mutant: the rows are updated, the projection is not.
BreakUnsynced(Z) ==
  /\ Z # {}
  /\ \A z \in Z : IsLive(z)
  /\ Change([z \in Zones |-> IF z \in Z THEN Ended(row[z], TRUE) ELSE row[z]],
            {})

(* mark_zones_broken_by_close(): every zone whose stop the close passed.   *)
BreakByClose(Z) ==
  /\ Z # {}
  /\ \A z \in Z : IsLive(z)
  /\ Change([z \in Zones |-> IF z \in Z THEN Ended(row[z], TRUE) ELSE row[z]],
            Z)

(* deactivate_zone_state_by_key(), after a stop loss.                      *)
Deactivate(z) ==
  /\ IsLive(z) /\ row[z].active
  /\ Change([row EXCEPT ![z] = [row[z] EXCEPT !.active = FALSE]], {z})

(* is_zone_active_by_key() brings an active zone's projection up to date.  *)
AskActive(z) ==
  /\ IsLive(z) /\ row[z].active
  /\ Change(row, {z})

(* mark_zone_broken_by_key() leaves the projection as it is.               *)
BreakByKey(z, deactivate) ==
  /\ todo = {}
  /\ IsLive(z)
  /\ row' = [row EXCEPT ![z] = Ended(row[z], deactivate)]
  /\ doubt' = doubt \cup {z}
  /\ UNCHANGED <<proj, todo, copy, edit, faults>>

(***************************************************************************)
(* sync_zone_projection_by_key(): two statements.                          *)
(***************************************************************************)
SyncRead(z) ==
  /\ copy = None
  /\ z \in todo
  /\ copy' = [zone |-> z, row |-> row[z]]
  /\ UNCHANGED <<row, proj, todo, edit, doubt, faults>>

SyncWrite ==
  /\ copy # None
  /\ proj' = [proj EXCEPT ![copy.zone] = View(copy.row)]
  /\ doubt' = IF copy.row = row[copy.zone] THEN doubt \ {copy.zone}
              ELSE doubt \cup {copy.zone}
  /\ todo' = todo \ {copy.zone}
  /\ copy' = None
  /\ UNCHANGED <<row, edit, faults>>

(* A statement of the synchronisation raises, or the bot is killed: the
   row is changed and stays so.                                            *)
SyncFails ==
  /\ Fault
  /\ todo # {}
  /\ doubt' = doubt \cup todo
  /\ todo' = {}
  /\ copy' = None
  /\ UNCHANGED <<row, proj, edit>>

-----------------------------------------------------------------------------
(***************************************************************************)
(* The API.  upsert_zone_state() reads the row, the merge of the           *)
(* projection reads that: one snapshot.  A zone without a row is a 404.    *)
(* `entry' is None when the request does not name it.                      *)
(***************************************************************************)
Post(z, active, entry) ==
  /\ edit = None
  /\ row[z] # None
  /\ edit' = [zone |-> z, active |-> active, entry |-> entry, row |-> row[z], proj |-> proj[z]]
  /\ UNCHANGED <<row, proj, todo, copy, doubt, faults>>

Edited(e) ==
  [active |-> e.active,
   entry  |-> IF e.entry = None THEN e.row.entry ELSE e.entry,
   broken |-> e.row.broken]

(* The UPDATE of a flush has the columns that differ from what was read.   *)
Flushed(read, new, now) ==
  [active |-> IF new.active # read.active THEN new.active ELSE now.active,
   entry  |-> IF new.entry # read.entry THEN new.entry ELSE now.entry,
   broken |-> IF new.broken # read.broken THEN new.broken ELSE now.broken]

\* Mutant: every column of the row that was read is written.
CommitWholeRow ==
  /\ edit # None
  /\ row' = [row EXCEPT ![edit.zone] = Edited(edit)]
  /\ proj' = [proj EXCEPT ![edit.zone] = View(Edited(edit))]
  /\ doubt' = IF edit.row = row[edit.zone] /\ edit.proj \in {None, View(edit.row)}
                THEN doubt ELSE doubt \cup {edit.zone}
  /\ edit' = None
  /\ UNCHANGED <<todo, copy, faults>>

(* A projection that was not there is inserted, which fails, and with it
   the transaction, when the bot has inserted it meanwhile.                *)
Commit ==
  /\ edit # None
  /\ LET z == edit.zone IN
       IF edit.proj = None /\ proj[z] # None
         THEN UNCHANGED <<row, proj, doubt>>
         ELSE /\ row' = [row EXCEPT ![z] = Flushed(edit.row, Edited(edit), row[z])]
              /\ proj' = [proj EXCEPT ![z] =
                            IF edit.proj = None THEN View(Edited(edit))
                            ELSE Flushed(edit.proj, View(Edited(edit)), proj[z])]
              /\ doubt' = IF edit.row = row[z] /\ edit.proj \in {None, View(edit.row)}
                            THEN doubt ELSE doubt \cup {z}
  /\ edit' = None
  /\ UNCHANGED <<todo, copy, faults>>

CommitFails ==
  /\ Fault
  /\ edit # None
  /\ edit' = None
  /\ UNCHANGED <<row, proj, todo, copy, doubt>>

(* The API process restarts and fills in the projections that are missing. *)
ApiRestart ==
  /\ Fault
  /\ edit' = None
  /\ proj' = [z \in Zones |-> IF proj[z] = None THEN View(row[z]) ELSE proj[z]]
  /\ UNCHANGED <<row, todo, copy, doubt>>

-----------------------------------------------------------------------------
(***************************************************************************)
(* The readers.  fetch_active_zone_levels(): the zones a strategy trades,  *)
(* each at the user's entry or, with 0, at its own.                        *)
(***************************************************************************)
Traded == [z \in {y \in Zones : IsLive(y) /\ row[y].active} |-> row[z].entry]

(* list_zone_projection_startup_snapshot(): the zones the chart shows as
   active when it starts.                                                  *)
Drawn == [z \in {y \in Zones : proj[y] # None /\ proj[y].active} |-> proj[z].entry]

-----------------------------------------------------------------------------
Bot ==
  \/ \E Z \in SUBSET Zones : BreakByClose(Z)
  \/ \E z \in Zones :
       \/ Deactivate(z) \/ AskActive(z) \/ SyncRead(z)
       \/ \E flag \in BOOLEAN : Detect(z, flag) \/ BreakByKey(z, flag)
  \/ SyncWrite
  \/ SyncFails

Request ==
  \/ \E z \in Zones, active \in BOOLEAN, entry \in Entries \cup {0, None} : Post(z, active, entry)
  \/ Commit
  \/ CommitFails

Next == Bot \/ Request \/ ApiRestart

Spec == Init /\ [][Next]_vars

-----------------------------------------------------------------------------
(***************************************************************************)
(* Properties.                                                             *)
(***************************************************************************)

(* The type invariant: what is being written has a row.                    *)
TypeOK ==
  /\ row \in [Zones -> Row \cup {None}]
  /\ proj \in [Zones -> Row \cup {None}]
  /\ todo \subseteq Zones /\ doubt \subseteq Zones
  /\ copy \in [zone : todo, row : Row] \cup {None}
  /\ edit \in [zone : Zones, active : BOOLEAN, entry : Entries \cup {0, None},
               row : Row, proj : Row \cup {None}] \cup {None}
  /\ \A z \in todo : row[z] # None
  /\ edit # None => row[edit.zone] # None /\ (proj[edit.zone] = None => edit.proj = None)
  /\ faults \in 0..MaxFaults

(***************************************************************************)
(* The read model says of a zone what the table says, whenever the bot is  *)
(* not about to write it: what the chart starts with is what is traded.    *)
(* Left out are the zones the code does leave behind: a zone broken by     *)
(* key, a statement that failed between the two writes, and an edit that   *)
(* crossed a write of the bot to the same zone.  The bot's next            *)
(* undisturbed synchronisation ends the exception.                         *)
(***************************************************************************)
ProjectionFollows ==
  \A z \in Zones \ (doubt \cup todo) : proj[z] = View(row[z])

(***************************************************************************)
(* With nothing left behind or to do, the chart starts with exactly the    *)
(* zones that are traded, each at the same entry.                          *)
(***************************************************************************)
DrawnIsTraded == doubt = {} /\ todo = {} => Drawn = Traded

(***************************************************************************)
(* A zone that was switched off, by a stop loss, by its break or by a      *)
(* user, is switched on again only for a user who saw it off: an edit that *)
(* read the zone while it was on does not bring back what the bot switched *)
(* off before the commit.                                                  *)
(***************************************************************************)
SwitchedOnKnowingly ==
  \A z \in Zones :
    row[z] # None /\ ~row[z].active /\ row'[z].active
      => edit # None /\ edit.zone = z /\ edit.active /\ ~edit.row.active

StaysOff == [][SwitchedOnKnowingly]_vars
=============================================================================
