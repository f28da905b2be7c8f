------------------------- MODULE ControlPlane_proofs -------------------------
(***************************************************************************)
(* Proofs about ZoneState, for any number of zones, prices and faults, and *)
(* about the composition it is part of.  Of ZoneState: the type invariant, *)
(* that the projection follows the table outside the exceptions `doubt'    *)
(* names, and that a zone which was switched off stays off unless a user   *)
(* who saw it off switches it on.  The last needs nothing of the history   *)
(* but what TypeOK says of a request at work; the projection needs TypeOK  *)
(* and itself.                                                             *)
(***************************************************************************)
EXTENDS ControlPlane, TLAPS


(***************************************************************************)
(* What the operators return.                                              *)
(***************************************************************************)
LEMMA RowOf ==
  ASSUME NEW a \in BOOLEAN, NEW n \in Entries \cup {0}, NEW b \in BOOLEAN
  PROVE  [active |-> a, entry |-> n, broken |-> b] \in Row
  BY DEF Row

LEMMA ViewOfRow ==
  ASSUME NEW r \in Row
  PROVE  /\ View(r) = [active |-> r.active /\ ~r.broken, entry |-> r.entry, broken |-> r.broken]
         /\ View(r) \in Row
         /\ View(r) # None
<1>1. r # None
  BY NoneAssumption
<1>2. View(r) = [active |-> r.active /\ ~r.broken, entry |-> r.entry, broken |-> r.broken]
  BY <1>1 DEF View
<1>3. (r.active /\ ~r.broken) \in BOOLEAN /\ r.entry \in Entries \cup {0} /\ r.broken \in BOOLEAN
  BY DEF Row
<1>4. View(r) \in Row
  BY <1>2, <1>3, RowOf, Zenon
<1> QED BY <1>2, <1>4, NoneAssumption

LEMMA ViewType == ASSUME NEW r \in Row \cup {None} PROVE View(r) \in Row \cup {None}
  BY ViewOfRow DEF View

LEMMA EndedType == ASSUME NEW r \in Row, NEW off \in BOOLEAN PROVE Ended(r, off) \in Row
  BY DEF Ended, Row

LEMMA EndedOff ==
  ASSUME NEW r \in Row, ~r.active, NEW off \in BOOLEAN PROVE ~Ended(r, off).active
<1>1. Ended(r, off).active = (r.active /\ ~off)
  BY DEF Ended
<1> QED BY <1>1

LEMMA EditedType ==
  ASSUME NEW e, e \in [zone : Zones, active : BOOLEAN, entry : Entries \cup {0, None},
                       row : Row, proj : Row \cup {None}]
  PROVE  Edited(e) \in Row /\ Edited(e).broken = e.row.broken
                           /\ Edited(e).active = e.active
  BY DEF Edited, Row

LEMMA FlushedType ==
  ASSUME NEW a \in Row, NEW b \in Row, NEW c \in Row
  PROVE  Flushed(a, b, c) \in Row
  BY DEF Flushed, Row

(* An UPDATE of what was read and is still there writes the new row.       *)
LEMMA FlushedUnchanged ==
  ASSUME NEW a \in Row, NEW b \in Row
  PROVE  Flushed(a, b, a) = b
  BY DEF Flushed, Row

-----------------------------------------------------------------------------
(***************************************************************************)
(* The type invariant.                                                     *)
(***************************************************************************)
LEMMA TypeInit == Init => TypeOK
  BY ZoneAssumption DEF Init, TypeOK

(* The first statement of an operation of the bot: every synchronised zone
   has a row, and no row goes away.                                        *)
LEMMA ChangeType ==
  ASSUME TypeOK, NEW newRow \in [Zones -> Row \cup {None}], NEW Z \in SUBSET Zones,
         \A z \in Zones : newRow[z] = None => row[z] = None /\ z \notin Z,
         Change(newRow, Z)
  PROVE  TypeOK'
  BY DEF TypeOK, Change

LEMMA LiveRow ==
  ASSUME TypeOK, NEW z \in Zones, IsLive(z)
  PROVE  row[z] \in Row
  BY DEF TypeOK, IsLive

LEMMA TypeNext == TypeOK /\ [Next]_vars => TypeOK'
<1> SUFFICES ASSUME TypeOK, [Next]_vars PROVE TypeOK'
  OBVIOUS
<1>0. None \notin Row
  BY NoneAssumption
<1>1. ASSUME NEW Z \in SUBSET Zones, BreakByClose(Z) PROVE TypeOK'
  <2> DEFINE new == [z \in Zones |-> IF z \in Z THEN Ended(row[z], TRUE) ELSE row[z]]
  <2>1. \A z \in Z : Ended(row[z], TRUE) \in Row
    BY <1>1, LiveRow, EndedType DEF BreakByClose
  <2>2. /\ new \in [Zones -> Row \cup {None}]
        /\ \A z \in Zones : new[z] = None => row[z] = None /\ z \notin Z
    BY <1>0, <2>1 DEF TypeOK
  <2>3. Change(new, Z)
    BY <1>1 DEF BreakByClose
  <2> HIDE DEF new
  <2> QED BY <2>2, <2>3, ChangeType
<1>2. ASSUME NEW z \in Zones, Deactivate(z) PROVE TypeOK'
  <2> DEFINE new == [row EXCEPT ![z] = [row[z] EXCEPT !.active = FALSE]]
  <2>1. [row[z] EXCEPT !.active = FALSE] \in Row
    BY <1>2, LiveRow DEF Deactivate, Row
  <2>2. /\ new \in [Zones -> Row \cup {None}]
        /\ \A y \in Zones : new[y] = None => row[y] = None /\ y \notin {z}
    BY <1>0, <2>1 DEF TypeOK
  <2>3. Change(new, {z})
    BY <1>2 DEF Deactivate
  <2> HIDE DEF new
  <2> QED BY <2>2, <2>3, ChangeType
<1>3. ASSUME NEW z \in Zones, AskActive(z) PROVE TypeOK'
  <2>1. /\ row \in [Zones -> Row \cup {None}]
        /\ \A y \in Zones : row[y] = None => row[y] = None /\ y \notin {z}
    BY <1>3 DEF AskActive, IsLive, TypeOK
  <2>2. Change(row, {z})
    BY <1>3 DEF AskActive
  <2> QED BY <2>1, <2>2, ChangeType
<1>4. ASSUME NEW z \in Zones, NEW flag \in BOOLEAN, Detect(z, flag) PROVE TypeOK'
  <2> DEFINE new == [row EXCEPT ![z] = Detected(row[z], flag)]
  <2>1. row[z] \in Row \cup {None}
    BY DEF TypeOK
  <2>2. Detected(row[z], flag) \in Row
    BY <2>1 DEF Detected, Row
  <2>3. Change(new, {z})
    BY <1>4 DEF Detect
  <2>4. /\ new \in [Zones -> Row \cup {None}]
        /\ \A y \in Zones : new[y] = None => row[y] = None /\ y \notin {z}
    BY <1>0, <2>2 DEF TypeOK
  <2> HIDE DEF new
  <2> QED BY <2>3, <2>4, ChangeType
<1>5. ASSUME NEW z \in Zones, NEW flag \in BOOLEAN, BreakByKey(z, flag) PROVE TypeOK'
  <2>1. Ended(row[z], flag) \in Row
    BY <1>5, LiveRow, EndedType DEF BreakByKey
  <2> QED BY <1>0, <1>5, <2>1 DEF BreakByKey, TypeOK
<1>6. ASSUME NEW z \in Zones, SyncRead(z) PROVE TypeOK'
  BY <1>6 DEF SyncRead, TypeOK
<1>7. CASE SyncWrite
  <2>1. copy \in [zone : todo, row : Row]
    BY <1>7 DEF SyncWrite, TypeOK
  <2>2. View(copy.row) \in Row
    BY <2>1, ViewOfRow
  <2> QED BY <1>0, <1>7, <2>1, <2>2 DEF SyncWrite, TypeOK
<1>8. CASE SyncFails
  BY <1>8, ZoneAssumption DEF SyncFails, Fault, TypeOK
<1>9. ASSUME NEW z \in Zones, NEW active \in BOOLEAN, NEW entry \in Entries \cup {0, None},
             Post(z, active, entry)
      PROVE TypeOK'
  <2>1. row[z] \in Row /\ proj[z] \in Row \cup {None}
    BY <1>9 DEF Post, TypeOK
  <2> QED BY <1>9, <2>1 DEF Post, TypeOK
<1>10. CASE Commit
  <2> DEFINE z   == edit.zone
             new == Flushed(edit.row, Edited(edit), row[z])
             p   == IF edit.proj = None THEN View(Edited(edit))
                    ELSE Flushed(edit.proj, View(Edited(edit)), proj[z])
  <2>1. /\ edit \in [zone : Zones, active : BOOLEAN, entry : Entries \cup {0, None},
                     row : Row, proj : Row \cup {None}]
        /\ z \in Zones
        /\ row[z] \in Row
    BY <1>10 DEF Commit, TypeOK
  <2>2. Edited(edit) \in Row /\ View(Edited(edit)) \in Row
    BY <2>1, EditedType, ViewOfRow
  <2>3. new \in Row
    BY <2>1, <2>2, FlushedType
  <2>4. edit.proj # None => proj[z] # None
    BY <1>10 DEF Commit, TypeOK
  <2>5. p \in Row
    BY <2>1, <2>2, <2>4, FlushedType DEF TypeOK
  <2> HIDE DEF new, p
  <2> QED BY <1>0, <1>10, <2>1, <2>3, <2>5 DEF Commit, TypeOK, new, p
<1>11. CASE CommitFails
  BY <1>11, ZoneAssumption DEF CommitFails, Fault, TypeOK
<1>12. CASE ApiRestart
  <2>1. \A z \in Zones : View(row[z]) \in Row \cup {None}
    BY ViewType DEF TypeOK
  <2> QED BY <1>12, <2>1, ZoneAssumption DEF ApiRestart, Fault, TypeOK
<1>13. CASE UNCHANGED vars
  BY <1>13 DEF vars, zoneVars, TypeOK
<1> QED
  BY <1>1, <1>2, <1>3, <1>4, <1>5, <1>6, <1>7, <1>8, <1>9, <1>10, <1>11, <1>12, <1>13
  DEF Next, Bot, Request

(* The type invariant of zones, projections, synchronisation and request,
   for every set of zones and prices.                                      *)
THEOREM TypeCorrect == Spec => []TypeOK
  BY TypeInit, TypeNext, PTL DEF Spec

-----------------------------------------------------------------------------
(***************************************************************************)
(* The projection follows the table.                                       *)
(***************************************************************************)
LEMMA ChangeFollows ==
  ASSUME ProjectionFollows, NEW newRow, NEW Z \in SUBSET Zones, Change(newRow, Z),
         \A z \in Zones \ Z : newRow[z] = row[z]
  PROVE  ProjectionFollows'
  BY DEF ProjectionFollows, Change

LEMMA FollowsNext == TypeOK /\ ProjectionFollows /\ [Next]_vars => ProjectionFollows'
<1> SUFFICES ASSUME TypeOK, ProjectionFollows, [Next]_vars PROVE ProjectionFollows'
  OBVIOUS
<1>1. ASSUME NEW Z \in SUBSET Zones, BreakByClose(Z) PROVE ProjectionFollows'
  <2> DEFINE new == [z \in Zones |-> IF z \in Z THEN Ended(row[z], TRUE) ELSE row[z]]
  <2>1. \A z \in Zones \ Z : new[z] = row[z]
    OBVIOUS
  <2>2. Change(new, Z)
    BY <1>1 DEF BreakByClose
  <2> HIDE DEF new
  <2> QED BY <2>1, <2>2, ChangeFollows
<1>2. ASSUME NEW z \in Zones, Deactivate(z) PROVE ProjectionFollows'
  <2> DEFINE new == [row EXCEPT ![z] = [row[z] EXCEPT !.active = FALSE]]
  <2>1. \A y \in Zones \ {z} : new[y] = row[y]
    BY DEF TypeOK
  <2>2. Change(new, {z})
    BY <1>2 DEF Deactivate
  <2> HIDE DEF new
  <2> QED BY <2>1, <2>2, ChangeFollows
<1>3. ASSUME NEW z \in Zones, AskActive(z) PROVE ProjectionFollows'
  BY <1>3, ChangeFollows DEF AskActive
<1>4. ASSUME NEW z \in Zones, NEW flag \in BOOLEAN, Detect(z, flag) PROVE ProjectionFollows'
  <2> DEFINE new == [row EXCEPT ![z] = Detected(row[z], flag)]
  <2>1. Change(new, {z})
    BY <1>4 DEF Detect
  <2>2. \A y \in Zones \ {z} : new[y] = row[y]
    BY DEF TypeOK
  <2> HIDE DEF new
  <2> QED BY <2>1, <2>2, ChangeFollows
<1>5. ASSUME NEW z \in Zones, NEW flag \in BOOLEAN, BreakByKey(z, flag) PROVE ProjectionFollows'
  BY <1>5 DEF BreakByKey, ProjectionFollows, TypeOK
<1>6. ASSUME NEW z \in Zones, SyncRead(z) PROVE ProjectionFollows'
  BY <1>6 DEF SyncRead, ProjectionFollows
<1>7. CASE SyncWrite
  (* A copy that is still the row makes the projection follow it; an older
     one puts the zone among the exceptions.                               *)
  <2>1. copy.zone \in Zones
    BY <1>7 DEF SyncWrite, TypeOK
  <2> QED BY <1>7, <2>1 DEF SyncWrite, ProjectionFollows, TypeOK
<1>8. CASE SyncFails
  BY <1>8 DEF SyncFails, ProjectionFollows
<1>9. ASSUME NEW z \in Zones, NEW active \in BOOLEAN, NEW entry \in Entries \cup {0, None},
             Post(z, active, entry)
      PROVE ProjectionFollows'
  BY <1>9 DEF Post, ProjectionFollows
<1>10. CASE Commit
  <2> DEFINE z == edit.zone
  <2>1. /\ edit \in [zone : Zones, active : BOOLEAN, entry : Entries \cup {0, None},
                     row : Row, proj : Row \cup {None}]
        /\ z \in Zones
    BY <1>10 DEF Commit, TypeOK
  <2>2. /\ Edited(edit) \in Row
        /\ View(Edited(edit)) \in Row
        /\ View(edit.row) \in Row
    BY <2>1, EditedType, ViewOfRow
  <2>3. \A y \in Zones \ {z} : row'[y] = row[y] /\ proj'[y] = proj[y]
    BY <1>10, <2>1 DEF Commit, TypeOK
  <2>4. doubt \subseteq doubt' /\ todo' = todo
    BY <1>10 DEF Commit
  <2>5. ASSUME z \notin doubt', z \notin todo PROVE proj'[z] = View(row'[z])
    <3>1. proj[z] = View(row[z])
      BY <2>1, <2>4, <2>5 DEF ProjectionFollows
    <3>2. CASE edit.proj = None /\ proj[z] # None
      BY <1>10, <3>1, <3>2 DEF Commit
    <3>3. CASE ~(edit.proj = None /\ proj[z] # None)
      <4>1. /\ row' = [row EXCEPT ![z] = Flushed(edit.row, Edited(edit), row[z])]
            /\ proj' = [proj EXCEPT ![z] =
                          IF edit.proj = None THEN View(Edited(edit))
                          ELSE Flushed(edit.proj, View(Edited(edit)), proj[z])]
            /\ edit.row = row[z] /\ edit.proj \in {None, View(edit.row)}
        BY <1>10, <2>5, <3>3 DEF Commit
      <4>2. row'[z] = Edited(edit)
        BY <2>1, <2>2, <4>1, FlushedUnchanged DEF TypeOK
      <4>3. proj'[z] = IF edit.proj = None THEN View(Edited(edit))
                       ELSE Flushed(edit.proj, View(Edited(edit)), proj[z])
        BY <2>1, <4>1 DEF TypeOK
      <4>4. edit.proj # None => edit.proj = View(edit.row) /\ proj[z] = View(edit.row)
        BY <3>1, <4>1
      <4>5. edit.proj # None => proj'[z] = View(Edited(edit))
        BY <2>2, <4>3, <4>4, FlushedUnchanged
      <4> QED BY <4>2, <4>3, <4>5
    <3> QED BY <3>2, <3>3
  <2> QED BY <2>3, <2>4, <2>5 DEF ProjectionFollows
<1>11. CASE CommitFails
  BY <1>11 DEF CommitFails, ProjectionFollows
<1>12. CASE ApiRestart
  (* A projection that is missing and not in doubt has no row.             *)
  BY <1>12 DEF ApiRestart, ProjectionFollows
<1>13. CASE UNCHANGED vars
  BY <1>13 DEF vars, zoneVars, ProjectionFollows
<1> QED
  BY <1>1, <1>2, <1>3, <1>4, <1>5, <1>6, <1>7, <1>8, <1>9, <1>10, <1>11, <1>12, <1>13
  DEF Next, Bot, Request

(* Outside the exceptions in `doubt' and the zones the bot is about to
   write, zone_projection is the view of zone_state, for every number of
   zones and faults.                                                       *)
THEOREM ProjectionFollowsHolds == Spec => []ProjectionFollows
<1>1. Init => ProjectionFollows
  BY DEF Init, ProjectionFollows, View
<1> QED BY <1>1, FollowsNext, TypeCorrect, PTL DEF Spec

(* Once nothing is left behind, the chart's startup snapshot has exactly
   the zones that are traded, and their entries.                           *)
THEOREM DrawnIsTradedHolds == Spec => []DrawnIsTraded
<1>1. TypeOK /\ ProjectionFollows => DrawnIsTraded
  <2> SUFFICES ASSUME TypeOK, ProjectionFollows, doubt = {}, todo = {}
               PROVE  Drawn = Traded
    BY DEF DrawnIsTraded
  <2> DEFINE D == {y \in Zones : proj[y] # None /\ proj[y].active}
             T == {y \in Zones : IsLive(y) /\ row[y].active}
  <2>1. ASSUME NEW y \in Zones
        PROVE  /\ proj[y] = View(row[y])
               /\ row[y] \in Row \cup {None}
    BY DEF ProjectionFollows, TypeOK
  <2>2. ASSUME NEW y \in Zones
        PROVE  /\ y \in D <=> y \in T
               /\ y \in T => proj[y].entry = row[y].entry
    <3>1. CASE row[y] = None
      BY <2>1, <3>1 DEF View, IsLive
    <3>2. CASE row[y] # None
      <4>1. /\ proj[y] # None
            /\ proj[y].active = (row[y].active /\ ~row[y].broken)
            /\ proj[y].entry = row[y].entry
        BY <2>1, <3>2, ViewOfRow
      <4> QED BY <3>2, <4>1 DEF IsLive
    <3> QED BY <3>1, <3>2
  <2>3. D = T
    BY <2>2
  <2> QED BY <2>2, <2>3 DEF Drawn, Traded
<1> QED BY <1>1, ProjectionFollowsHolds, TypeCorrect, PTL

-----------------------------------------------------------------------------
(***************************************************************************)
(* What is off stays off.                                                  *)
(***************************************************************************)
LEMMA StaysOffNext == TypeOK /\ Next => SwitchedOnKnowingly
<1> SUFFICES ASSUME TypeOK, Next,
                    NEW z \in Zones, row[z] # None, ~row[z].active, row'[z].active
             PROVE  edit # None /\ edit.zone = z /\ edit.active /\ ~edit.row.active
  BY DEF SwitchedOnKnowingly
<1>0. row[z] \in Row
  BY DEF TypeOK
<1>1. CASE Commit
  <2>1. /\ edit # None
        /\ edit.row \in Row /\ row[edit.zone] \in Row
        /\ edit \in [zone : Zones, active : BOOLEAN, entry : Entries \cup {0, None},
                     row : Row, proj : Row \cup {None}]
    BY <1>1 DEF Commit, TypeOK
  <2>2. row' # row
    OBVIOUS
  <2>3. row' = [row EXCEPT ![edit.zone] = Flushed(edit.row, Edited(edit), row[edit.zone])]
    BY <1>1, <2>2 DEF Commit
  <2>4. edit.zone = z
    BY <2>3 DEF TypeOK
  <2>5. row'[z] = Flushed(edit.row, Edited(edit), row[z])
    BY <2>3, <2>4 DEF TypeOK
  <2>6. Edited(edit).active # edit.row.active /\ Edited(edit).active
    BY <2>5 DEF Flushed
  <2>7. edit.active /\ edit.active # edit.row.active
    BY <2>6 DEF Edited
  <2>8. ~edit.row.active
    BY <2>1, <2>7 DEF Row
  <2> QED BY <2>1, <2>4, <2>7, <2>8
<1>2. ASSUME NEW off \in BOOLEAN PROVE row'[z] # row[z] /\ row'[z] # Ended(row[z], off)
  BY <1>0, EndedOff
<1>3. ASSUME NEW Z \in SUBSET Zones, BreakByClose(Z) PROVE FALSE
  <2>1. row'[z] \in {row[z], Ended(row[z], TRUE)}
    BY <1>3 DEF BreakByClose, Change
  <2> QED BY <1>2, <2>1
<1>4. ASSUME NEW y \in Zones, Deactivate(y) PROVE FALSE
  BY <1>4 DEF Deactivate, Change, IsLive, TypeOK, Row
<1>5. ASSUME NEW y \in Zones, NEW flag \in BOOLEAN, Detect(y, flag) \/ BreakByKey(y, flag)
      PROVE  FALSE
  <2>1. CASE Detect(y, flag)
    <3>1. row' = [row EXCEPT ![y] = Detected(row[y], flag)]
      BY <2>1 DEF Detect, Change
    <3>2. row[z] # None => ~Detected(row[z], flag).active \/ row[z].active
      BY DEF Detected
    <3> QED BY <1>2, <3>1, <3>2 DEF TypeOK
  <2>2. CASE BreakByKey(y, flag)
    <3>1. row'[z] \in {row[z], Ended(row[z], flag)}
      BY <2>2 DEF BreakByKey, TypeOK
    <3> QED BY <1>2, <3>1
  <2> QED BY <1>5, <2>1, <2>2
<1>6. CASE row' = row
  BY <1>6
<1> QED
  BY <1>1, <1>2, <1>3, <1>4, <1>5, <1>6
  DEF Next, Bot, Request, AskActive, Change, SyncRead, SyncWrite, SyncFails, Post,
      CommitFails, ApiRestart

(* Whatever the interleaving of bot and API, a zone that is off is switched
   on only for a request that read it off.                                 *)
THEOREM StaysOffHolds == Spec => StaysOff
<1>1. TypeOK /\ [Next]_vars => [SwitchedOnKnowingly]_vars
  BY StaysOffNext
<1> QED BY <1>1, TypeCorrect, PTL DEF Spec, StaysOff

-----------------------------------------------------------------------------
(***************************************************************************)
(* The zones of the composition behave as ZoneState says: every step of    *)
(* ControlNext is one of ZoneState's or leaves its variables alone but for *)
(* the count of faults.  What is proved of ZoneState's specification       *)
(* therefore has to be an invariant of a step that spends a fault, too.    *)
(***************************************************************************)
(* A fault of the switches: the zones' part of a step of Flag.             *)
LEMMA FlagStep ==
  ASSUME Flag!Own \/ Flag!BotRestart
  PROVE  UNCHANGED faults \/ Fault
  BY DEF Flag!Own, Flag!BotRestart, Flag!SetFlag, Flag!Connect, Flag!RefreshConnected,
         Flag!Receive, Flag!Refresh, Flag!Break, Flag!Lost, Flag!Fault, Fault

LEMMA ControlSteps == [ControlNext]_allVars => [Next]_vars \/ (Fault /\ UNCHANGED zoneVars)
<1> SUFFICES ASSUME [ControlNext]_allVars PROVE [Next]_vars \/ (Fault /\ UNCHANGED zoneVars)
  OBVIOUS
<1>1. CASE (Bot \/ Request) /\ UNCHANGED flagVars
  BY <1>1 DEF Next
<1>2. CASE Flag!Own /\ UNCHANGED zoneVars
  BY <1>2, FlagStep DEF vars
<1>3. CASE ApiRestart /\ Flag!ApiRestart
  BY <1>3 DEF Next
<1>4. CASE Flag!BotRestart /\ IF todo = {} THEN UNCHANGED zoneVars ELSE SyncFails
  BY <1>4, FlagStep DEF Next, Bot, vars
<1>5. CASE UNCHANGED allVars
  BY <1>5 DEF allVars, vars
<1> QED BY <1>1, <1>2, <1>3, <1>4, <1>5 DEF ControlNext

(* ProjectionFollows holds of the zones in the composition as well.        *)
THEOREM ControlProjectionFollows == ControlSpec => []ProjectionFollows
<1>1. ControlInit => TypeOK /\ ProjectionFollows
  BY TypeInit DEF ControlInit, Init, ProjectionFollows, View
<1>2. TypeOK /\ ProjectionFollows /\ [ControlNext]_allVars => TypeOK' /\ ProjectionFollows'
  <2> SUFFICES ASSUME TypeOK, ProjectionFollows, [ControlNext]_allVars
               PROVE  TypeOK' /\ ProjectionFollows'
    OBVIOUS
  <2>1. CASE [Next]_vars
    BY <2>1, TypeNext, FollowsNext
  <2>2. CASE Fault /\ UNCHANGED zoneVars
    BY <2>2, ZoneAssumption DEF Fault, zoneVars, TypeOK, ProjectionFollows
  <2> QED BY <2>1, <2>2, ControlSteps
<1> QED BY <1>1, <1>2, PTL DEF ControlSpec

(* And so does StaysOff.                                                   *)
THEOREM ControlStaysOff == ControlSpec => StaysOff
<1>1. ControlInit => TypeOK
  BY TypeInit DEF ControlInit
<1>2. TypeOK /\ [ControlNext]_allVars => TypeOK' /\ [SwitchedOnKnowingly]_vars
  <2> SUFFICES ASSUME TypeOK, [ControlNext]_allVars PROVE TypeOK' /\ [SwitchedOnKnowingly]_vars
    OBVIOUS
  <2>1. CASE [Next]_vars
    BY <2>1, TypeNext, StaysOffNext
  <2>2. CASE Fault /\ UNCHANGED zoneVars
    BY <2>2, ZoneAssumption DEF Fault, zoneVars, TypeOK, SwitchedOnKnowingly
  <2> QED BY <2>1, <2>2, ControlSteps
<1> QED BY <1>1, <1>2, PTL DEF ControlSpec, StaysOff
=============================================================================
