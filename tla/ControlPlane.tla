---------------------------- MODULE ControlPlane ----------------------------
(***************************************************************************)
(* What a user controls through the API: the zones and the order switches. *)
(* Both go through one API process, whose restart ends the request that    *)
(* edits a zone and the bot's control connection in one step; a restart of *)
(* the bot leaves a projection unwritten and reads the switches again.     *)
(* The zones keep their module's names; the switches are Flag's.           *)
(***************************************************************************)
EXTENDS ZoneState

CONSTANTS
  Keys,      \* enable_trading, enable_zone_strategy
  MaxSets    \* bound: settings of a switch

ASSUME ControlAssumption == MaxSets \in Nat

VARIABLES flags, sets, clients, notices, listener, cache, misread

flagVars == <<flags, sets, clients, notices, listener, cache, misread>>
allVars  == <<zoneVars, flagVars, faults>>

Flag == INSTANCE StrategyFlags

-----------------------------------------------------------------------------
ControlInit == Init /\ Flag!Init

ControlNext ==
  \/ (Bot \/ Request) /\ UNCHANGED flagVars
  \/ Flag!Own /\ UNCHANGED zoneVars
  \/ ApiRestart /\ Flag!ApiRestart
  \/ Flag!BotRestart /\ IF todo = {} THEN UNCHANGED zoneVars ELSE SyncFails

ControlSpec == ControlInit /\ [][ControlNext]_allVars /\ Flag!Listening

-----------------------------------------------------------------------------
(***************************************************************************)
(* StrategyFlags' property: the bot does not go on trading by switches     *)
(* that are no longer set, whatever is lost with the control connection.   *)
(***************************************************************************)
SwitchesArrive == Flag!SwitchesArrive
=============================================================================
