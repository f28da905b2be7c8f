---------------------------- MODULE StrategyFlags ----------------------------
(***************************************************************************)
(* The order switches.  A user sets them in MySQL through the API          *)
(* (backend/app/api/router.py), which tells whoever is connected to        *)
(* /ws/control (backend/app/api/ws/control.py).  The bot trades by a cache *)
(* in memory: its listener                                                 *)
(* (backend/core/ws/strategy_flag_push_listener.py) reads the table again  *)
(* after it connects and at every notice                                   *)
(* (backend/core/config/config_utils.py); what the notice says is ignored. *)
(***************************************************************************)
EXTENDS Naturals

CONSTANTS
  Keys,       \* enable_trading, enable_zone_strategy
  MaxSets,    \* bound: settings of a switch
  MaxFaults   \* bound: failed reads, lost connections, restarts

VARIABLES
  flags,     \* strategy_flags.bool_value, FALSE where it is null or missing
  sets,      \* settings so far
  clients,   \* the API: whether CONTROL_WS_CLIENTS has the bot's connection
  notices,   \* notices written to that connection and not read
  listener,  \* the bot: "down", "connected" (to read the table), "waiting"
  cache,     \* the bot: shared_state.strategy_flags
  misread,   \* history: the last reading of the table failed
  faults     \* faults so far

vars == <<flags, sets, clients, notices, listener, cache, misread, faults>>

-----------------------------------------------------------------------------
AllOff == [k \in Keys |-> FALSE]

Fault ==
  /\ faults < MaxFaults
  /\ faults' = faults + 1

Init ==
  /\ flags \in [Keys -> BOOLEAN]
  /\ sets = 0
  /\ clients = FALSE
  /\ notices = 0
  /\ listener = "down"
  /\ cache = flags
  /\ misread = FALSE
  /\ faults = 0

(***************************************************************************)
(* set_enable_trading(), set_enable_zone_strategy(): nothing is awaited    *)
(* between the commit and the notice.                                      *)
(***************************************************************************)
SetFlag(k, value) ==
  /\ sets < MaxSets
  /\ sets' = sets + 1
  /\ flags' = [flags EXCEPT ![k] = value]
  /\ notices' = IF clients THEN notices + 1 ELSE notices
  /\ UNCHANGED <<clients, listener, cache, misread, faults>>

-----------------------------------------------------------------------------
(***************************************************************************)
(* get_strategy_flags_from_db(): a reading that fails says all off.        *)
(***************************************************************************)
Refresh ==
  \/ /\ cache' = flags
     /\ misread' = FALSE
     /\ UNCHANGED faults
  \/ /\ Fault
     /\ cache' = AllOff
     /\ misread' = TRUE

Connect ==
  /\ listener = "down"
  /\ clients' = TRUE
  /\ notices' = 0
  /\ listener' = "connected"
  /\ UNCHANGED <<flags, sets, cache, misread, faults>>

\* Mutant: the table is read at a notice only.
WaitUnrefreshed ==
  /\ listener = "connected"
  /\ listener' = "waiting"
  /\ UNCHANGED <<flags, sets, clients, notices, cache, misread, faults>>

RefreshConnected ==
  /\ listener = "connected"
  /\ Refresh
  /\ listener' = "waiting"
  /\ UNCHANGED <<flags, sets, clients, notices>>

Receive ==
  /\ listener = "waiting"
  /\ notices > 0
  /\ notices' = notices - 1
  /\ Refresh
  /\ UNCHANGED <<flags, sets, clients, listener>>

(* The API has lost the connection; the bot finds out by its own pings.    *)
Break ==
  /\ Fault
  /\ clients
  /\ clients' = FALSE
  /\ UNCHANGED <<flags, sets, notices, listener, cache, misread>>

Lost ==
  /\ listener # "down"
  /\ ~clients
  /\ listener' = "down"
  /\ notices' = 0
  /\ UNCHANGED <<flags, sets, clients, cache, misread, faults>>

(* The API process restarts: it knows no client.                           *)
ApiRestart ==
  /\ Fault
  /\ clients' = FALSE
  /\ UNCHANGED <<flags, sets, notices, listener, cache, misread>>

(* main() reads the table when the bot starts.                             *)
BotRestart ==
  /\ Fault
  /\ cache' = flags
  /\ misread' = FALSE
  /\ clients' = FALSE
  /\ notices' = 0
  /\ listener' = "down"
  /\ UNCHANGED <<flags, sets>>

-----------------------------------------------------------------------------
Own ==
  \/ \E k \in Keys, value \in BOOLEAN : SetFlag(k, value)
  \/ Connect \/ RefreshConnected \/ Receive
  \/ Break \/ Lost

Next == Own \/ ApiRestart \/ BotRestart

(* The listener's task runs whenever it can; nothing makes a user, a fault
   or a restart happen.                                                    *)
Listening ==
  /\ WF_vars(Connect)
  /\ WF_vars(RefreshConnected)
  /\ WF_vars(Receive)
  /\ WF_vars(Lost)

Spec == Init /\ [][Next]_vars

(***************************************************************************)
(* The bot does not go on with switches that are no longer set: again and  *)
(* again it has what the table says, or it has everything off because it   *)
(* could not read it.  Notices are lost with a connection, so this rests   *)
(* on the reading after each connect.                                      *)
(***************************************************************************)
SwitchesArrive == []<>(cache = flags \/ (misread /\ cache = AllOff))
=============================================================================
