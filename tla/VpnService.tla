------------------------------ MODULE VpnService ------------------------------
(***************************************************************************)
(* The actor between the clients and the tunnel (service/vpn_service.rs of *)
(* nym-vpn-lib).  It keeps the target state and the configuration, sends   *)
(* commands to the state machine over an unbounded channel, and reads back *)
(* the states the machine shows over another.  On both sides it decides on *)
(* what may be stale: a copy of the last state it read.                    *)
(*                                                                         *)
(* The state machine stands here as what it promises, TunnelLifecycle,     *)
(* which TunnelProperties shows it to implement.                           *)
(***************************************************************************)
EXTENDS TunnelLifecycle, Sequences

CONSTANTS
    MaxConfig,    \* bound on the changes of configuration
    MaxInFlight   \* bound on commands and events under way, for new ones

ASSUME ServiceBounds == MaxConfig \in Nat /\ MaxInFlight \in Nat

VARIABLES
    stage,         \* of run: "running", "joining" the machine, "exited"
    target,        \* target_state
    config,        \* the version of the settings the configuration yields
    timer,         \* whether tunnel_settings_update_timer is set
    changingKeys,  \* whether an account command awaits the controller
    tunnelState,   \* the copy of the state that clients read
    missed,        \* history: whether the last event missed the copy
    told,          \* the last state broadcast to the clients
    commands,      \* to the state machine
    events,        \* from the state machine
    joined,        \* the machine's handle has resolved and `events` is closed
    settings       \* the version the state machine works with

serviceVars == <<stage, target, config, timer, changingKeys, tunnelState, missed, told, joined>>
channels == <<commands, events>>
vars == <<lifecycleVars, serviceVars, channels, settings>>

Connect == [kind |-> "Connect"]
Disconnect == [kind |-> "Disconnect"]
CommandFor(new) == IF new = "Secured" THEN Connect ELSE Disconnect
SetTunnelSettings(version) == [kind |-> "SetTunnelSettings", version |-> version]

Versions == 0..MaxConfig
TunnelCommands == {Connect, Disconnect} \cup {SetTunnelSettings(v) : v \in Versions}
Targets == {"Secured", "Unsecured"}

TypeOK ==
    /\ LifecycleTypeOK
    /\ stage \in {"running", "joining", "exited"}
    /\ target \in Targets
    /\ config \in Versions /\ settings \in Versions
    /\ timer \in BOOLEAN /\ changingKeys \in BOOLEAN
    /\ missed \in BOOLEAN /\ joined \in BOOLEAN
    /\ tunnelState \in ShownStates /\ told \in ShownStates
    /\ commands \in Seq(TunnelCommands)
    /\ events \in Seq(ShownStates)
    /\ stage = "running" <=> ~shutdown
    /\ joined => ended

Init ==
    /\ LifecycleInit
    /\ stage = "running"
    /\ target = "Unsecured"
    /\ config = 0 /\ settings = 0
    /\ timer = FALSE /\ changingKeys = FALSE
    /\ missed = FALSE /\ joined = FALSE
    /\ tunnelState = "Disconnected" /\ told = "Disconnected"
    /\ commands = <<>> /\ events = <<>>

-----------------------------------------------------------------------------
(* The actor.  It handles one command at a time.                           *)

Serving == stage = "running" /\ ~changingKeys
Room == Len(commands) + Len(events) < MaxInFlight
Send(command) == commands' = Append(commands, command)

(* Mutant: an Error is not asked about.                                    *)
AcceptsChangesOnly(new) == target # new

(* What a change of target is decided on.                                  *)
Accepts(new) == target # new \/ tunnelState = "Error"

(* Mutant: the pending settings are dropped.                               *)
SetTargetStateDropsTimer(new) ==
    /\ Serving /\ Room
    /\ Accepts(new)
    /\ target' = new
    /\ timer' = FALSE
    /\ Send(CommandFor(new))
    /\ UNCHANGED <<lifecycleVars, stage, config, changingKeys, tunnelState, missed, told, joined,
                   events, settings>>

SetTargetState(new) ==
    /\ Serving /\ Room
    /\ Accepts(new)
    /\ target' = new
    /\ Send(CommandFor(new))
    /\ UNCHANGED <<lifecycleVars, stage, config, timer, changingKeys, tunnelState, missed,
                   told, joined, events, settings>>

ReconnectTunnel ==
    /\ Serving /\ Room
    /\ target = "Secured"
    /\ Send(Connect)
    /\ UNCHANGED <<lifecycleVars, serviceVars, events, settings>>

(* A client changes the configuration.  While the tunnel is wanted, the    *)
(* state machine is told a second after the last change.                   *)
ChangeConfig ==
    /\ Serving /\ config < MaxConfig
    /\ config' = config + 1
    /\ IF target = "Secured"
       THEN timer' = TRUE /\ UNCHANGED commands
       ELSE Send(SetTunnelSettings(config')) /\ UNCHANGED timer
    /\ UNCHANGED <<lifecycleVars, stage, target, changingKeys, tunnelState, missed, told, joined,
                   events, settings>>

UpdateTunnelSettings ==
    /\ Serving /\ timer
    /\ timer' = FALSE
    /\ Send(SetTunnelSettings(config))
    /\ UNCHANGED <<lifecycleVars, stage, target, config, changingKeys, tunnelState, missed, told,
                   joined, events, settings>>

(* Forgetting the account, rotating keys, resetting the device identity:   *)
(* the actor waits for the account controller, the tunnel goes on.         *)
ChangeKeys ==
    /\ Serving
    /\ tunnelState = "Disconnected"
    /\ changingKeys' = TRUE
    /\ UNCHANGED <<lifecycleVars, stage, target, config, timer, tunnelState, missed, told, joined,
                   channels, settings>>

KeysChanged ==
    /\ changingKeys
    /\ changingKeys' = FALSE
    /\ UNCHANGED <<lifecycleVars, stage, target, config, timer, tunnelState, missed, told, joined,
                   channels, settings>>

(* The copy is written if no task of the SOCKS5 service is reading it.     *)
HandleTunnelEvent ==
    /\ Serving \/ stage = "joining"
    /\ events # <<>>
    /\ \E written \in BOOLEAN :
          /\ tunnelState' = IF written THEN Head(events) ELSE tunnelState
          /\ missed' = ~written
    /\ told' = Head(events)
    /\ events' = Tail(events)
    /\ UNCHANGED <<lifecycleVars, stage, target, config, timer, changingKeys, joined, commands,
                   settings>>

-----------------------------------------------------------------------------
(* Shutting down.                                                          *)

(* Mutant: the state machine is not cancelled.                             *)
ShutdownUncancelled ==
    /\ Serving
    /\ stage' = "joining"
    /\ UNCHANGED <<lifecycleVars, target, config, timer, changingKeys, tunnelState, missed, told,
                   joined, channels, settings>>

Shutdown ==
    /\ Serving
    /\ stage' = "joining"
    /\ Cancel
    /\ UNCHANGED <<target, config, timer, changingKeys, tunnelState, missed, told, joined, channels,
                   settings>>

MachineJoined ==
    /\ stage = "joining" /\ ended /\ ~joined
    /\ joined' = TRUE
    /\ UNCHANGED <<lifecycleVars, stage, target, config, timer, changingKeys, tunnelState, missed,
                   told, channels, settings>>

(* Mutant: the events that are left are not read.                          *)
ExitUndrained ==
    /\ stage = "joining" /\ joined
    /\ stage' = "exited"
    /\ UNCHANGED <<lifecycleVars, target, config, timer, changingKeys, tunnelState, missed, told,
                   joined, channels, settings>>

(* The closed channel is empty: the other services are stopped and joined. *)
Exit ==
    /\ stage = "joining" /\ joined /\ events = <<>>
    /\ stage' = "exited"
    /\ UNCHANGED <<lifecycleVars, target, config, timer, changingKeys, tunnelState, missed, told,
                   joined, channels, settings>>

-----------------------------------------------------------------------------
(* The state machine.                                                      *)

Show == events' = IF shown' = shown THEN events ELSE Append(events, shown')

TakeCommand ==
    /\ commands # <<>>
    /\ commands' = Tail(commands)
    /\ LET command == Head(commands) IN
       \/ /\ command = Connect
          /\ intent' = "up" /\ Advance /\ ended' = ended
          /\ UNCHANGED settings
       \/ /\ command = Disconnect
          /\ intent' = "down" /\ Advance /\ ended' = ended
          /\ UNCHANGED settings
       \/ /\ command.kind = "SetTunnelSettings" /\ ~ended
          /\ settings' = command.version
          /\ UNCHANGED lifecycleVars \/ (UNCHANGED intent /\ Advance /\ ended' = ended)
    /\ Show
    /\ UNCHANGED serviceVars

(* Anything else that happens to the tunnel.                               *)
MachineStep ==
    /\ Room
    /\ intent' = intent
    /\ Advance
    /\ Show
    /\ UNCHANGED <<serviceVars, commands, settings>>

Next ==
    \/ \E new \in Targets : SetTargetState(new)
    \/ ReconnectTunnel
    \/ ChangeConfig
    \/ UpdateTunnelSettings
    \/ ChangeKeys
    \/ KeysChanged
    \/ HandleTunnelEvent
    \/ Shutdown
    \/ MachineJoined
    \/ Exit
    \/ TakeCommand
    \/ MachineStep

Spec == Init /\ [][Next]_vars

(***************************************************************************)
(* tokio runs every task that can run, and both select! loops poll their   *)
(* branches in a random order: a timer or an event that waits through many *)
(* rounds is taken in one of them.  The account controller answers.        *)
(* Nothing is assumed of the tunnel, nor that the machine ever ends.       *)
(***************************************************************************)
Fairness ==
    /\ WF_vars(TakeCommand)
    /\ SF_vars(UpdateTunnelSettings)
    /\ WF_vars(KeysChanged)
    /\ SF_vars(HandleTunnelEvent)
    /\ WF_vars(MachineJoined)
    /\ WF_vars(Exit)

FairSpec == Spec /\ Fairness

-----------------------------------------------------------------------------
(* Properties.                                                             *)

Wanted(new) == IF new = "Secured" THEN "up" ELSE "down"
IsSettings(i) == commands[i].kind = "SetTunnelSettings"

(* What the last Connect or Disconnect under way asks for, or, when there  *)
(* is none, the last one taken.                                            *)
Pursued(new) ==
    \/ /\ \A i \in DOMAIN commands : IsSettings(i)
       /\ intent = Wanted(new)
    \/ \E i \in DOMAIN commands :
          /\ commands[i] = CommandFor(new)
          /\ \A j \in DOMAIN commands : j > i => IsSettings(j)

CaughtUp == events = <<>> /\ ~missed

(* A request that is turned down asks for what is already pursued, and a   *)
(* tunnel in Error can always be told to try again.                        *)
RefusedIsPursued ==
    \A new \in Targets :
        ~Accepts(new) =>
            /\ Pursued(new)
            /\ CaughtUp => shown # "Error"

(* Keys change under no tunnel the service could have known of.            *)
KeysChangeWhileDown == changingKeys /\ CaughtUp => shown = "Disconnected"

(***************************************************************************)
(* What the actor decides on its copy of the state is right whenever it    *)
(* has caught up with the machine: set_target_state, and the guards of     *)
(* handle_forget_account, handle_rotate_keys, handle_reset_device_identity.*)
(***************************************************************************)
DecisionsAreCurrent == stage = "running" => RefusedIsPursued /\ KeysChangeWhileDown

(***************************************************************************)
(* Settings a client changes reach the state machine, although every       *)
(* change restarts the timer and the target may change meanwhile.          *)
(***************************************************************************)
SettingsArrive ==
    \A version \in Versions :
        config = version ~> (settings = version \/ config # version \/ shutdown)

(***************************************************************************)
(* A shutdown ends the service if the state machine ends, and not before   *)
(* the clients have been told the last state of the tunnel.                *)
(***************************************************************************)
ShutdownIsTold ==
    (shutdown ~> ended)
        => /\ shutdown ~> stage = "exited"
           /\ [](stage = "exited" => ended /\ told = shown)

=============================================================================
