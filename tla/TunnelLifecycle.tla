---------------------------- MODULE TunnelLifecycle ----------------------------
(***************************************************************************)
(* What the tunnel promises to the service and its clients: the states it  *)
(* shows them (TunnelState of nym-vpn-lib-types), the user's intent, and   *)
(* what the host's traffic can reach.  How a tunnel is built does not      *)
(* appear here.  TunnelProperties shows that the state machine implements  *)
(* this specification, and VpnService uses it in the machine's place.      *)
(***************************************************************************)
EXTENDS Integers

VARIABLES
    shown,     \* the name of the last TunnelState sent
    network,   \* "open", "closed" by the firewall, or "tunnelled"
    intent,    \* the last of Connect and Disconnect that was taken
    shutdown,  \* whether the shutdown token is cancelled
    ended      \* whether the state machine has returned

lifecycleVars == <<shown, network, intent, shutdown, ended>>

ShownStates ==
    {"Disconnected", "Connecting", "Connected", "Disconnecting", "Offline", "Error"}

LifecycleTypeOK ==
    /\ shown \in ShownStates
    /\ network \in {"open", "closed", "tunnelled"}
    /\ intent \in {"up", "down"}
    /\ shutdown \in BOOLEAN
    /\ ended \in BOOLEAN

-----------------------------------------------------------------------------

(* What is left of the network when a policy cannot be applied.            *)
Unchanged == IF network = "open" THEN "open" ELSE "closed"

(* A tunnel is built only for a user who wants one, behind the firewall.   *)
Dial ==
    /\ intent' = "up"
    /\ shown' = "Connecting"
    /\ network' = "closed"

Establish ==
    /\ shown = "Connecting" /\ intent = "up"
    /\ shown' = "Connected"
    /\ network' = "tunnelled"
    /\ UNCHANGED intent

(* The tunnel is being taken down: the firewall stays closed.              *)
Release ==
    /\ shown \in {"Connecting", "Connected"}
    /\ shown' = "Disconnecting"
    /\ network' = "closed"

(* The network is opened only for a user who disconnected or at shutdown,  *)
(* and never straight from Connected.                                      *)
OpenNetwork ==
    /\ intent' = "down" \/ shutdown
    /\ shown # "Connected"
    /\ shown' = "Disconnected"
    /\ network' \in {"open", Unchanged}

(* Without connectivity, or after an error, traffic is blocked.            *)
Hold ==
    /\ shown' \in {"Offline", "Error"}
    /\ network' \in {"closed", Unchanged}

(* A command that changes nothing yet but what is to come.                 *)
Ask ==
    /\ shown \in {"Disconnected", "Disconnecting", "Offline"}
    /\ UNCHANGED <<shown, network>>

(* New settings are applied where a policy could not be before.             *)
Tighten ==
    /\ network = "open"
    /\ network' = "closed"
    /\ UNCHANGED <<shown, intent>>

(* The state machine returns, opening the network if it can.               *)
End ==
    /\ shutdown
    /\ shown \in {"Disconnected", "Offline", "Error"}
    /\ ended' = TRUE
    /\ network' \in {"open", Unchanged}
    /\ UNCHANGED <<shown, intent>>

Cancel ==
    /\ ~shutdown
    /\ shutdown' = TRUE
    /\ UNCHANGED <<shown, network, intent, ended>>

(* The effect of a command or of an event on the tunnel.                   *)
Advance ==
    /\ ~ended
    /\ \/ /\ Dial \/ Establish \/ Release \/ OpenNetwork \/ Hold \/ Ask \/ Tighten
          /\ intent' \in {"up", "down"}
          /\ UNCHANGED ended
       \/ End
    /\ UNCHANGED shutdown

(* A machine that starts offline has shown nothing of it yet.              *)
LifecycleInit ==
    /\ shown = "Disconnected"
    /\ network \in {"open", "closed"}
    /\ intent = "down"
    /\ shutdown = FALSE
    /\ ended = FALSE

LifecycleNext == Advance \/ Cancel

LifecycleSpec == LifecycleInit /\ [][LifecycleNext]_lifecycleVars

=============================================================================
