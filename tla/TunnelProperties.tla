-------------------------- MODULE TunnelProperties --------------------------
(***************************************************************************)
(* What the tunnel state machine promises, and the fairness under which it *)
(* promises it.                                                            *)
(***************************************************************************)
EXTENDS TunnelStateMachine

-----------------------------------------------------------------------------
(* Invariants.                                                             *)

(* Every variable has its type.                                            *)
TypeOK ==
    /\ OfflineTypeOK
    /\ MonitorTypeOK
    /\ state \in State
    /\ shared \in Shared
    /\ published \in TunnelState
    /\ intent \in {"up", "down"}
    /\ shutdown \in BOOLEAN

(***************************************************************************)
(* The `expect`s of the Connecting state never fail: the monitor's Up comes*)
(* only after the gateways it uses were recorded, and not after the failed *)
(* connection that makes the state forget them.                            *)
(***************************************************************************)
NoPanic == ~In("Panicked")

(***************************************************************************)
(* The user's last Connect or Disconnect is what the machine works towards,*)
(* whatever failures, settings, losses of connectivity and tunnel exits    *)
(* come in between: after Disconnect no path leads to a tunnel, and after  *)
(* Connect none leads to an open network, short of a shutdown.             *)
(***************************************************************************)
IntentDown ==
    intent = "down" =>
        /\ ~In("Connecting") /\ ~In("Connected")
        /\ In("Offline") => ~state.reconnect
        /\ In("Disconnecting") =>
            /\ state.after.kind # "Reconnect"
            /\ state.after.kind = "Offline" => ~state.after.reconnect

IntentUp ==
    intent = "up" /\ ~shutdown =>
        /\ ~In("Disconnected") /\ ~In("Finished")
        /\ In("Offline") => state.reconnect
        /\ In("Disconnecting") =>
            /\ state.after.kind \notin {"Nothing", "Exit"}
            /\ state.after.kind = "Offline" => state.after.reconnect

IntentRespected == IntentDown /\ IntentUp

(***************************************************************************)
(* The firewall policy is the one the state needs, unless the last firewall*)
(* operation failed: traffic outside the tunnel is blocked from Connect to *)
(* Disconnect, through errors, offline periods and reconnects.             *)
(***************************************************************************)
KillSwitch ==
    ~FirewallFault(shared) =>
        /\ In("Connecting") => shared.firewall.kind = "Connecting"
        /\ In("Connected") => shared.firewall.kind = "Connected"
        /\ In("Disconnecting") =>
            shared.firewall.kind \in {"Connecting", "Connected"}
        /\ In("Error") \/ In("Offline") => shared.firewall.kind = "Blocked"
        /\ In("Disconnected") => shared.firewall.kind = "None"

(***************************************************************************)
(* The account controller and discovery are allowed to use the network     *)
(* exactly while they can reach it: with no policy, over the tunnel, or    *)
(* with the resolved API addresses both let through and overriding DNS.    *)
(***************************************************************************)
Reachable ==
    \/ shared.firewall.kind \in {"None", "Connected"}
    \/ shared.firewall.kind = "Connecting" /\ shared.firewall.api /\ shared.preresolve

NetworkingFollowsFirewall ==
    /\ shared.networking /\ ~FirewallFault(shared) => Reachable
    /\ In("Disconnected") \/ In("Connected") => shared.networking
    /\ In("Connecting") => (shared.networking <=> HasHandle)
    /\ In("Offline") \/ In("Error") \/ In("Disconnecting") => ~shared.networking

(***************************************************************************)
(* allow_lan takes effect in whatever state it is changed: the policy in   *)
(* force has its current value wherever a handler is bound to update it.   *)
(***************************************************************************)
LanFollowsSettings ==
    /\ In("Connecting") \/ In("Connected") \/ In("Error") \/ In("Offline")
    /\ ~FirewallFault(shared)
    => shared.firewall.lan = shared.settings.lan

(***************************************************************************)
(* There is a monitor task exactly while a state holds its handle: none is *)
(* orphaned, none is started twice, and none is waited for in vain.  (Of   *)
(* one that answered Down in Connected and is returning, see ConnectedDown,*)
(* nothing is said.)                                                       *)
(***************************************************************************)
MonitorOwned ==
    MonitorRuns <=> \/ In("Connecting") /\ HasHandle
                    \/ In("Connected") \/ In("Disconnecting") \/ In("Panicked")

(***************************************************************************)
(* Connected means it: the routes and the tunnel's DNS are in place, the   *)
(* policy lets through the very gateways the monitor connected to, SOCKS5  *)
(* goes through the tunnel, and no gateway is held to be failing.          *)
(***************************************************************************)
ConnectedIsComplete ==
    In("Connected") =>
        /\ routes /\ shared.dns = "Tunnel" /\ shared.socks5 /\ ~shared.blacklist
        /\ state.gateways = monitor.gateways
        /\ shared.firewall.entry = monitor.gateways

(***************************************************************************)
(* The tunnel's DNS servers are configured only in the Connected state, on *)
(* every way out of it, unless resetting DNS failed.                       *)
(***************************************************************************)
DnsOnlyWhenConnected ==
    shared.dns = "Tunnel" => In("Connected") \/ DnsFault(shared)

(***************************************************************************)
(* While its events are heard, the monitor dials the gateways only after   *)
(* the firewall lets it: the gateways before registration, the registered  *)
(* peer before the tunnel, the tunnel interface before the probes.  It     *)
(* holds when the state machine answers within REPLY_TIMEOUT.              *)
(***************************************************************************)
FirewallBeforeDial ==
    listening =>
        /\ monitor.stage \in DiallingStages =>
            shared.firewall.entry = monitor.gateways
        /\ monitor.stage \in {"StartingTunnel", "RoutesSet",
                              "AwaitingInterfaceReply", "Probing", "Up"} =>
            shared.firewall.peer
        /\ monitor.stage \in {"Probing", "Up"} => shared.firewall.tunnel

-----------------------------------------------------------------------------
(* Action properties.                                                      *)

(***************************************************************************)
(* The firewall is opened, once closed, only for a user who disconnected or*)
(* for a shutdown.                                                         *)
(***************************************************************************)
NeverOpensUnasked ==
    [][shared.firewall.kind # "None" /\ shared'.firewall.kind = "None"
        => intent' = "down" \/ shutdown]_vars

(***************************************************************************)
(* Within one attempt, the progress shown to clients never goes back.      *)
(***************************************************************************)
Rank ==
    [ ResolvingApiAddresses |-> 1, AwaitingAccountReadiness |-> 2,
      RefreshingGateways |-> 3, SelectingGateways |-> 4,
      RegisteringWithGateways |-> 5, ConnectingTunnel |-> 6 ]

ProgressMonotone ==
    [][published.name = "Connecting" /\ published'.name = "Connecting"
        /\ published'.detail # "ResolvingApiAddresses"
        => Rank[published.detail] <= Rank[published'.detail]]_vars

(***************************************************************************)
(* A gateway selection is forgotten when the settings it was made for      *)
(* change, except in Disconnecting, whose handler leaves it as it is.      *)
(***************************************************************************)
Selection ==
    CASE In("Connecting") \/ In("Connected") \/ In("Offline") -> state.gateways
      [] In("Disconnecting") /\ state.after.kind = "Offline" -> state.after.gateways
      [] OTHER -> NoGateways

SelectionFresh == Selection \in {NoGateways, shared.settings.point}

SelectionStaysFresh ==
    [][SelectionFresh /\ ~(In("Disconnecting") /\ shared'.settings # shared.settings)
        => SelectionFresh']_vars

-----------------------------------------------------------------------------
(* The refinement.                                                         *)

Network ==
    IF In("Connected") THEN "tunnelled"
    ELSE IF shared.firewall.kind = "None" THEN "open"
    ELSE "closed"

Lifecycle ==
    INSTANCE TunnelLifecycle WITH
        shown <- published.name, network <- Network, ended <- In("Finished")

(***************************************************************************)
(* The state machine implements the life cycle it promises: whatever fails,*)
(* clients see Connected only over a tunnel their last command asked for,  *)
(* reached from Connecting behind a closed firewall, and the network opens *)
(* only as TunnelLifecycle lets it.                                        *)
(***************************************************************************)
ImplementsLifecycle == Lifecycle!LifecycleSpec

-----------------------------------------------------------------------------
(* Liveness.                                                               *)

(***************************************************************************)
(* tokio runs the tasks that can run, and select! polls its branches in a  *)
(* random order: a branch that stays ready is taken in the end, whatever   *)
(* the others do.  The service sends no command once it cancels the token, *)
(* so that those left are the few already in the channel.  Nothing is      *)
(* assumed of the account, the directory, gateways, tunnels, or routes.    *)
(***************************************************************************)
MonitorAdvances == MonitorProgress /\ UNCHANGED <<machineVars, offlineVars>>

Fairness ==
    /\ WF_vars(OfflineMonitorTask)
    /\ WF_vars(MonitorAdvances)
    /\ WF_vars(HandleFuture)
    /\ WF_vars(HandleMonitorEvent)
    /\ WF_vars(HandleConnectivity)
    /\ WF_vars(HandleShutdown)
    /\ <>[][shutdown => ~HandleCommand]_vars

FairSpec == Spec /\ Fairness

(* A shutdown ends the state machine, though clients go on sending commands*)
(* and the tunnel may be at any stage.                                     *)
ShutdownTerminates == shutdown ~> In("Finished")

(* Disconnecting ends: the monitor it waits for is never itself waiting for*)
(* an answer from it.                                                      *)
DisconnectCompletes == In("Disconnecting") ~> ~In("Disconnecting")

(***************************************************************************)
(* Offline is left for Connecting when the host gets back online, provided *)
(* the loss was notified: see ReconnectsOnceOnline for when it was not.    *)
(***************************************************************************)
OfflineLeftWhenNotified ==
    (In("Offline") /\ state.reconnect /\ ~watch.value)
        ~> (~In("Offline") \/ ~state.reconnect \/ ~online)

(* In Offline, a tunnel that is to be reconnected is once the host is back *)
(* online for good.                                                        *)
ReconnectsOnceOnline ==
    <>[]online => []<>~(In("Offline") /\ state.reconnect)

=============================================================================
