------------------------- MODULE TunnelStateMachine -------------------------
(***************************************************************************)
(* The tunnel state machine (crate nym-vpn-lib, tunnel_state_machine), in  *)
(* its Linux build, with the two tasks it talks to: the tunnel monitor and *)
(* the offline monitor.                                                    *)
(*                                                                         *)
(* `state` is the struct of the current state handler and `shared` the part*)
(* of SharedState that handlers change.  An `Enter` operator mirrors the   *)
(* async fn `enter` of a state: it maps the shared state it is called with *)
(* to the set of its outcomes, more than one when applying a firewall      *)
(* policy or DNS servers may fail.  An action is one run of `handle_event`:*)
(* the branch of its select! that fires, up to the state it returns.       *)
(***************************************************************************)
EXTENDS OfflineMonitor, TunnelMonitor

CONSTANTS
    MaxRetry,          \* stands for u32::MAX, where the attempts saturate
    FirewallMayFail,   \* whether firewall operations may fail
    DnsMayFail,        \* whether DNS operations may fail
    LanMayChange,      \* whether clients change the allow_lan setting
    BlockMayCome       \* whether the split tunnel (not on Linux) can fail

ASSUME RetryAssumption == MaxRetry \in Nat \ {0}
ASSUME FailureAssumption == FirewallMayFail \in BOOLEAN /\ DnsMayFail \in BOOLEAN
ASSUME CommandAssumption == LanMayChange \in BOOLEAN /\ BlockMayCome \in BOOLEAN

VARIABLES
    state,      \* the current state handler
    shared,     \* the shared state
    published,  \* the last TunnelState sent to clients
    intent,     \* whether the last Connect or Disconnect handled was a Connect
    shutdown    \* whether the shutdown token is cancelled

machineVars == <<state, shared, published, intent, shutdown>>
vars == <<machineVars, offlineVars, monitorVars>>

-----------------------------------------------------------------------------
(* The shared state.                                                       *)

Settings == [point : Points, lan : BOOLEAN]

(***************************************************************************)
(* A firewall policy: its kind, whether LAN traffic is allowed, the        *)
(* gateways whose endpoints are allowed, and whether API endpoints, the    *)
(* peer that registration agreed on and the tunnel interface are.          *)
(***************************************************************************)
Policy ==
    [kind : {"None", "Blocked", "Connecting", "Connected"}, lan : BOOLEAN,
     entry : MaybeGateways, api : BOOLEAN, peer : BOOLEAN, tunnel : BOOLEAN]

NoPolicy ==
    [kind |-> "None", lan |-> TRUE, entry |-> NoGateways,
     api |-> FALSE, peer |-> FALSE, tunnel |-> FALSE]

BlockedPolicy(lan) == [NoPolicy EXCEPT !.kind = "Blocked", !.lan = lan]

ConnectingPolicy(lan, gateways) ==
    [NoPolicy EXCEPT !.kind = "Connecting", !.lan = lan, !.entry = gateways]

(* Mutant of ConnectedPolicy: the gateways' endpoints are left out.        *)
ConnectedPolicyWithoutEntry(lan, gateways) ==
    [NoPolicy EXCEPT !.kind = "Connected", !.lan = lan, !.peer = TRUE,
                     !.tunnel = TRUE]

ConnectedPolicy(lan, gateways) ==
    [NoPolicy EXCEPT !.kind = "Connected", !.lan = lan, !.entry = gateways,
                     !.peer = TRUE, !.tunnel = TRUE]

(***************************************************************************)
(* networking: discovery and the account controller may use the network;   *)
(* geo: geolocation is active; preresolve: DNS overrides are set; socks5:  *)
(* the SOCKS5 proxy has tunnel addresses; blacklist: entry gateways are    *)
(* blacklisted; faults: the operations whose last run failed.              *)
(***************************************************************************)
Shared ==
    [settings : Settings, firewall : Policy, dns : {"Default", "Tunnel"},
     networking : BOOLEAN, geo : BOOLEAN, preresolve : BOOLEAN,
     socks5 : BOOLEAN, blacklist : BOOLEAN,
     faults : SUBSET {"firewall", "dns"}]

FirewallFault(s) == "firewall" \in s.faults
DnsFault(s) == "dns" \in s.faults

(* A firewall operation that sets the policy to p, or fails and leaves it. *)
SetFirewall(p, s) ==
    {[s EXCEPT !.firewall = p, !.faults = @ \ {"firewall"}]}
        \cup {t \in {[s EXCEPT !.faults = @ \cup {"firewall"}]} : FirewallMayFail}

SetDns(servers, s) ==
    {[s EXCEPT !.dns = servers, !.faults = @ \ {"dns"}]}
        \cup {t \in {[s EXCEPT !.faults = @ \cup {"dns"}]} : DnsMayFail}

ResetDns(s) == SetDns("Default", s)

AllowNetworking(s) == [s EXCEPT !.networking = TRUE]

(* Mutant of DisallowNetworking: only geolocation is told.                 *)
DisallowGeoOnly(s) == [s EXCEPT !.geo = FALSE]

DisallowNetworking(s) == [s EXCEPT !.networking = FALSE, !.geo = FALSE]

-----------------------------------------------------------------------------
(* The states.  `gateways` are the selected gateways; `phase` tells which  *)
(* of its futures the Connecting state waits for: the reconnect delay, the *)
(* resolution of the API addresses, or the tunnel monitor it then holds a  *)
(* handle of.                                                              *)

After ==
    [kind : {"Nothing", "Reconnect", "Error"}]
        \cup [kind : {"Offline"}, reconnect : BOOLEAN, gateways : MaybeGateways]
        \cup [kind : {"Exit"}]

ConnectingStates ==
    [name : {"Connecting"}, retry : 0..MaxRetry, gateways : MaybeGateways,
     phase : {"Delay", "Resolving", "Monitoring"}]

State ==
    [name : {"Disconnected", "Error", "Finished", "Panicked"}]
        \cup [name : {"Offline"}, reconnect : BOOLEAN, gateways : MaybeGateways]
        \cup ConnectingStates
        \cup [name : {"Connected"}, gateways : Points]
        \cup [name : {"Disconnecting"}, after : After]

Simple(name) == [name |-> name]
Nothing == [kind |-> "Nothing"]
Reconnect == [kind |-> "Reconnect"]
ToError == [kind |-> "Error"]

(* Shutdown in Disconnecting: what was to happen after is forgotten.       *)
Exit == [kind |-> "Exit"]

ToOffline(reconnect, gateways) ==
    [kind |-> "Offline", reconnect |-> reconnect, gateways |-> gateways]

OfflineState(reconnect, gateways) ==
    [name |-> "Offline", reconnect |-> reconnect, gateways |-> gateways]

ConnectingState(retry, gateways) ==
    [name |-> "Connecting", retry |-> retry, gateways |-> gateways,
     phase |-> "Delay"]

DisconnectingState(after) == [name |-> "Disconnecting", after |-> after]

ConnectedState(gateways) == [name |-> "Connected", gateways |-> gateways]

Outcome(st, s) == [state |-> st, shared |-> s]

-----------------------------------------------------------------------------
(* Entering a state.                                                       *)

EnterDisconnected(s) ==
    { Outcome(Simple("Disconnected"),
              [AllowNetworking(t) EXCEPT !.preresolve = FALSE, !.geo = TRUE,
                                         !.socks5 = FALSE]) :
        t \in UNION {SetFirewall(NoPolicy, d) : d \in ResetDns(s)} }

EnterError(s) ==
    { Outcome(Simple("Error"), [t EXCEPT !.socks5 = FALSE]) :
        t \in SetFirewall(BlockedPolicy(s.settings.lan), DisallowNetworking(s)) }

(* Mutant of EnterOffline: the policy of the state left stays in force.    *)
EnterOfflineUnblocked(reconnect, gateways, s) ==
    {Outcome(OfflineState(reconnect, gateways), DisallowNetworking(s))}

EnterOffline(reconnect, gateways, s) ==
    { Outcome(OfflineState(reconnect, gateways), t) :
        t \in SetFirewall(BlockedPolicy(s.settings.lan), DisallowNetworking(s)) }

EnterConnecting(retry, gateways, s) ==
    IF IsOffline
    THEN EnterOffline(TRUE, gateways, DisallowNetworking(s))
    ELSE UNION { IF FirewallFault(t)
                 THEN EnterError(t)
                 ELSE {Outcome(ConnectingState(retry, gateways), t)} :
                   t \in SetFirewall(ConnectingPolicy(s.settings.lan, gateways),
                                     DisallowNetworking(s)) }

(* Mutant of OnDisconnect: after a failure the network is opened.          *)
OnDisconnectOpens(after, s) ==
    CASE after.kind \in {"Nothing", "Exit", "Error"} -> EnterDisconnected(s)
      [] after.kind = "Reconnect" -> EnterConnecting(0, NoGateways, s)
      [] after.kind = "Offline" ->
            EnterOffline(after.reconnect, after.gateways, s)

OnDisconnect(after, s) ==
    CASE after.kind \in {"Nothing", "Exit"} -> EnterDisconnected(s)
      [] after.kind = "Error" -> EnterError(s)
      [] after.kind = "Reconnect" -> EnterConnecting(0, NoGateways, s)
      [] after.kind = "Offline" ->
            EnterOffline(after.reconnect, after.gateways, s)

EnterDisconnecting(after, hasMonitor, s) ==
    IF hasMonitor
    THEN {Outcome(DisconnectingState(after), DisallowNetworking(s))}
    ELSE OnDisconnect(after, DisallowNetworking(s))

(* Mutant of EnterConnected: after a failure the monitor's handle is lost. *)
EnterConnectedLosesHandle(gateways, s) ==
    UNION { IF FirewallFault(t) \/ DnsFault(t)
            THEN EnterDisconnecting(ToError, FALSE, t)
            ELSE {Outcome(ConnectedState(gateways), t)} :
              t \in UNION { IF FirewallFault(f) THEN {f} ELSE SetDns("Tunnel", f) :
                              f \in SetFirewall(
                                      ConnectedPolicy(s.settings.lan, gateways), s) } }

(* Mutant of EnterConnected: DNS is left as it is.                         *)
EnterConnectedWithoutDns(gateways, s) ==
    UNION { IF FirewallFault(f)
            THEN EnterDisconnecting(ToError, TRUE, f)
            ELSE {Outcome(ConnectedState(gateways), f)} :
              f \in SetFirewall(ConnectedPolicy(s.settings.lan, gateways), s) }

EnterConnected(gateways, s) ==
    UNION { IF FirewallFault(t) \/ DnsFault(t)
            THEN EnterDisconnecting(ToError, TRUE, t)
            ELSE {Outcome(ConnectedState(gateways), t)} :
              t \in UNION { IF FirewallFault(f) THEN {f} ELSE SetDns("Tunnel", f) :
                              f \in SetFirewall(
                                      ConnectedPolicy(s.settings.lan, gateways), s) } }

-----------------------------------------------------------------------------
(* What handle_event returns.                                              *)

Steps ==
    { "ResolvingApiAddresses", "AwaitingAccountReadiness", "RefreshingGateways",
      "SelectingGateways", "RegisteringWithGateways", "ConnectingTunnel" }

TunnelState ==
    [name : {"Disconnected", "Error", "Offline", "Connecting", "Connected",
             "Disconnecting"},
     detail : Steps \cup {"Nothing", "Reconnect", "Error", "Offline"}]

(* The TunnelState sent on entering a state.                               *)
Published(st) ==
    [name |-> st.name,
     detail |->
        CASE st.name = "Connecting" -> "ResolvingApiAddresses"
          [] st.name = "Disconnecting" -> st.after.kind
          [] st.name = "Offline" /\ st.reconnect -> "Reconnect"
          [] OTHER -> "Nothing"]

(***************************************************************************)
(* NewState with a handler just entered.  The receiver of monitor events is*)
(* dropped with the state left; Connecting creates a channel of its own.   *)
(***************************************************************************)
NewState(outcomes, nextMonitor) ==
    \E r \in outcomes :
        /\ state' = r.state
        /\ shared' = r.shared
        /\ published' = Published(r.state)
        /\ monitor' = nextMonitor
        /\ events' = <<>>
        /\ listening' = (r.state.name = "Connecting")

(* NewState from a state that holds no monitor.                            *)
Enter(outcomes) == NewState(outcomes, monitor) /\ UNCHANGED routes

SameState(st, s) ==
    /\ state' = st
    /\ shared' = s
    /\ UNCHANGED <<published, monitorVars>>

Finish(outcomes) ==
    /\ state' = Simple("Finished")
    /\ shared' \in outcomes
    /\ UNCHANGED <<published, monitorVars>>

(* Mutant of CancelledMonitor: cancel() is forgotten.                      *)
UncancelledMonitor == [monitor EXCEPT !.replied = TRUE]

(* The handle's cancel(), and the end of any wait for a reply that comes   *)
(* with the drop of the receiver.                                          *)
CancelledMonitor == [monitor EXCEPT !.cancelled = TRUE, !.replied = TRUE]

In(name) == state.name = name

-----------------------------------------------------------------------------
(* The Connecting state.                                                   *)

HasHandle == state.phase = "Monitoring"

(* Mutant of ConnectingDisconnect: the handle is not passed on.            *)
ConnectingDisconnectLosesHandle(after, s) ==
    /\ routes' = FALSE
    /\ NewState(EnterDisconnecting(after, FALSE, s), monitor)

ConnectingDisconnect(after, s) ==
    /\ routes' = FALSE
    /\ NewState(EnterDisconnecting(after, HasHandle, s),
                IF HasHandle THEN CancelledMonitor ELSE monitor)

(* Mutant of ConnectingReconnect: the attempts overflow.                   *)
ConnectingReconnectOverflows(s) ==
    LET attempt == state.retry + 1
        gateways == IF attempt % 2 = 0 THEN NoGateways ELSE state.gateways
    IN  EnterConnecting(attempt, gateways, s)

(* Every second attempt selects gateways anew.                             *)
ConnectingReconnect(s) ==
    LET attempt == IF state.retry = MaxRetry THEN MaxRetry ELSE state.retry + 1
        gateways == IF attempt % 2 = 0 THEN NoGateways ELSE state.gateways
    IN  EnterConnecting(attempt, gateways, s)

ReconnectDelayElapsed ==
    /\ In("Connecting") /\ state.phase = "Delay"
    /\ SameState([state EXCEPT !.phase = "Resolving"], shared)

ResolveFailed ==
    /\ In("Connecting") /\ state.phase = "Resolving"
    /\ Enter(ConnectingReconnect(shared))

Resolved ==
    /\ In("Connecting") /\ state.phase = "Resolving"
    /\ \E s \in SetFirewall([shared.firewall EXCEPT !.api = TRUE],
                            [shared EXCEPT !.preresolve = TRUE]) :
        \/ FirewallFault(s) /\ Enter(EnterError(s))
        \/ /\ ~FirewallFault(s)
           /\ state' = [state EXCEPT !.phase = "Monitoring"]
           /\ shared' = AllowNetworking(s)
           /\ monitor' = StartedMonitor(state.gateways)
           /\ UNCHANGED <<published, events, listening, routes>>

Receive(kind) == events # <<>> /\ Head(events).kind = kind

(* The event is taken from the queue and its reply, if any, is sent.       *)
Handled(kind) ==
    /\ events' = Tail(events)
    /\ monitor' = IF kind \in DOMAIN ReplyStage /\ monitor.stage = ReplyStage[kind]
                  THEN [monitor EXCEPT !.replied = TRUE]
                  ELSE monitor
    /\ UNCHANGED <<listening, routes>>

Publish(step) == published' = [name |-> "Connecting", detail |-> step]

ConnectingProgress ==
    \E step \in Steps :
        /\ In("Connecting") /\ Receive(step)
        /\ Publish(step)
        /\ Handled(step)
        /\ UNCHANGED <<state, shared>>

ConnectingSelectedGateways ==
    /\ In("Connecting") /\ Receive("SelectedGateways")
    /\ LET gateways == Head(events).gateways
       IN  \E s \in SetFirewall([shared.firewall EXCEPT !.entry = gateways], shared) :
            \/ /\ FirewallFault(s)
               /\ NewState(EnterDisconnecting(ToError, TRUE, s), CancelledMonitor)
               /\ UNCHANGED routes
            \/ /\ ~FirewallFault(s)
               /\ state' = [state EXCEPT !.gateways = gateways]
               /\ shared' = s
               /\ Handled("SelectedGateways")
               /\ UNCHANGED published

ConnectingRegistered ==
    /\ In("Connecting") /\ Receive("RegisteredWithGateways")
    /\ \E s \in SetFirewall([shared.firewall EXCEPT !.peer = TRUE], shared) :
        \/ /\ FirewallFault(s)
           /\ NewState(EnterDisconnecting(ToError, TRUE, s), CancelledMonitor)
           /\ UNCHANGED routes
        \/ /\ ~FirewallFault(s)
           /\ Publish("ConnectingTunnel")
           /\ shared' = s
           /\ Handled("RegisteredWithGateways")
           /\ UNCHANGED state

ConnectingInterfaceUp ==
    /\ In("Connecting") /\ Receive("InterfaceUp")
    /\ \E s \in SetFirewall([shared.firewall EXCEPT !.tunnel = TRUE],
                            [shared EXCEPT !.socks5 = TRUE]) :
        \/ FirewallFault(s) /\ ConnectingDisconnect(ToError, s)
        \/ /\ ~FirewallFault(s)
           /\ Publish("ConnectingTunnel")
           /\ shared' = s
           /\ Handled("InterfaceUp")
           /\ UNCHANGED state

(* `selected gateways must be set`: the task panics without them.          *)
ConnectingUp ==
    /\ In("Connecting") /\ Receive("Up")
    /\ \/ /\ state.gateways = NoGateways
          /\ state' = Simple("Panicked")
          /\ UNCHANGED <<shared, published, monitorVars>>
       \/ /\ state.gateways # NoGateways
          /\ \E r \in EnterConnected(state.gateways,
                                    [shared EXCEPT !.blacklist = FALSE]) :
              \/ /\ r.state.name = "Connected"
                 /\ state' = r.state
                 /\ shared' = r.shared
                 /\ published' = Published(r.state)
                 /\ Handled("Up")
              \/ /\ r.state.name # "Connected"
                 /\ NewState({r}, CancelledMonitor)
                 /\ UNCHANGED routes

(* With no reason to stop, the monitor is awaited before reconnecting.     *)
ConnectingDown ==
    /\ In("Connecting") /\ Receive("Down")
    /\ \/ /\ Head(events).error
          /\ NewState(EnterDisconnecting(ToError, TRUE, shared), CancelledMonitor)
          /\ UNCHANGED routes
       \/ /\ ~Head(events).error
          /\ routes' = FALSE
          /\ NewState(ConnectingReconnect([shared EXCEPT !.socks5 = FALSE]),
                      IdleMonitor)

ConnectingConnectionFailed ==
    /\ In("Connecting") /\ Receive("ConnectionFailed")
    /\ shared' = [shared EXCEPT !.blacklist = @ \/ state.gateways # NoGateways]
    /\ state' = [state EXCEPT !.gateways = NoGateways]
    /\ Handled("ConnectionFailed")
    /\ UNCHANGED published

-----------------------------------------------------------------------------
(* The Connected state.                                                    *)

(* Mutant of ConnectedDisconnect: DNS is not reset.                        *)
ConnectedDisconnectKeepsDns(after, s) ==
    /\ routes' = FALSE
    /\ NewState(EnterDisconnecting(after, TRUE, s), CancelledMonitor)

ConnectedDisconnect(after, s) ==
    /\ routes' = FALSE
    /\ NewState(UNION {EnterDisconnecting(after, TRUE, t) : t \in ResetDns(s)},
                CancelledMonitor)

(* The monitor's handle is dropped and its end not awaited.  The monitor   *)
(* has had its answer to Down and has only its tombstone left to return,   *)
(* which nobody takes: it is gone from here on.                            *)
ConnectedDown ==
    /\ In("Connected") /\ Receive("Down")
    /\ routes' = FALSE
    /\ NewState(UNION { IF Head(events).error
                        THEN EnterError(t)
                        ELSE EnterConnecting(0, state.gateways, t) :
                          t \in ResetDns(shared) },
                IdleMonitor)

ConnectedIgnores ==
    /\ In("Connected") /\ events # <<>> /\ Head(events).kind # "Down"
    /\ Handled(Head(events).kind)
    /\ UNCHANGED <<state, shared, published>>

-----------------------------------------------------------------------------
(* The Disconnecting state.                                                *)

(* The monitor has exited; its tombstone is dropped by the state entered.  *)
TombstoneJoined ==
    /\ In("Disconnecting") /\ monitor.stage = "Done"
    /\ NewState(OnDisconnect(state.after, shared), IdleMonitor)
    /\ UNCHANGED routes

Afterwards(after) == SameState([state EXCEPT !.after = after], shared)

-----------------------------------------------------------------------------
(* The Offline state.                                                      *)

(* Mutant of OfflineReconnects: the flag is never lowered.                 *)
OfflineReconnectsForGood(reconnect) ==
    /\ state' = [state EXCEPT !.reconnect = @ \/ reconnect]
    /\ published' = Published(state')
    /\ UNCHANGED <<shared, monitorVars>>

(* Connect and Disconnect flip the flag and publish it if it changes.      *)
OfflineReconnects(reconnect) ==
    /\ state' = [state EXCEPT !.reconnect = reconnect]
    /\ published' = IF reconnect # state.reconnect
                    THEN Published([state EXCEPT !.reconnect = reconnect])
                    ELSE published
    /\ UNCHANGED <<shared, monitorVars>>

-----------------------------------------------------------------------------
(* Commands, in each state.  After = Exit is not a state that takes any:   *)
(* the handler is then inside its wait for the tombstone.                  *)

Listens == In("Disconnecting") => state.after.kind # "Exit"

ConnectInDisconnected ==
    In("Disconnected") /\ Enter(EnterConnecting(0, NoGateways, shared))

ConnectInConnecting ==
    /\ In("Connecting")
    /\ IF HasHandle
       THEN ConnectingDisconnect(Reconnect, shared)
       ELSE Enter(EnterConnecting(state.retry, NoGateways, shared))

ConnectInConnected == In("Connected") /\ ConnectedDisconnect(Reconnect, shared)

ConnectInDisconnecting ==
    /\ In("Disconnecting")
    /\ Afterwards(IF state.after.kind = "Offline"
                  THEN [state.after EXCEPT !.reconnect = TRUE]
                  ELSE Reconnect)

ConnectInError ==
    /\ In("Error")
    /\ Enter(UNION { IF IsOffline
                     THEN EnterOffline(TRUE, NoGateways, t)
                     ELSE EnterConnecting(0, NoGateways, t) :
                       t \in ResetDns(shared) })

ConnectInOffline == In("Offline") /\ OfflineReconnects(TRUE)

Connect ==
    \/ ConnectInDisconnected \/ ConnectInConnecting \/ ConnectInConnected
    \/ ConnectInDisconnecting \/ ConnectInError \/ ConnectInOffline

DisconnectInDisconnected == In("Disconnected") /\ SameState(state, shared)

DisconnectInConnecting ==
    In("Connecting") /\ ConnectingDisconnect(Nothing, shared)

DisconnectInConnected == In("Connected") /\ ConnectedDisconnect(Nothing, shared)

DisconnectInDisconnecting ==
    /\ In("Disconnecting")
    /\ Afterwards(IF state.after.kind = "Offline"
                  THEN [state.after EXCEPT !.reconnect = FALSE]
                  ELSE Nothing)

DisconnectInError ==
    /\ In("Error")
    /\ Enter(UNION { IF IsOffline
                     THEN EnterOffline(FALSE, NoGateways, t)
                     ELSE EnterDisconnected(t) : t \in ResetDns(shared) })

DisconnectInOffline == In("Offline") /\ OfflineReconnects(FALSE)

Disconnect ==
    \/ DisconnectInDisconnected \/ DisconnectInConnecting \/ DisconnectInConnected
    \/ DisconnectInDisconnecting \/ DisconnectInError \/ DisconnectInOffline

BlockInDisconnected == In("Disconnected") /\ SameState(state, shared)

BlockInConnecting == In("Connecting") /\ ConnectingDisconnect(ToError, shared)

BlockInConnected == In("Connected") /\ ConnectedDisconnect(ToError, shared)

BlockInDisconnecting ==
    /\ In("Disconnecting")
    /\ Afterwards(IF state.after.kind = "Nothing" THEN Nothing ELSE ToError)

BlockInError == In("Error") /\ Enter(EnterError(shared))

BlockInOffline == In("Offline") /\ Enter(EnterError(shared))

Block ==
    \/ BlockInDisconnected \/ BlockInConnecting \/ BlockInConnected
    \/ BlockInDisconnecting \/ BlockInError \/ BlockInOffline

(***************************************************************************)
(* New settings.  `other` tells whether a setting outside the model changes*)
(* that requires a reconnect (IPv6, DNS, tunnel type...); allow_lan does   *)
(* not require one.                                                        *)
(***************************************************************************)
(* Mutant of KeptGateways: whatever changed, the selection is kept.        *)
AllGateways(pointChanged) == state.gateways

(* The selection that survives new settings.                               *)
KeptGateways(pointChanged) ==
    IF pointChanged THEN NoGateways ELSE state.gateways

SettingsInConnecting(new, pointChanged, shouldReconnect) ==
    /\ In("Connecting")
    /\ LET applied == [shared EXCEPT !.settings = new]
           policy == [shared.firewall EXCEPT !.lan = new.lan]
       IN  \E s \in IF policy # shared.firewall
                   THEN SetFirewall(policy, applied)
                   ELSE {applied} :
               IF FirewallFault(s)
               THEN ConnectingDisconnect(ToError, s)
               ELSE IF ~shouldReconnect
               THEN SameState(state, s)
               ELSE IF HasHandle
               THEN ConnectingDisconnect(Reconnect, s)
               ELSE Enter(EnterConnecting(state.retry, KeptGateways(pointChanged), s))

SettingsInConnected(new, shouldReconnect) ==
    /\ In("Connected")
    /\ LET applied == [shared EXCEPT !.settings = new]
           policy == [shared.firewall EXCEPT !.lan = new.lan]
       IN  \E s \in IF policy # shared.firewall
                   THEN SetFirewall(policy, applied)
                   ELSE {applied} :
               IF FirewallFault(s)
               THEN ConnectedDisconnect(ToError, s)
               ELSE IF shouldReconnect
               THEN ConnectedDisconnect(Reconnect, s)
               ELSE SameState(state, s)

(* Mutant of BlockedSettings: the policy is not applied again.             *)
BlockedSettingsUnapplied(new) == {[shared EXCEPT !.settings = new]}

(* The blocking policy of Error and Offline follows allow_lan.             *)
BlockedSettings(new) ==
    LET applied == [shared EXCEPT !.settings = new]
    IN  IF new.lan # shared.settings.lan
        THEN SetFirewall(BlockedPolicy(new.lan), applied)
        ELSE {applied}

SettingsInDisconnected(new) ==
    In("Disconnected") /\ SameState(state, [shared EXCEPT !.settings = new])

SettingsInDisconnecting(new) ==
    In("Disconnecting") /\ SameState(state, [shared EXCEPT !.settings = new])

SettingsInError(new) ==
    In("Error") /\ \E s \in BlockedSettings(new) : SameState(state, s)

SettingsInOffline(new, pointChanged) ==
    /\ In("Offline")
    /\ \E s \in BlockedSettings(new) :
        SameState([state EXCEPT !.gateways = KeptGateways(pointChanged)], s)

SetTunnelSettings(new, other) ==
    LET pointChanged == new.point # shared.settings.point
        shouldReconnect == pointChanged \/ other
    IN  /\ new # shared.settings \/ other
        /\ new.lan # shared.settings.lan => LanMayChange
        /\ \/ SettingsInDisconnected(new)
           \/ SettingsInConnecting(new, pointChanged, shouldReconnect)
           \/ SettingsInConnected(new, shouldReconnect)
           \/ SettingsInDisconnecting(new)
           \/ SettingsInError(new)
           \/ SettingsInOffline(new, pointChanged)

-----------------------------------------------------------------------------
(* The other branches of select!.                                          *)

OnlineUnchanged(isOnline) ==
    /\ isOnline
    /\ In("Disconnected") \/ In("Connecting") \/ In("Connected")
    /\ SameState(state, shared)

OfflineGetsOnline(isOnline) ==
    /\ isOnline /\ In("Offline")
    /\ Enter(UNION { IF state.reconnect
                     THEN EnterConnecting(0, state.gateways, t)
                     ELSE EnterDisconnected(t) : t \in ResetDns(shared) })

OfflineStaysOffline(isOnline) ==
    ~isOnline /\ In("Offline") /\ SameState(state, shared)

DisconnectedGetsOffline(isOnline) ==
    /\ ~isOnline /\ In("Disconnected")
    /\ Enter(EnterOffline(FALSE, NoGateways, shared))

ConnectingGetsOffline(isOnline) ==
    /\ ~isOnline /\ In("Connecting")
    /\ ConnectingDisconnect(ToOffline(TRUE, state.gateways), shared)

ConnectedGetsOffline(isOnline) ==
    /\ ~isOnline /\ In("Connected")
    /\ ConnectedDisconnect(ToOffline(TRUE, state.gateways), shared)

(* A new connectivity arrives: Error and Disconnecting do not wait for it. *)
ConnectivityChanged(isOnline) ==
    \/ OnlineUnchanged(isOnline) \/ OfflineGetsOnline(isOnline)
    \/ OfflineStaysOffline(isOnline) \/ DisconnectedGetsOffline(isOnline)
    \/ ConnectingGetsOffline(isOnline) \/ ConnectedGetsOffline(isOnline)

ShutdownInDisconnected == In("Disconnected") /\ Finish(ResetDns(shared))

ShutdownInError ==
    /\ In("Error")
    /\ Finish(UNION {SetFirewall(NoPolicy, t) : t \in ResetDns(shared)})

ShutdownInOffline ==
    /\ In("Offline")
    /\ Finish(UNION {SetFirewall(NoPolicy, t) : t \in ResetDns(shared)})

ShutdownInConnecting ==
    In("Connecting") /\ ConnectingDisconnect(Nothing, shared)

ShutdownInConnected == In("Connected") /\ ConnectedDisconnect(Nothing, shared)

ShutdownInDisconnecting == In("Disconnecting") /\ Listens /\ Afterwards(Exit)

ShutdownCancelled ==
    /\ shutdown
    /\ \/ ShutdownInDisconnected \/ ShutdownInConnecting \/ ShutdownInConnected
       \/ ShutdownInDisconnecting \/ ShutdownInError \/ ShutdownInOffline

-----------------------------------------------------------------------------
(* The specification.                                                      *)

(***************************************************************************)
(* The state machine starts in Disconnected or Offline; what it starts in  *)
(* is not published: clients begin with the service's Disconnected.        *)
(***************************************************************************)
Init ==
    /\ OfflineInit
    /\ MonitorInit
    /\ \E settings \in Settings :
        \E r \in LET s == [settings |-> settings, firewall |-> NoPolicy,
                         dns |-> "Default", networking |-> FALSE, geo |-> FALSE,
                         preresolve |-> FALSE, socks5 |-> FALSE,
                         blacklist |-> FALSE, faults |-> {}]
                IN  IF IsOffline
                    THEN EnterOffline(FALSE, NoGateways, s)
                    ELSE EnterDisconnected(s) :
            state = r.state /\ shared = r.shared
    /\ published = Published(Simple("Disconnected"))
    /\ intent = "down"
    /\ shutdown = FALSE

Command ==
    \/ Listens /\ Connect /\ intent' = "up"
    \/ Listens /\ Disconnect /\ intent' = "down"
    \/ Listens /\ BlockMayCome /\ Block /\ UNCHANGED intent
    \/ /\ Listens
       /\ \E new \in Settings, other \in BOOLEAN : SetTunnelSettings(new, other)
       /\ UNCHANGED intent

MonitorEvent ==
    \/ ConnectingProgress \/ ConnectingSelectedGateways \/ ConnectingRegistered
    \/ ConnectingInterfaceUp \/ ConnectingUp \/ ConnectingDown
    \/ ConnectingConnectionFailed \/ ConnectedDown \/ ConnectedIgnores

HandleCommand == Command /\ UNCHANGED <<shutdown, offlineVars>>

HandleMonitorEvent == MonitorEvent /\ UNCHANGED <<intent, shutdown, offlineVars>>

HandleFuture ==
    /\ ReconnectDelayElapsed \/ ResolveFailed \/ Resolved \/ TombstoneJoined
    /\ UNCHANGED <<intent, shutdown, offlineVars>>

HandleConnectivity ==
    /\ \E isOnline \in BOOLEAN :
        NextConnectivity(isOnline) /\ ConnectivityChanged(isOnline)
    /\ UNCHANGED <<intent, shutdown>>

HandleShutdown == ShutdownCancelled /\ UNCHANGED <<intent, shutdown, offlineVars>>

(* The service cancels the shutdown token.                                 *)
ShutdownRequested ==
    /\ ~shutdown
    /\ shutdown' = TRUE
    /\ UNCHANGED <<state, shared, published, intent, offlineVars, monitorVars>>

MonitorTask ==
    MonitorStep(shared.settings.point) /\ UNCHANGED <<machineVars, offlineVars>>

OfflineMonitorTask == CheckConnectivity /\ UNCHANGED <<machineVars, monitorVars>>

Host == HostRouteChange /\ UNCHANGED <<machineVars, monitorVars>>

Next ==
    \/ HandleCommand
    \/ HandleMonitorEvent
    \/ HandleFuture
    \/ HandleConnectivity
    \/ HandleShutdown
    \/ ShutdownRequested
    \/ MonitorTask
    \/ OfflineMonitorTask
    \/ Host

Spec == Init /\ [][Next]_vars

=============================================================================
