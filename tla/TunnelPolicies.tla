---------------------------- MODULE TunnelPolicies ----------------------------
(***************************************************************************)
(* Proofs that what surrounds the tunnel follows its state: DNS, the LAN   *)
(* setting in the firewall policy, and who may use the network.            *)
(*                                                                         *)
(* An `enter` function starts from whatever the state before it left, so   *)
(* these facts are kept only if a handler settles what it leaves before it *)
(* calls the next: a state may be entered with the DNS servers of the      *)
(* tunnel still set only if resetting them failed.                         *)
(*                                                                         *)
(* The last part proves that the machine implements TunnelLifecycle.       *)
(***************************************************************************)
EXTENDS TunnelProofs

(* DNS is not the tunnel's, or the last DNS operation failed.              *)
Settled(s) == s.dns = "Tunnel" => DnsFault(s)

(* The policy lets a client of the API reach it.                           *)
ApiReachable(s) ==
    \/ s.firewall.kind \in {"None", "Connected"}
    \/ s.firewall.kind = "Connecting" /\ s.firewall.api /\ s.preresolve

(* A state and a shared state that go together.                            *)
Proper(st, s) ==
    /\ st.name = "Connected" \/ Settled(s)
    /\ st.name \in {"Connecting", "Connected", "Error", "Offline"} /\ ~FirewallFault(s)
        => s.firewall.lan = s.settings.lan
    /\ s.networking /\ ~FirewallFault(s) => ApiReachable(s)
    /\ st.name \in {"Disconnected", "Connected"} => s.networking
    /\ st.name = "Connecting" => (s.networking <=> st.phase = "Monitoring")
    /\ st.name \in {"Offline", "Error", "Disconnecting"} => ~s.networking

AllProper(outcomes) == \A r \in outcomes : Proper(r.state, r.shared)

-----------------------------------------------------------------------------
(* Operations on the shared state.                                         *)

(* A firewall operation changes the policy and its fault only.             *)
LEMMA FirewallEffect ==
    ASSUME NEW p \in Policy, NEW s \in Shared, NEW t \in SetFirewall(p, s)
    PROVE  /\ t \in Shared
           /\ t.settings = s.settings
           /\ t.networking = s.networking
           /\ t.preresolve = s.preresolve
           /\ Settled(t) <=> Settled(s)
           /\ ~FirewallFault(t) => t.firewall = p
<1>1. t \in Shared /\ t.settings = s.settings /\ (~FirewallFault(t) => t.firewall = p)
  BY FirewallOutcome
<1>2. /\ t.networking = s.networking /\ t.preresolve = s.preresolve /\ t.dns = s.dns
      /\ t.faults \in {s.faults \ {"firewall"}, s.faults \cup {"firewall"}}
  BY DEF SetFirewall, Shared
<1>3. DnsFault(t) <=> DnsFault(s)
  BY <1>2 DEF DnsFault
<1> QED BY <1>1, <1>2, <1>3 DEF Settled

(* Resetting DNS settles it.                                               *)
LEMMA ResetDnsEffect ==
    ASSUME NEW s \in Shared, NEW t \in ResetDns(s)
    PROVE  /\ t \in Shared
           /\ t.settings = s.settings
           /\ t.firewall = s.firewall
           /\ t.networking = s.networking
           /\ t.preresolve = s.preresolve
           /\ FirewallFault(t) <=> FirewallFault(s)
           /\ Settled(t)
<1>1. /\ t \in Shared /\ t.settings = s.settings /\ t.firewall = s.firewall
      /\ FirewallFault(t) <=> FirewallFault(s)
  BY ResetDnsOutcome
<1>2. /\ t.networking = s.networking /\ t.preresolve = s.preresolve
      /\ t.dns = "Default" \/ DnsFault(t)
  BY DEF ResetDns, SetDns, Shared, DnsFault
<1> QED BY <1>1, <1>2 DEF Settled

(* Networking is disallowed, the rest is left alone.                       *)
LEMMA DisallowEffect ==
    ASSUME NEW s \in Shared
    PROVE  /\ DisallowNetworking(s) \in Shared
           /\ DisallowNetworking(s).settings = s.settings
           /\ DisallowNetworking(s).firewall = s.firewall
           /\ ~DisallowNetworking(s).networking
           /\ FirewallFault(DisallowNetworking(s)) <=> FirewallFault(s)
           /\ Settled(DisallowNetworking(s)) <=> Settled(s)
BY DEF DisallowNetworking, Shared, FirewallFault, DnsFault, Settled

(* The value of allow_lan in the policies the handlers apply.              *)
LEMMA PolicyLans ==
    /\ \A lan \in BOOLEAN : BlockedPolicy(lan).lan = lan
    /\ \A lan \in BOOLEAN, gateways \in MaybeGateways :
        ConnectingPolicy(lan, gateways).lan = lan /\ ConnectedPolicy(lan, gateways).lan = lan
BY DEF NoPolicy, BlockedPolicy, ConnectingPolicy, ConnectedPolicy

-----------------------------------------------------------------------------
(* Entering a state.                                                       *)

(* Disconnected resets DNS itself and lets everyone use the network.       *)
LEMMA EnterDisconnectedProper ==
    ASSUME NEW s \in Shared
    PROVE  AllProper(EnterDisconnected(s))
<1> DEFINE Left(t) == [AllowNetworking(t) EXCEPT !.preresolve = FALSE, !.geo = TRUE,
                                                 !.socks5 = FALSE]
<1> SUFFICES ASSUME NEW r \in EnterDisconnected(s)
             PROVE  Proper(r.state, r.shared)
  BY DEF AllProper
<1>1. PICK d \in ResetDns(s) :
        \E t \in SetFirewall(NoPolicy, d) : r = Outcome(Simple("Disconnected"), Left(t))
  BY DEF EnterDisconnected
<1>2. PICK t \in SetFirewall(NoPolicy, d) : r = Outcome(Simple("Disconnected"), Left(t))
  BY <1>1
<1>3. t \in Shared /\ Settled(t) /\ (~FirewallFault(t) => t.firewall.kind = "None")
  BY ResetDnsEffect, FirewallEffect, PolicyTypes
<1> DEFINE u == Left(t)
<1>4. /\ u.networking /\ u.firewall = t.firewall
      /\ FirewallFault(u) <=> FirewallFault(t)
      /\ Settled(u)
  BY <1>3 DEF AllowNetworking, Shared, FirewallFault, DnsFault, Settled
<1>5. r.state = Simple("Disconnected") /\ r.shared = u
  BY <1>2 DEF Outcome
<1> HIDE DEF u
<1> QED BY <1>3, <1>4, <1>5 DEF Proper, Simple, ApiReachable

(* Error blocks all but the LAN, if that is allowed.                       *)
LEMMA EnterErrorProper ==
    ASSUME NEW s \in Shared, Settled(s)
    PROVE  AllProper(EnterError(s))
<1> SUFFICES ASSUME NEW t \in SetFirewall(BlockedPolicy(s.settings.lan), DisallowNetworking(s))
             PROVE  Proper(Simple("Error"), [t EXCEPT !.socks5 = FALSE])
  BY DEF EnterError, AllProper, Outcome
<1> DEFINE u == [t EXCEPT !.socks5 = FALSE]
<1> SUFFICES Proper(Simple("Error"), u)
  OBVIOUS
<1>1. /\ t \in Shared /\ t.settings = s.settings /\ ~t.networking /\ Settled(t)
      /\ ~FirewallFault(t) => t.firewall.lan = s.settings.lan
  BY DisallowEffect, FirewallEffect, PolicyTypes, PolicyLans, SharedParts
<1>2. /\ u.settings = t.settings /\ u.firewall = t.firewall /\ ~u.networking
      /\ FirewallFault(u) <=> FirewallFault(t)
      /\ Settled(u)
  BY <1>1 DEF Shared, FirewallFault, DnsFault, Settled
<1> HIDE DEF u
<1> QED BY <1>1, <1>2 DEF Proper, Simple

(* So does Offline.                                                        *)
LEMMA EnterOfflineProper ==
    ASSUME NEW s \in Shared, Settled(s), NEW reconnect, NEW gateways
    PROVE  AllProper(EnterOffline(reconnect, gateways, s))
<1> SUFFICES ASSUME NEW t \in SetFirewall(BlockedPolicy(s.settings.lan), DisallowNetworking(s))
             PROVE  Proper(OfflineState(reconnect, gateways), t)
  BY DEF EnterOffline, AllProper, Outcome
<1>1. /\ t.settings = s.settings /\ ~t.networking /\ Settled(t)
      /\ ~FirewallFault(t) => t.firewall.lan = s.settings.lan
  BY DisallowEffect, FirewallEffect, PolicyTypes, PolicyLans, SharedParts
<1> QED BY <1>1 DEF Proper, OfflineState

(* Connecting begins without networking.                                   *)
LEMMA EnterConnectingProper ==
    ASSUME NEW s \in Shared, Settled(s), NEW retry, NEW gateways \in MaybeGateways
    PROVE  AllProper(EnterConnecting(retry, gateways, s))
<1> DEFINE d == DisallowNetworking(s)
           policy == ConnectingPolicy(s.settings.lan, gateways)
<1>1. d \in Shared /\ Settled(d) /\ ~d.networking /\ d.settings = s.settings
  BY DisallowEffect
<1>2. policy \in Policy /\ policy.lan = s.settings.lan
  BY PolicyTypes, PolicyLans, SharedParts
<1> HIDE DEF d, policy
<1>3. AllProper(EnterOffline(TRUE, gateways, d))
  BY <1>1, EnterOfflineProper
<1>4. ASSUME NEW t \in SetFirewall(policy, d)
      PROVE  AllProper(IF FirewallFault(t)
                       THEN EnterError(t)
                       ELSE {Outcome(ConnectingState(retry, gateways), t)})
  <2>1. /\ t \in Shared /\ Settled(t) /\ ~t.networking /\ t.settings = s.settings
        /\ ~FirewallFault(t) => t.firewall.lan = s.settings.lan
    BY <1>1, <1>2, FirewallEffect
  <2>2. AllProper(EnterError(t))
    BY <2>1, EnterErrorProper
  <2>3. ~FirewallFault(t) => Proper(ConnectingState(retry, gateways), t)
    BY <2>1 DEF Proper, ConnectingState
  <2> QED BY <2>2, <2>3 DEF AllProper, Outcome
<1> SUFFICES ASSUME NEW r \in EnterConnecting(retry, gateways, s)
             PROVE  Proper(r.state, r.shared)
  BY DEF AllProper
<1>5. CASE IsOffline
  BY <1>3, <1>5 DEF EnterConnecting, AllProper, d
<1>6. CASE ~IsOffline
  <2>1. PICK t \in SetFirewall(policy, d) :
            r \in IF FirewallFault(t)
                  THEN EnterError(t)
                  ELSE {Outcome(ConnectingState(retry, gateways), t)}
    BY <1>6 DEF EnterConnecting, d, policy
  <2> QED BY <1>4, <2>1 DEF AllProper
<1> QED BY <1>5, <1>6

(* What follows the end of the monitor.                                    *)
LEMMA OnDisconnectProper ==
    ASSUME NEW s \in Shared, Settled(s), NEW after \in After
    PROVE  AllProper(OnDisconnect(after, s))
<1>1. after.kind \in {"Nothing", "Exit", "Error", "Reconnect", "Offline"}
  BY DEF After
<1>2. NoGateways \in MaybeGateways
  BY DEF MaybeGateways
<1> QED
  BY <1>1, <1>2, EnterDisconnectedProper, EnterErrorProper, EnterConnectingProper,
     EnterOfflineProper DEF OnDisconnect

(* Disconnecting disallows networking first.                               *)
LEMMA EnterDisconnectingProper ==
    ASSUME NEW s \in Shared, Settled(s), NEW after \in After, NEW hasMonitor \in BOOLEAN
    PROVE  AllProper(EnterDisconnecting(after, hasMonitor, s))
<1> DEFINE d == DisallowNetworking(s)
<1>1. d \in Shared /\ Settled(d) /\ ~d.networking
  BY DisallowEffect
<1> HIDE DEF d
<1>2. AllProper(OnDisconnect(after, d))
  BY <1>1, OnDisconnectProper
<1>3. Proper(DisconnectingState(after), d)
  BY <1>1 DEF Proper, DisconnectingState
<1> QED BY <1>2, <1>3 DEF EnterDisconnecting, AllProper, Outcome, d

(* Connected is entered with the DNS servers of the tunnel, or not at all. *)
LEMMA EnterConnectedProper ==
    ASSUME NEW s \in Shared, Settled(s), s.networking, NEW gateways \in MaybeGateways
    PROVE  AllProper(EnterConnected(gateways, s))
<1> DEFINE policy == ConnectedPolicy(s.settings.lan, gateways)
<1>1. policy \in Policy /\ policy.kind = "Connected" /\ policy.lan = s.settings.lan
  BY PolicyTypes, PolicyLans, SharedParts
<1> HIDE DEF policy
<1>2. ASSUME NEW f \in SetFirewall(policy, s),
             NEW t \in IF FirewallFault(f) THEN {f} ELSE SetDns("Tunnel", f)
      PROVE  AllProper(IF FirewallFault(t) \/ DnsFault(t)
                       THEN EnterDisconnecting(ToError, TRUE, t)
                       ELSE {Outcome(ConnectedState(gateways), t)})
  <2>1. /\ f \in Shared /\ f.networking /\ Settled(f) /\ f.settings = s.settings
        /\ ~FirewallFault(f) => f.firewall = policy
    BY <1>1, FirewallEffect
  <2>2. CASE FirewallFault(f)
    <3>1. AllProper(EnterDisconnecting(ToError, TRUE, f))
      BY <2>1, EnterDisconnectingProper, AfterMakers
    <3> QED BY <1>2, <2>2, <3>1
  <2>3. CASE ~FirewallFault(f)
    <3>1. t \in Shared /\ t.settings = f.settings /\ t.firewall = policy /\ ~FirewallFault(t)
      BY <1>2, <2>1, <2>3, DnsOutcome
    <3>2. t.networking
      BY <1>2, <2>1, <2>3 DEF SetDns, Shared
    <3>3. DnsFault(t) => AllProper(EnterDisconnecting(ToError, TRUE, t))
      BY <3>1, EnterDisconnectingProper, AfterMakers DEF Settled
    <3>4. Proper(ConnectedState(gateways), t)
      BY <1>1, <2>1, <3>1, <3>2 DEF Proper, ConnectedState, ApiReachable
    <3>5. AllProper({Outcome(ConnectedState(gateways), t)})
      BY <3>4 DEF AllProper, Outcome
    <3> QED BY <3>1, <3>3, <3>5
  <2> QED BY <2>2, <2>3
<1> QED BY <1>2 DEF EnterConnected, AllProper, policy

-----------------------------------------------------------------------------
(* The ways a handler goes on.                                             *)

(* What the steps of the handlers start from.                              *)
PInv == Inv /\ Proper(state, shared)

LEMMA PInvParts ==
    ASSUME PInv
    PROVE  /\ Inv /\ state \in State /\ shared \in Shared
           /\ Proper(state, shared)
           /\ ~In("Connected") => Settled(shared)
           /\ In("Connecting") \/ In("Connected") =>
                ~FirewallFault(shared) /\ shared.firewall.kind = state.name
           /\ In("Disconnecting") => state.after \in After
           /\ In("Connecting") \/ In("Connected") \/ In("Offline") =>
                state.gateways \in MaybeGateways
           /\ HasHandle \in BOOLEAN
           /\ NoGateways \in MaybeGateways
BY InvParts, StateParts, StateMakers DEF PInv, Proper, In, HasHandle

(* A state just entered is the outcome of its `enter` function.            *)
LEMMA NewStateProper ==
    ASSUME NEW outcomes, AllProper(outcomes), NEW m, NewState(outcomes, m)
    PROVE  Proper(state', shared')
BY DEF NewState, AllProper

LEMMA EnterProper ==
    ASSUME NEW outcomes, AllProper(outcomes), Enter(outcomes)
    PROVE  Proper(state', shared')
BY NewStateProper DEF Enter

(* The state and what it depends on are as they were.                      *)
LEMMA KeptProper ==
    ASSUME Proper(state, shared), shared' = shared, NEW st, state' = st, st.name = state.name,
           st.name = "Connecting" => st.phase = state.phase
    PROVE  Proper(state', shared')
BY DEF Proper

(* The policy in force is amended, with allow_lan as it is set.            *)
LEMMA AmendedProper ==
    ASSUME PInv, In("Connecting") \/ In("Connected"),
           NEW st, state' = st, st.name = state.name,
           st.name = "Connecting" => st.phase = state.phase,
           NEW s, shared' = s, s.networking = shared.networking,
           s.preresolve = shared.preresolve, Settled(s) <=> Settled(shared),
           s.firewall.kind = shared.firewall.kind, s.firewall.api = shared.firewall.api,
           s.firewall.lan = s.settings.lan
    PROVE  Proper(state', shared')
BY PInvParts DEF Proper, ApiReachable, In

(* Leaving Connecting and Connected.                                       *)
LEMMA ConnectingDisconnectProper ==
    ASSUME PInv, NEW s \in Shared, Settled(s), NEW after \in After,
           ConnectingDisconnect(after, s)
    PROVE  Proper(state', shared')
<1>1. AllProper(EnterDisconnecting(after, HasHandle, s))
  BY PInvParts, EnterDisconnectingProper
<1> QED BY <1>1, NewStateProper DEF ConnectingDisconnect

LEMMA ConnectedDisconnectProper ==
    ASSUME NEW s \in Shared, NEW after \in After, ConnectedDisconnect(after, s)
    PROVE  Proper(state', shared')
<1>1. \A t \in ResetDns(s) : AllProper(EnterDisconnecting(after, TRUE, t))
  BY ResetDnsEffect, EnterDisconnectingProper
<1>2. AllProper(UNION {EnterDisconnecting(after, TRUE, t) : t \in ResetDns(s)})
  BY <1>1 DEF AllProper
<1> QED BY <1>2, NewStateProper DEF ConnectedDisconnect

(* What follows Disconnecting, and whether Offline reconnects, are changed *)
(* in place.                                                               *)
LEMMA AfterwardsProper ==
    ASSUME PInv, In("Disconnecting"), NEW after, Afterwards(after)
    PROVE  Proper(state', shared')
<1>1. state \in [name : {"Disconnecting"}, after : After]
  BY PInvParts, StateParts DEF In
<1>2. [state EXCEPT !.after = after].name = "Disconnecting" /\ state.name = "Disconnecting"
  BY <1>1
<1> QED BY <1>2, PInvParts, KeptProper DEF Afterwards, SameState

LEMMA OfflineReconnectsProper ==
    ASSUME PInv, In("Offline"), NEW reconnect, OfflineReconnects(reconnect)
    PROVE  Proper(state', shared')
<1>1. state \in [name : {"Offline"}, reconnect : BOOLEAN, gateways : MaybeGateways]
  BY PInvParts, StateParts DEF In
<1>2. [state EXCEPT !.reconnect = reconnect].name = "Offline" /\ state.name = "Offline"
  BY <1>1
<1> QED BY <1>2, PInvParts, KeptProper DEF OfflineReconnects

-----------------------------------------------------------------------------
(* Commands.                                                               *)

LEMMA ConnectProper ==
    ASSUME PInv, Connect
    PROVE  Proper(state', shared')
<1> USE PInvParts, AfterMakers
<1>1. CASE ConnectInDisconnected
  BY <1>1, EnterConnectingProper, EnterProper DEF ConnectInDisconnected, In
<1>2. CASE ConnectInConnecting
  <2>1. Settled(shared) /\ state.gateways \in MaybeGateways
    BY <1>2 DEF ConnectInConnecting, In
  <2>2. CASE HasHandle
    BY <1>2, <2>1, <2>2, ConnectingDisconnectProper DEF ConnectInConnecting
  <2>3. CASE ~HasHandle
    BY <1>2, <2>1, <2>3, EnterConnectingProper, EnterProper DEF ConnectInConnecting
  <2> QED BY <2>2, <2>3
<1>3. CASE ConnectInConnected
  BY <1>3, ConnectedDisconnectProper DEF ConnectInConnected
<1>4. CASE ConnectInDisconnecting
  BY <1>4, AfterwardsProper DEF ConnectInDisconnecting
<1>5. CASE ConnectInError
  <2> DEFINE left(t) == IF IsOffline
                        THEN EnterOffline(TRUE, NoGateways, t)
                        ELSE EnterConnecting(0, NoGateways, t)
  <2>1. \A t \in ResetDns(shared) : AllProper(left(t))
    BY ResetDnsEffect, EnterOfflineProper, EnterConnectingProper
  <2>2. Enter(UNION {left(t) : t \in ResetDns(shared)})
    BY <1>5 DEF ConnectInError
  <2> HIDE DEF left
  <2>3. AllProper(UNION {left(t) : t \in ResetDns(shared)})
    BY <2>1 DEF AllProper
  <2> QED BY <2>2, <2>3, EnterProper
<1>6. CASE ConnectInOffline
  BY <1>6, OfflineReconnectsProper DEF ConnectInOffline
<1> QED BY <1>1, <1>2, <1>3, <1>4, <1>5, <1>6 DEF Connect

LEMMA DisconnectProper ==
    ASSUME PInv, Disconnect
    PROVE  Proper(state', shared')
<1> USE PInvParts, AfterMakers
<1>1. CASE DisconnectInDisconnected
  BY <1>1, KeptProper DEF DisconnectInDisconnected, SameState
<1>2. CASE DisconnectInConnecting
  BY <1>2, ConnectingDisconnectProper DEF DisconnectInConnecting, In
<1>3. CASE DisconnectInConnected
  BY <1>3, ConnectedDisconnectProper DEF DisconnectInConnected
<1>4. CASE DisconnectInDisconnecting
  BY <1>4, AfterwardsProper DEF DisconnectInDisconnecting
<1>5. CASE DisconnectInError
  <2> DEFINE left(t) == IF IsOffline
                        THEN EnterOffline(FALSE, NoGateways, t)
                        ELSE EnterDisconnected(t)
  <2>1. \A t \in ResetDns(shared) : AllProper(left(t))
    BY ResetDnsEffect, EnterOfflineProper, EnterDisconnectedProper
  <2>2. Enter(UNION {left(t) : t \in ResetDns(shared)})
    BY <1>5 DEF DisconnectInError
  <2> HIDE DEF left
  <2>3. AllProper(UNION {left(t) : t \in ResetDns(shared)})
    BY <2>1 DEF AllProper
  <2> QED BY <2>2, <2>3, EnterProper
<1>6. CASE DisconnectInOffline
  BY <1>6, OfflineReconnectsProper DEF DisconnectInOffline
<1> QED BY <1>1, <1>2, <1>3, <1>4, <1>5, <1>6 DEF Disconnect

LEMMA BlockProper ==
    ASSUME PInv, Block
    PROVE  Proper(state', shared')
<1> USE PInvParts, AfterMakers
<1>1. CASE BlockInDisconnected
  BY <1>1, KeptProper DEF BlockInDisconnected, SameState
<1>2. CASE BlockInConnecting
  BY <1>2, ConnectingDisconnectProper DEF BlockInConnecting, In
<1>3. CASE BlockInConnected
  BY <1>3, ConnectedDisconnectProper DEF BlockInConnected
<1>4. CASE BlockInDisconnecting
  BY <1>4, AfterwardsProper DEF BlockInDisconnecting
<1>5. CASE BlockInError \/ BlockInOffline
  BY <1>5, EnterErrorProper, EnterProper DEF BlockInError, BlockInOffline, In
<1> QED BY <1>1, <1>2, <1>3, <1>4, <1>5 DEF Block

(* The policy of a tunnel that new settings amend, if they change it.      *)
LEMMA SettingsOfTunnel ==
    ASSUME PInv, In("Connecting") \/ In("Connected"), NEW new \in Settings,
           NEW s \in IF [shared.firewall EXCEPT !.lan = new.lan] # shared.firewall
                     THEN SetFirewall([shared.firewall EXCEPT !.lan = new.lan],
                                      [shared EXCEPT !.settings = new])
                     ELSE {[shared EXCEPT !.settings = new]}
    PROVE  /\ s \in Shared
           /\ s.networking = shared.networking /\ s.preresolve = shared.preresolve
           /\ Settled(s) <=> Settled(shared)
           /\ ~FirewallFault(s) =>
                /\ s.firewall.kind = shared.firewall.kind
                /\ s.firewall.api = shared.firewall.api
                /\ s.firewall.lan = s.settings.lan
<1> DEFINE applied == [shared EXCEPT !.settings = new]
           policy == [shared.firewall EXCEPT !.lan = new.lan]
<1>1. /\ applied \in Shared /\ policy \in Policy
      /\ applied.settings = new /\ applied.firewall = shared.firewall
  BY PInvParts, AppliedSettings
<1>2. /\ applied.networking = shared.networking /\ applied.preresolve = shared.preresolve
      /\ Settled(applied) <=> Settled(shared)
  BY PInvParts DEF Shared, Settled, DnsFault
<1>3. /\ policy.kind = shared.firewall.kind /\ policy.api = shared.firewall.api
      /\ policy.lan = new.lan
  BY PInvParts, SharedParts DEF Policy
<1>4. s \in IF policy # shared.firewall THEN SetFirewall(policy, applied) ELSE {applied}
  OBVIOUS
<1> HIDE DEF applied, policy
<1>5. CASE policy # shared.firewall
  BY <1>1, <1>2, <1>3, <1>4, <1>5, FirewallEffect
<1>6. CASE policy = shared.firewall
  BY <1>1, <1>2, <1>3, <1>4, <1>6
<1> QED BY <1>5, <1>6

(* The blocking policy of Error and Offline, with allow_lan as it is set.  *)
LEMMA BlockedSettingsEffect ==
    ASSUME PInv, In("Error") \/ In("Offline"), NEW new \in Settings,
           NEW s \in BlockedSettings(new)
    PROVE  /\ Settled(s) /\ ~s.networking
           /\ ~FirewallFault(s) => s.firewall.lan = s.settings.lan
<1> DEFINE applied == [shared EXCEPT !.settings = new]
<1>1. /\ applied \in Shared /\ applied.settings = new /\ applied.firewall = shared.firewall
      /\ FirewallFault(applied) <=> FirewallFault(shared)
  BY PInvParts, AppliedSettings
<1>2. Settled(applied) /\ ~applied.networking
  <2>1. Settled(shared) /\ ~shared.networking
    BY PInvParts DEF Proper, In
  <2> QED BY <2>1, PInvParts DEF Shared, Settled, DnsFault
<1>3. BlockedPolicy(new.lan) \in Policy /\ BlockedPolicy(new.lan).lan = new.lan
  BY PolicyTypes, PolicyLans DEF Settings
<1>4. CASE new.lan # shared.settings.lan
  <2>1. s \in SetFirewall(BlockedPolicy(new.lan), applied)
    BY <1>4 DEF BlockedSettings
  <2> HIDE DEF applied
  <2> QED BY <1>1, <1>2, <1>3, <2>1, FirewallEffect
<1>5. CASE new.lan = shared.settings.lan
  <2>1. s = applied
    BY <1>5 DEF BlockedSettings
  <2>2. ~FirewallFault(shared) => shared.firewall.lan = shared.settings.lan
    BY PInvParts DEF Proper, In
  <2> HIDE DEF applied
  <2> QED BY <1>1, <1>2, <1>5, <2>1, <2>2
<1> QED BY <1>4, <1>5

LEMMA SettingsProper ==
    ASSUME PInv, NEW new \in Settings, NEW other \in BOOLEAN, SetTunnelSettings(new, other)
    PROVE  Proper(state', shared')
<1> USE PInvParts, AfterMakers
<1> DEFINE pointChanged == new.point # shared.settings.point
           shouldReconnect == pointChanged \/ other
           policy == [shared.firewall EXCEPT !.lan = new.lan]
           applied == [shared EXCEPT !.settings = new]
           amended == IF policy # shared.firewall THEN SetFirewall(policy, applied) ELSE {applied}
<1>1. CASE SettingsInDisconnected(new) \/ SettingsInDisconnecting(new)
  <2>1. state' = state /\ shared' = applied /\ state.name \in {"Disconnected", "Disconnecting"}
    BY <1>1 DEF SettingsInDisconnected, SettingsInDisconnecting, SameState, In
  <2>2. /\ applied.networking = shared.networking /\ applied.preresolve = shared.preresolve
        /\ Settled(applied) <=> Settled(shared)
        /\ FirewallFault(applied) <=> FirewallFault(shared)
        /\ applied.firewall = shared.firewall
    BY DEF Shared, Settled, DnsFault, FirewallFault
  <2> HIDE DEF applied
  <2> QED BY <2>1, <2>2 DEF Proper, ApiReachable
<1>2. CASE SettingsInConnecting(new, pointChanged, shouldReconnect)
  <2>1. PICK s \in amended :
            IF FirewallFault(s)
            THEN ConnectingDisconnect(ToError, s)
            ELSE IF ~shouldReconnect
            THEN SameState(state, s)
            ELSE IF HasHandle
            THEN ConnectingDisconnect(Reconnect, s)
            ELSE Enter(EnterConnecting(state.retry, KeptGateways(pointChanged), s))
    BY <1>2 DEF SettingsInConnecting
  <2>2. In("Connecting")
    BY <1>2 DEF SettingsInConnecting
  <2>3. /\ s \in Shared
        /\ s.networking = shared.networking /\ s.preresolve = shared.preresolve
        /\ Settled(s) <=> Settled(shared)
        /\ ~FirewallFault(s) =>
             /\ s.firewall.kind = shared.firewall.kind
             /\ s.firewall.api = shared.firewall.api
             /\ s.firewall.lan = s.settings.lan
    BY <2>2, SettingsOfTunnel
  <2>4. Settled(s)
    BY <2>2, <2>3 DEF In
  <2>5. KeptGateways(pointChanged) \in MaybeGateways
    BY <2>2 DEF KeptGateways
  <2> HIDE DEF shouldReconnect, pointChanged, amended
  <2>6. CASE FirewallFault(s)
    BY <2>1, <2>3, <2>4, <2>6, ConnectingDisconnectProper
  <2>7. CASE ~FirewallFault(s) /\ ~shouldReconnect
    <3>1. SameState(state, s)
      BY <2>1, <2>7
    <3> QED BY <2>2, <2>3, <2>7, <3>1, AmendedProper DEF SameState
  <2>8. CASE ~FirewallFault(s) /\ shouldReconnect /\ HasHandle
    BY <2>1, <2>3, <2>4, <2>8, ConnectingDisconnectProper
  <2>9. CASE ~FirewallFault(s) /\ shouldReconnect /\ ~HasHandle
    BY <2>1, <2>3, <2>4, <2>5, <2>9, EnterConnectingProper, EnterProper
  <2> QED BY <2>6, <2>7, <2>8, <2>9
<1>3. CASE SettingsInConnected(new, shouldReconnect)
  <2>1. PICK s \in amended :
            IF FirewallFault(s)
            THEN ConnectedDisconnect(ToError, s)
            ELSE IF shouldReconnect
            THEN ConnectedDisconnect(Reconnect, s)
            ELSE SameState(state, s)
    BY <1>3 DEF SettingsInConnected
  <2>2. In("Connected")
    BY <1>3 DEF SettingsInConnected
  <2>3. /\ s \in Shared
        /\ s.networking = shared.networking /\ s.preresolve = shared.preresolve
        /\ Settled(s) <=> Settled(shared)
        /\ ~FirewallFault(s) =>
             /\ s.firewall.kind = shared.firewall.kind
             /\ s.firewall.api = shared.firewall.api
             /\ s.firewall.lan = s.settings.lan
    BY <2>2, SettingsOfTunnel
  <2> HIDE DEF shouldReconnect, amended
  <2>4. CASE FirewallFault(s)
    BY <2>1, <2>3, <2>4, ConnectedDisconnectProper
  <2>5. CASE ~FirewallFault(s) /\ shouldReconnect
    BY <2>1, <2>3, <2>5, ConnectedDisconnectProper
  <2>6. CASE ~FirewallFault(s) /\ ~shouldReconnect
    <3>1. SameState(state, s)
      BY <2>1, <2>6
    <3> QED BY <2>2, <2>3, <2>6, <3>1, AmendedProper DEF SameState
  <2> QED BY <2>4, <2>5, <2>6
<1>4. CASE SettingsInError(new)
  <2>1. PICK s \in BlockedSettings(new) : SameState(state, s)
    BY <1>4 DEF SettingsInError
  <2>2. /\ Settled(s) /\ ~s.networking
        /\ ~FirewallFault(s) => s.firewall.lan = s.settings.lan
    BY <1>4, BlockedSettingsEffect DEF SettingsInError
  <2> QED BY <1>4, <2>1, <2>2 DEF SettingsInError, SameState, In, Proper
<1>5. CASE SettingsInOffline(new, pointChanged)
  <2>1. PICK s \in BlockedSettings(new) :
            SameState([state EXCEPT !.gateways = KeptGateways(pointChanged)], s)
    BY <1>5 DEF SettingsInOffline
  <2>2. /\ Settled(s) /\ ~s.networking
        /\ ~FirewallFault(s) => s.firewall.lan = s.settings.lan
    BY <1>5, BlockedSettingsEffect DEF SettingsInOffline
  <2>3. state \in [name : {"Offline"}, reconnect : BOOLEAN, gateways : MaybeGateways]
    BY <1>5, StateParts DEF SettingsInOffline, In
  <2>4. state'.name = "Offline" /\ shared' = s
    BY <2>1, <2>3 DEF SameState
  <2> QED BY <2>2, <2>4 DEF Proper
<1> QED BY <1>1, <1>2, <1>3, <1>4, <1>5 DEF SetTunnelSettings

-----------------------------------------------------------------------------
(* The other branches of select!.                                          *)

LEMMA ConnectivityProper ==
    ASSUME PInv, NEW isOnline \in BOOLEAN, ConnectivityChanged(isOnline)
    PROVE  Proper(state', shared')
<1> USE PInvParts, AfterMakers
<1>1. CASE OnlineUnchanged(isOnline) \/ OfflineStaysOffline(isOnline)
  BY <1>1, KeptProper DEF OnlineUnchanged, OfflineStaysOffline, SameState
<1>2. CASE OfflineGetsOnline(isOnline)
  <2> DEFINE left(t) == IF state.reconnect
                        THEN EnterConnecting(0, state.gateways, t)
                        ELSE EnterDisconnected(t)
  <2>1. \A t \in ResetDns(shared) : AllProper(left(t))
    BY <1>2, ResetDnsEffect, EnterConnectingProper, EnterDisconnectedProper
       DEF OfflineGetsOnline
  <2>2. Enter(UNION {left(t) : t \in ResetDns(shared)})
    BY <1>2 DEF OfflineGetsOnline
  <2> HIDE DEF left
  <2>3. AllProper(UNION {left(t) : t \in ResetDns(shared)})
    BY <2>1 DEF AllProper
  <2> QED BY <2>2, <2>3, EnterProper
<1>3. CASE DisconnectedGetsOffline(isOnline)
  BY <1>3, EnterOfflineProper, EnterProper DEF DisconnectedGetsOffline, In
<1>4. CASE ConnectingGetsOffline(isOnline)
  BY <1>4, ConnectingDisconnectProper DEF ConnectingGetsOffline, In
<1>5. CASE ConnectedGetsOffline(isOnline)
  BY <1>5, ConnectedDisconnectProper DEF ConnectedGetsOffline
<1> QED BY <1>1, <1>2, <1>3, <1>4, <1>5 DEF ConnectivityChanged

(* The machine ends with DNS reset, and whoever uses the network can.      *)
LEMMA ShutdownProper ==
    ASSUME PInv, ShutdownCancelled
    PROVE  Proper(state', shared')
<1> USE PInvParts, AfterMakers
<1>1. ASSUME NEW s, Settled(s), s.networking /\ ~FirewallFault(s) => ApiReachable(s)
      PROVE  Proper(Simple("Finished"), s)
  BY <1>1 DEF Proper, Simple
<1>2. CASE ShutdownInDisconnected
  <2>1. state' = Simple("Finished") /\ shared' \in ResetDns(shared) /\ In("Disconnected")
    BY <1>2 DEF ShutdownInDisconnected, Finish
  <2>2. ~FirewallFault(shared) => shared.firewall.kind = "None"
    BY <2>1 DEF PInv, Inv, Fits, In
  <2>3. Settled(shared') /\ (~FirewallFault(shared') => ApiReachable(shared'))
    BY <2>1, <2>2, ResetDnsEffect DEF ApiReachable
  <2> QED BY <1>1, <2>1, <2>3
<1>3. CASE ShutdownInError \/ ShutdownInOffline
  <2>1. /\ state' = Simple("Finished")
        /\ In("Error") \/ In("Offline")
        /\ \E t \in ResetDns(shared) : shared' \in SetFirewall(NoPolicy, t)
    BY <1>3 DEF ShutdownInError, ShutdownInOffline, Finish
  <2>2. PICK t \in ResetDns(shared) : shared' \in SetFirewall(NoPolicy, t)
    BY <2>1
  <2>3. t \in Shared /\ Settled(t) /\ ~t.networking
    BY <2>1, <2>2, ResetDnsEffect DEF Proper, In
  <2>4. Settled(shared') /\ ~shared'.networking
    BY <2>2, <2>3, FirewallEffect, PolicyTypes
  <2>5. state'.name = "Finished"
    BY <2>1 DEF Simple
  <2>6. shared'.networking /\ ~FirewallFault(shared') => ApiReachable(shared')
    BY <2>4
  <2> QED BY <2>4, <2>5, <2>6 DEF Proper
<1>4. CASE ShutdownInConnecting
  BY <1>4, ConnectingDisconnectProper DEF ShutdownInConnecting, In
<1>5. CASE ShutdownInConnected
  BY <1>5, ConnectedDisconnectProper DEF ShutdownInConnected
<1>6. CASE ShutdownInDisconnecting
  BY <1>6, AfterwardsProper DEF ShutdownInDisconnecting
<1> QED BY <1>2, <1>3, <1>4, <1>5, <1>6 DEF ShutdownCancelled

(* The API addresses are let through before networking is allowed.         *)
LEMMA ResolvedProper ==
    ASSUME PInv, Resolved
    PROVE  Proper(state', shared')
<1> USE PInvParts
<1> DEFINE policy == [shared.firewall EXCEPT !.api = TRUE]
           before == [shared EXCEPT !.preresolve = TRUE]
<1>1. In("Connecting") /\ state.phase = "Resolving" /\ Settled(shared)
  BY DEF Resolved, In
<1>2. PICK s \in SetFirewall(policy, before) :
        \/ FirewallFault(s) /\ Enter(EnterError(s))
        \/ /\ ~FirewallFault(s)
           /\ state' = [state EXCEPT !.phase = "Monitoring"]
           /\ shared' = AllowNetworking(s)
  BY DEF Resolved
<1>3. /\ before \in Shared /\ before.preresolve /\ before.settings = shared.settings
      /\ Settled(before)
  BY <1>1 DEF Shared, Settled, DnsFault
<1>4. /\ policy \in Policy /\ policy.kind = "Connecting" /\ policy.api
      /\ policy.lan = shared.settings.lan
  <2>1. shared.firewall.lan = shared.settings.lan
    BY <1>1 DEF Proper, In
  <2>2. shared.firewall \in Policy /\ shared.firewall.kind = "Connecting"
    BY <1>1, SharedParts DEF In
  <2> QED BY <2>1, <2>2 DEF Policy
<1> HIDE DEF policy, before
<1>5. /\ s \in Shared /\ Settled(s) /\ s.preresolve /\ s.settings = shared.settings
      /\ ~FirewallFault(s) => s.firewall = policy
  BY <1>3, <1>4, FirewallEffect
<1>6. CASE FirewallFault(s)
  BY <1>2, <1>5, <1>6, EnterErrorProper, EnterProper
<1>7. CASE ~FirewallFault(s)
  <2>1. state'.name = "Connecting" /\ state'.phase = "Monitoring"
    <3>1. state \in ConnectingStates
      BY <1>1, StateParts DEF In
    <3> QED BY <1>2, <1>7, <3>1 DEF ConnectingStates
  <2>2. /\ shared'.networking /\ shared'.preresolve /\ shared'.firewall = policy
        /\ shared'.settings = shared.settings /\ Settled(shared')
    BY <1>2, <1>5, <1>7 DEF AllowNetworking, Shared, Settled, DnsFault
  <2> QED BY <1>4, <2>1, <2>2 DEF Proper, ApiReachable
<1> QED BY <1>6, <1>7

LEMMA FutureProper ==
    ASSUME PInv, ReconnectDelayElapsed \/ ResolveFailed \/ Resolved \/ TombstoneJoined
    PROVE  Proper(state', shared')
<1> USE PInvParts
<1>1. CASE ReconnectDelayElapsed
  <2>1. state \in ConnectingStates /\ state.phase = "Delay" /\ shared' = shared
        /\ state' = [state EXCEPT !.phase = "Resolving"]
    BY <1>1, StateParts DEF ReconnectDelayElapsed, SameState, In
  <2>2. state'.name = state.name /\ state'.phase = "Resolving"
    BY <2>1 DEF ConnectingStates
  <2> QED BY <2>1, <2>2 DEF Proper
<1>2. CASE ResolveFailed
  <2>1. In("Connecting") /\ Settled(shared) /\ Enter(ConnectingReconnect(shared))
    BY <1>2 DEF ResolveFailed, In
  <2>2. AllProper(ConnectingReconnect(shared))
    BY <2>1, ReconnectAttempt, EnterConnectingProper
  <2> QED BY <2>1, <2>2, EnterProper
<1>3. CASE Resolved
  BY <1>3, ResolvedProper
<1>4. CASE TombstoneJoined
  <2>1. Settled(shared) /\ state.after \in After
    BY <1>4 DEF TombstoneJoined, In
  <2> QED BY <1>4, <2>1, OnDisconnectProper, NewStateProper DEF TombstoneJoined
<1> QED BY <1>1, <1>2, <1>3, <1>4

-----------------------------------------------------------------------------
(* Events of the monitor.                                                  *)

(* An event in Connecting finds networking allowed.                        *)
LEMMA EventParts ==
    ASSUME PInv, NEW kind, In("Connecting"), Receive(kind)
    PROVE  /\ state \in ConnectingStates /\ state.phase = "Monitoring"
           /\ shared.networking /\ Settled(shared)
           /\ shared.firewall \in Policy
           /\ shared.firewall.lan = shared.settings.lan
<1>1. Holds(state)
  BY DEF PInv, Inv, EventsOwned, Receive
<1>2. state.phase = "Monitoring"
  BY <1>1 DEF Holds, In
<1> QED BY <1>2, PInvParts, SharedParts, StateParts DEF Proper, In

(* A policy the tunnel's is amended to, or a failure to do so.             *)
LEMMA AmendedPolicyProper ==
    ASSUME PInv, NEW kind, In("Connecting"), Receive(kind),
           NEW p \in Policy, p.kind = shared.firewall.kind, p.api = shared.firewall.api,
           p.lan = shared.firewall.lan,
           NEW from \in Shared, from.settings = shared.settings,
           from.networking = shared.networking, from.preresolve = shared.preresolve,
           Settled(from), NEW s \in SetFirewall(p, from)
    PROVE  /\ s \in Shared /\ Settled(s)
           /\ ~FirewallFault(s) =>
                \A st : /\ state' = st /\ shared' = s
                        /\ st.name = state.name /\ st.phase = state.phase
                        => Proper(state', shared')
<1>1. /\ s \in Shared /\ s.settings = shared.settings
      /\ s.networking = shared.networking /\ s.preresolve = shared.preresolve
      /\ Settled(s)
      /\ ~FirewallFault(s) => s.firewall = p
  BY FirewallEffect
<1> QED BY <1>1, EventParts, AmendedProper

LEMMA SelectedGatewaysProper ==
    ASSUME PInv, ConnectingSelectedGateways
    PROVE  Proper(state', shared')
<1> USE PInvParts
<1> DEFINE gateways == Head(events).gateways
           policy == [shared.firewall EXCEPT !.entry = gateways]
<1>1. In("Connecting") /\ Receive("SelectedGateways")
  BY DEF ConnectingSelectedGateways
<1>2. gateways \in MaybeGateways
  <2>1. events \in Seq(Event) /\ events # <<>>
    BY <1>1 DEF Inv, TypeOK, MonitorTypeOK, Receive
  <2>2. Head(events) \in Event
    BY <2>1
  <2> QED BY <2>2 DEF Event
<1>3. /\ policy \in Policy /\ policy.kind = shared.firewall.kind
      /\ policy.api = shared.firewall.api /\ policy.lan = shared.firewall.lan
  <2> HIDE DEF gateways
  <2> QED BY <1>1, <1>2, EventParts DEF Policy
<1>4. PICK s \in SetFirewall(policy, shared) :
        \/ /\ FirewallFault(s)
           /\ NewState(EnterDisconnecting(ToError, TRUE, s), CancelledMonitor)
        \/ /\ ~FirewallFault(s)
           /\ state' = [state EXCEPT !.gateways = gateways]
           /\ shared' = s
  BY DEF ConnectingSelectedGateways
<1>5. [state EXCEPT !.gateways = gateways].name = state.name
      /\ [state EXCEPT !.gateways = gateways].phase = state.phase
  BY <1>1, EventParts DEF ConnectingStates
<1> HIDE DEF policy, gateways
<1>6. /\ s \in Shared /\ Settled(s)
      /\ ~FirewallFault(s) =>
            \A st : /\ state' = st /\ shared' = s
                    /\ st.name = state.name /\ st.phase = state.phase
                    => Proper(state', shared')
  BY <1>1, <1>3, EventParts, AmendedPolicyProper
<1>7. CASE FirewallFault(s)
  BY <1>4, <1>6, <1>7, AfterMakers, EnterDisconnectingProper, NewStateProper
<1>8. CASE ~FirewallFault(s)
  BY <1>4, <1>5, <1>6, <1>8
<1> QED BY <1>7, <1>8

LEMMA RegisteredProper ==
    ASSUME PInv, ConnectingRegistered
    PROVE  Proper(state', shared')
<1> USE PInvParts
<1> DEFINE policy == [shared.firewall EXCEPT !.peer = TRUE]
<1>1. In("Connecting") /\ Receive("RegisteredWithGateways")
  BY DEF ConnectingRegistered
<1>2. /\ policy \in Policy /\ policy.kind = shared.firewall.kind
      /\ policy.api = shared.firewall.api /\ policy.lan = shared.firewall.lan
  BY <1>1, EventParts DEF Policy
<1>3. PICK s \in SetFirewall(policy, shared) :
        \/ /\ FirewallFault(s)
           /\ NewState(EnterDisconnecting(ToError, TRUE, s), CancelledMonitor)
        \/ ~FirewallFault(s) /\ shared' = s /\ state' = state
  BY DEF ConnectingRegistered
<1> HIDE DEF policy
<1>4. /\ s \in Shared /\ Settled(s)
      /\ ~FirewallFault(s) =>
            \A st : /\ state' = st /\ shared' = s
                    /\ st.name = state.name /\ st.phase = state.phase
                    => Proper(state', shared')
  BY <1>1, <1>2, EventParts, AmendedPolicyProper
<1>5. CASE FirewallFault(s)
  BY <1>3, <1>4, <1>5, AfterMakers, EnterDisconnectingProper, NewStateProper
<1>6. CASE ~FirewallFault(s)
  BY <1>3, <1>4, <1>6
<1> QED BY <1>5, <1>6

LEMMA InterfaceUpProper ==
    ASSUME PInv, ConnectingInterfaceUp
    PROVE  Proper(state', shared')
<1> USE PInvParts
<1> DEFINE policy == [shared.firewall EXCEPT !.tunnel = TRUE]
           proxied == [shared EXCEPT !.socks5 = TRUE]
<1>1. In("Connecting") /\ Receive("InterfaceUp")
  BY DEF ConnectingInterfaceUp
<1>2. /\ policy \in Policy /\ policy.kind = shared.firewall.kind
      /\ policy.api = shared.firewall.api /\ policy.lan = shared.firewall.lan
  BY <1>1, EventParts DEF Policy
<1>3. /\ proxied \in Shared /\ proxied.settings = shared.settings
      /\ proxied.networking = shared.networking /\ proxied.preresolve = shared.preresolve
      /\ Settled(proxied)
  BY <1>1, EventParts DEF Shared, Settled, DnsFault
<1>4. PICK s \in SetFirewall(policy, proxied) :
        \/ FirewallFault(s) /\ ConnectingDisconnect(ToError, s)
        \/ ~FirewallFault(s) /\ shared' = s /\ state' = state
  BY DEF ConnectingInterfaceUp
<1> HIDE DEF policy, proxied
<1>5. /\ s \in Shared /\ Settled(s)
      /\ ~FirewallFault(s) =>
            \A st : /\ state' = st /\ shared' = s
                    /\ st.name = state.name /\ st.phase = state.phase
                    => Proper(state', shared')
  BY <1>1, <1>2, <1>3, AmendedPolicyProper
<1>6. CASE FirewallFault(s)
  BY <1>4, <1>5, <1>6, AfterMakers, ConnectingDisconnectProper
<1>7. CASE ~FirewallFault(s)
  BY <1>4, <1>5, <1>7
<1> QED BY <1>6, <1>7

LEMMA UpProper ==
    ASSUME PInv, ConnectingUp
    PROVE  Proper(state', shared')
<1> USE PInvParts
<1>1. In("Connecting") /\ Receive("Up")
  BY DEF ConnectingUp
<1>2. shared.networking /\ Settled(shared) /\ state.gateways \in MaybeGateways
  BY <1>1, EventParts
<1>3. CASE state' = Simple("Panicked") /\ shared' = shared
  BY <1>2, <1>3 DEF Proper, Simple
<1>4. CASE \E r \in EnterConnected(state.gateways, [shared EXCEPT !.blacklist = FALSE]) :
             \/ state' = r.state /\ shared' = r.shared
             \/ NewState({r}, CancelledMonitor)
  <2> DEFINE cleared == [shared EXCEPT !.blacklist = FALSE]
  <2>1. cleared \in Shared /\ cleared.networking /\ Settled(cleared)
    BY <1>2 DEF Shared, Settled, DnsFault
  <2>2. PICK r \in EnterConnected(state.gateways, cleared) :
             \/ state' = r.state /\ shared' = r.shared
             \/ NewState({r}, CancelledMonitor)
    BY <1>4
  <2> HIDE DEF cleared
  <2>3. Proper(r.state, r.shared)
    BY <1>2, <2>1, EnterConnectedProper DEF AllProper
  <2> QED BY <2>2, <2>3, NewStateProper DEF AllProper
<1> QED BY <1>3, <1>4 DEF ConnectingUp

LEMMA DownProper ==
    ASSUME PInv, ConnectingDown
    PROVE  Proper(state', shared')
<1> USE PInvParts
<1>1. In("Connecting") /\ Settled(shared)
  BY DEF ConnectingDown, In
<1>2. CASE NewState(EnterDisconnecting(ToError, TRUE, shared), CancelledMonitor)
  BY <1>1, <1>2, AfterMakers, EnterDisconnectingProper, NewStateProper
<1>3. CASE NewState(ConnectingReconnect([shared EXCEPT !.socks5 = FALSE]), IdleMonitor)
  <2> DEFINE s == [shared EXCEPT !.socks5 = FALSE]
  <2>1. s \in Shared /\ Settled(s)
    BY <1>1 DEF Shared, Settled, DnsFault
  <2>2. NewState(ConnectingReconnect(s), IdleMonitor)
    BY <1>3
  <2> HIDE DEF s
  <2>3. AllProper(ConnectingReconnect(s))
    BY <1>1, <2>1, ReconnectAttempt, EnterConnectingProper
  <2> QED BY <2>2, <2>3, NewStateProper
<1> QED BY <1>2, <1>3 DEF ConnectingDown

LEMMA ConnectionFailedProper ==
    ASSUME PInv, ConnectingConnectionFailed
    PROVE  Proper(state', shared')
<1> USE PInvParts
<1>1. In("Connecting") /\ Receive("ConnectionFailed")
  BY DEF ConnectingConnectionFailed
<1>2. /\ shared' = [shared EXCEPT !.blacklist = @ \/ state.gateways # NoGateways]
      /\ state' = [state EXCEPT !.gateways = NoGateways]
  BY DEF ConnectingConnectionFailed
<1>3. state'.name = state.name /\ state'.phase = state.phase
  BY <1>1, <1>2, EventParts DEF ConnectingStates
<1>4. /\ shared'.networking = shared.networking /\ shared'.preresolve = shared.preresolve
      /\ shared'.firewall = shared.firewall /\ shared'.settings = shared.settings
      /\ shared'.dns = shared.dns /\ shared'.faults = shared.faults
  BY <1>2 DEF Shared
<1>5. Settled(shared') <=> Settled(shared)
  BY <1>4 DEF Settled, DnsFault
<1> QED BY <1>1, <1>3, <1>4, <1>5, EventParts, AmendedProper

LEMMA ConnectedDownProper ==
    ASSUME PInv, ConnectedDown
    PROVE  Proper(state', shared')
<1> USE PInvParts
<1> DEFINE left(t) == IF Head(events).error
                      THEN EnterError(t)
                      ELSE EnterConnecting(0, state.gateways, t)
<1>1. state.gateways \in MaybeGateways
  BY DEF ConnectedDown
<1>2. \A t \in ResetDns(shared) : AllProper(left(t))
  BY <1>1, ResetDnsEffect, EnterErrorProper, EnterConnectingProper
<1>3. NewState(UNION {left(t) : t \in ResetDns(shared)}, IdleMonitor)
  BY DEF ConnectedDown
<1> HIDE DEF left
<1>4. AllProper(UNION {left(t) : t \in ResetDns(shared)})
  BY <1>2 DEF AllProper
<1> QED BY <1>3, <1>4, NewStateProper

LEMMA MonitorEventProper ==
    ASSUME PInv, MonitorEvent
    PROVE  Proper(state', shared')
<1>1. CASE ConnectingProgress \/ ConnectedIgnores
  <2>1. UNCHANGED <<state, shared>>
    BY <1>1 DEF ConnectingProgress, ConnectedIgnores
  <2> QED BY <2>1, PInvParts, KeptProper
<1> QED
  BY <1>1, SelectedGatewaysProper, RegisteredProper, InterfaceUpProper, UpProper, DownProper,
     ConnectionFailedProper, ConnectedDownProper DEF MonitorEvent

-----------------------------------------------------------------------------
(* The theorems.                                                           *)

LEMMA InitProper == Init => Proper(state, shared)
<1> SUFFICES ASSUME Init
             PROVE  Proper(state, shared)
  OBVIOUS
<1>1. PICK settings \in Settings :
        \E r \in LET s == [settings |-> settings, firewall |-> NoPolicy,
                         dns |-> "Default", networking |-> FALSE, geo |-> FALSE,
                         preresolve |-> FALSE, socks5 |-> FALSE,
                         blacklist |-> FALSE, faults |-> {}]
                IN  IF IsOffline
                    THEN EnterOffline(FALSE, NoGateways, s)
                    ELSE EnterDisconnected(s) :
            state = r.state /\ shared = r.shared
  BY DEF Init
<1> DEFINE s == [settings |-> settings, firewall |-> NoPolicy,
                 dns |-> "Default", networking |-> FALSE, geo |-> FALSE,
                 preresolve |-> FALSE, socks5 |-> FALSE,
                 blacklist |-> FALSE, faults |-> {}]
<1>2. s \in Shared /\ Settled(s)
  BY PolicyTypes DEF Shared, Settled
<1>3. PICK r \in IF IsOffline
                THEN EnterOffline(FALSE, NoGateways, s)
                ELSE EnterDisconnected(s) :
        state = r.state /\ shared = r.shared
  BY <1>1
<1> HIDE DEF s
<1>4. AllProper(EnterOffline(FALSE, NoGateways, s)) /\ AllProper(EnterDisconnected(s))
  BY <1>2, EnterOfflineProper, EnterDisconnectedProper, StateMakers
<1> QED BY <1>3, <1>4 DEF AllProper

(* Every step leaves a state and a shared state that go together.          *)
LEMMA NextProper == PInv /\ [Next]_vars => Proper(state, shared)'
<1> SUFFICES ASSUME PInv, [Next]_vars
             PROVE  Proper(state', shared')
  OBVIOUS
<1>1. CASE HandleCommand
  BY <1>1, ConnectProper, DisconnectProper, BlockProper, SettingsProper
     DEF HandleCommand, Command
<1>2. CASE HandleMonitorEvent
  BY <1>2, MonitorEventProper DEF HandleMonitorEvent
<1>3. CASE HandleFuture
  BY <1>3, FutureProper DEF HandleFuture
<1>4. CASE HandleConnectivity
  BY <1>4, ConnectivityProper DEF HandleConnectivity
<1>5. CASE HandleShutdown
  BY <1>5, ShutdownProper DEF HandleShutdown
<1>6. CASE ShutdownRequested \/ MonitorTask \/ OfflineMonitorTask \/ Host \/ UNCHANGED vars
  <2>1. state' = state /\ shared' = shared
    BY <1>6 DEF ShutdownRequested, MonitorTask, OfflineMonitorTask, Host, vars, machineVars
  <2> QED BY <2>1 DEF PInv
<1> QED BY <1>1, <1>2, <1>3, <1>4, <1>5, <1>6 DEF Next

(* What a state needs of DNS, of the LAN and of networking it has in every *)
(* reachable state of the machine.                                         *)
THEOREM PoliciesHold == Spec => []PInv
<1>1. Init => PInv
  BY InitInv, InitProper DEF PInv
<1>2. PInv /\ [Next]_vars => PInv'
  BY NextInv, NextProper DEF PInv
<1> QED BY <1>1, <1>2, PTL DEF Spec

(* No way out of Connected leaves the tunnel's DNS servers configured, save*)
(* one on which resetting DNS failed.                                      *)
THEOREM DnsFollowsTunnel == Spec => []DnsOnlyWhenConnected
<1>1. PInv => DnsOnlyWhenConnected
  BY DEF PInv, Proper, Settled, DnsOnlyWhenConnected, In
<1> QED BY <1>1, PoliciesHold, PTL

(* allow_lan is in force whatever the state it was changed in, through     *)
(* every reconnect, error and loss of connectivity since.                  *)
THEOREM LanFollows == Spec => []LanFollowsSettings
<1>1. PInv => LanFollowsSettings
  BY DEF PInv, Proper, LanFollowsSettings, In
<1> QED BY <1>1, PoliciesHold, PTL

(* The account controller and discovery are let loose only when the policy *)
(* lets them through, and are held back in every state that blocks them.   *)
THEOREM NetworkingIsFollowed == Spec => []NetworkingFollowsFirewall
<1>1. PInv => NetworkingFollowsFirewall
  <2> SUFFICES ASSUME PInv
               PROVE  NetworkingFollowsFirewall
    OBVIOUS
  <2>1. In("Connecting") => (HasHandle <=> state.phase = "Monitoring")
    BY DEF HasHandle, In
  <2> QED BY <2>1 DEF PInv, Proper, ApiReachable, Reachable, NetworkingFollowsFirewall, In
<1> QED BY <1>1, PoliciesHold, PTL

-----------------------------------------------------------------------------
(***************************************************************************)
(* The machine implements TunnelLifecycle.                                 *)
(*                                                                         *)
(* A step of the machine matters to the life cycle by the names of the two *)
(* states, the kinds of the two policies, and what is published.  Tracks   *)
(* says what a handler may do with these; it is shown handler by handler,  *)
(* and then mapped, case by case, to a step of the life cycle.             *)
(***************************************************************************)

(* The states that are shown to clients.                                   *)
Names == {"Disconnected", "Connecting", "Connected", "Disconnecting", "Offline", "Error"}

(* Entering st and s, from the state `from` with a policy of this kind.    *)
Leads(from, kind, st, s) ==
    /\ from \in Names /\ st.name \in Names
    /\ st.name = "Connected" => from = "Connecting"
    /\ st.name = "Disconnecting" => from \in {"Connecting", "Connected"}
    /\ st.name = "Disconnected" => from # "Connected" /\ s.firewall.kind \in {"None", kind}
    /\ s.firewall.kind = "None" => st.name = "Disconnected" \/ kind = "None"

AllLead(from, kind, outcomes) == \A r \in outcomes : Leads(from, kind, r.state, r.shared)

Anew ==
    /\ Leads(state.name, shared.firewall.kind, state', shared')
    /\ published'.name = state'.name

(* The state is kept: what is published may catch up with it, and only new *)
(* settings may replace the policy, where it is to block.                  *)
Kept ==
    /\ state.name \in Names /\ state'.name = state.name
    /\ published'.name \in {published.name, state.name}
    /\ \/ shared'.firewall.kind = shared.firewall.kind
       \/ /\ state.name \in {"Error", "Offline"}
          /\ shared'.firewall.kind = "Blocked"
          /\ intent' = intent

Finished ==
    /\ shutdown /\ intent' = intent
    /\ state.name \in {"Disconnected", "Offline", "Error"} /\ state'.name = "Finished"
    /\ shared'.firewall.kind \in {"None", shared.firewall.kind}
    /\ published' = published

Panicked ==
    /\ state.name = "Connecting" /\ state'.name = "Panicked"
    /\ UNCHANGED <<shared, published, intent>>

Tracks == Anew \/ Kept \/ Finished \/ Panicked

(* What clients were shown last is the state, but for a start offline.     *)
Shows(name, st) ==
    /\ name \in Names
    /\ st.name = "Offline" => name \in {"Offline", "Disconnected"}
    /\ st.name \in Names \ {"Offline"} => name = st.name

RInv == Inv /\ Shows(published.name, state)

-----------------------------------------------------------------------------
(* Entering a state.                                                       *)

LEMMA ReachingLeads ==
    ASSUME NEW states, NEW s, NEW outcomes, outcomes \subseteq Reaching(states, s),
           \A st \in states : st.name \in {"Connecting", "Offline", "Error"},
           NEW from \in Names
    PROVE  AllLead(from, s.firewall.kind, outcomes)
BY DEF Reaching, AllLead, Leads, Names

LEMMA EnterErrorLeads ==
    ASSUME NEW s \in Shared, NEW from \in Names
    PROVE  AllLead(from, s.firewall.kind, EnterError(s))
<1> DEFINE states == {Simple("Error")}
<1>1. EnterError(s) \subseteq Reaching(states, s)
  BY EnterErrorReaches
<1>2. \A st \in states : st.name \in {"Connecting", "Offline", "Error"}
  BY DEF Simple
<1> HIDE DEF states
<1> QED BY <1>1, <1>2, ReachingLeads

LEMMA EnterOfflineLeads ==
    ASSUME NEW s \in Shared, NEW from \in Names, NEW reconnect, NEW gateways
    PROVE  AllLead(from, s.firewall.kind, EnterOffline(reconnect, gateways, s))
<1> DEFINE states == {OfflineState(reconnect, gateways)}
<1>1. EnterOffline(reconnect, gateways, s) \subseteq Reaching(states, s)
  BY EnterOfflineReaches
<1>2. \A st \in states : st.name \in {"Connecting", "Offline", "Error"}
  BY DEF OfflineState
<1> HIDE DEF states
<1> QED BY <1>1, <1>2, ReachingLeads

(* What leads to these states leads there from a shared state with the     *)
(* same policy.                                                            *)
LEMMA EnterConnectingLeads ==
    ASSUME NEW s \in Shared, NEW from \in Names, NEW retry, NEW gateways \in MaybeGateways
    PROVE  AllLead(from, s.firewall.kind, EnterConnecting(retry, gateways, s))
<1> DEFINE states == {Simple("Error"), OfflineState(TRUE, gateways),
                      ConnectingState(retry, gateways)}
<1>1. EnterConnecting(retry, gateways, s) \subseteq Reaching(states, s)
  BY EnterConnectingReaches
<1>2. \A st \in states : st.name \in {"Connecting", "Offline", "Error"}
  BY DEF Simple, OfflineState, ConnectingState
<1> HIDE DEF states
<1> QED BY <1>1, <1>2, ReachingLeads

(* Disconnected opens the network or leaves it as it was.                  *)
LEMMA EnterDisconnectedLeads ==
    ASSUME NEW s \in Shared, NEW from \in Names \ {"Connected"}
    PROVE  AllLead(from, s.firewall.kind, EnterDisconnected(s))
<1> DEFINE Left(t) == [AllowNetworking(t) EXCEPT !.preresolve = FALSE, !.geo = TRUE,
                                                 !.socks5 = FALSE]
<1> SUFFICES ASSUME NEW r \in EnterDisconnected(s)
             PROVE  Leads(from, s.firewall.kind, r.state, r.shared)
  BY DEF AllLead
<1>1. PICK d \in ResetDns(s) :
        \E t \in SetFirewall(NoPolicy, d) : r = Outcome(Simple("Disconnected"), Left(t))
  BY DEF EnterDisconnected
<1>2. PICK t \in SetFirewall(NoPolicy, d) : r = Outcome(Simple("Disconnected"), Left(t))
  BY <1>1
<1>3. d \in Shared /\ d.firewall = s.firewall
  BY ResetDnsOutcome
<1>4. t \in Shared /\ t.firewall.kind \in {"None", s.firewall.kind}
  BY <1>3, FirewallOutcome, PolicyTypes
<1>5. Left(t).firewall = t.firewall
  BY <1>4 DEF AllowNetworking, Shared
<1>6. r.state.name = "Disconnected" /\ r.shared.firewall = t.firewall
  BY <1>2, <1>5 DEF Outcome, Simple
<1> QED BY <1>4, <1>6 DEF Leads, Names

LEMMA OnDisconnectLeads ==
    ASSUME NEW s \in Shared, NEW from \in Names \ {"Connected"}, NEW after \in After
    PROVE  AllLead(from, s.firewall.kind, OnDisconnect(after, s))
<1>1. after.kind \in {"Nothing", "Exit", "Error", "Reconnect", "Offline"}
  BY DEF After
<1>2. NoGateways \in MaybeGateways
  BY DEF MaybeGateways
<1> QED
  BY <1>1, <1>2, EnterDisconnectedLeads, EnterErrorLeads, EnterConnectingLeads,
     EnterOfflineLeads DEF OnDisconnect

(* With a monitor, Disconnecting comes first; without, what follows it.    *)
LEMMA EnterDisconnectingLeads ==
    ASSUME NEW s \in Shared, NEW from \in {"Connecting", "Connected"}, NEW after \in After,
           NEW hasMonitor \in BOOLEAN, from = "Connected" => hasMonitor
    PROVE  AllLead(from, s.firewall.kind, EnterDisconnecting(after, hasMonitor, s))
<1> DEFINE d == DisallowNetworking(s)
<1>1. d \in Shared /\ d.firewall = s.firewall
  BY NetworkingOutcome
<1> HIDE DEF d
<1>2. CASE hasMonitor
  <2>1. Leads(from, s.firewall.kind, DisconnectingState(after), d)
    BY <1>1 DEF Leads, Names, DisconnectingState
  <2> QED BY <1>2, <2>1 DEF EnterDisconnecting, AllLead, Outcome, d
<1>3. CASE ~hasMonitor
  <2>1. AllLead(from, d.firewall.kind, OnDisconnect(after, d))
    BY <1>1, <1>3, OnDisconnectLeads DEF Names
  <2> QED BY <1>1, <1>3, <2>1 DEF EnterDisconnecting, d
<1> QED BY <1>2, <1>3

(* Connected is entered from Connecting, or Disconnecting after a failure. *)
LEMMA EnterConnectedLeads ==
    ASSUME NEW s \in Shared, NEW gateways \in MaybeGateways
    PROVE  AllLead("Connecting", s.firewall.kind, EnterConnected(gateways, s))
<1> DEFINE states == {ConnectedState(gateways), DisconnectingState(ToError)}
<1>1. EnterConnected(gateways, s) \subseteq Reaching(states, s)
  BY EnterConnectedReaches
<1>2. \A st \in states : st.name \in {"Connected", "Disconnecting"}
  BY DEF ConnectedState, DisconnectingState
<1> HIDE DEF states
<1> QED BY <1>1, <1>2 DEF Reaching, AllLead, Leads, Names

-----------------------------------------------------------------------------
(* The ways a handler goes on.                                             *)

(* What the steps of the handlers start from.                              *)
LEMMA RInvParts ==
    ASSUME RInv
    PROVE  /\ Inv /\ state \in State /\ shared \in Shared
           /\ state.name \in Names \cup {"Finished", "Panicked"}
           /\ Shows(published.name, state)
           /\ In("Disconnecting") => state.after \in After
           /\ In("Connecting") \/ In("Connected") \/ In("Offline") =>
                state.gateways \in MaybeGateways
           /\ HasHandle \in BOOLEAN
           /\ NoGateways \in MaybeGateways
BY InvParts, StateParts, StateMakers DEF RInv, In, HasHandle, Names

LEMMA NewStateTracks ==
    ASSUME NEW outcomes, NEW kind, AllLead(state.name, kind, outcomes),
           kind = shared.firewall.kind, NEW m, NewState(outcomes, m)
    PROVE  Tracks
BY DEF NewState, AllLead, Tracks, Anew, Published

LEMMA EnterTracks ==
    ASSUME NEW outcomes, NEW kind, AllLead(state.name, kind, outcomes),
           kind = shared.firewall.kind, Enter(outcomes)
    PROVE  Tracks
BY NewStateTracks DEF Enter

(* The state and the policy are amended, nothing new is published.         *)
LEMMA AmendedTracks ==
    ASSUME state.name \in Names, NEW st, state' = st, st.name = state.name,
           NEW s, shared' = s, s.firewall.kind = shared.firewall.kind,
           published'.name \in {published.name, state.name}
    PROVE  Tracks
BY DEF Tracks, Kept

(* Leaving Connecting and Connected.                                       *)
LEMMA ConnectingDisconnectTracks ==
    ASSUME RInv, In("Connecting"), NEW s \in Shared, s.firewall.kind = shared.firewall.kind,
           NEW after \in After, ConnectingDisconnect(after, s)
    PROVE  Tracks
<1>1. AllLead(state.name, s.firewall.kind, EnterDisconnecting(after, HasHandle, s))
  BY RInvParts, EnterDisconnectingLeads DEF In
<1> QED BY <1>1, NewStateTracks DEF ConnectingDisconnect

LEMMA ConnectedDisconnectTracks ==
    ASSUME In("Connected"), NEW s \in Shared, s.firewall.kind = shared.firewall.kind,
           NEW after \in After, ConnectedDisconnect(after, s)
    PROVE  Tracks
<1> DEFINE left(t) == EnterDisconnecting(after, TRUE, t)
<1>1. \A t \in ResetDns(s) : AllLead("Connected", shared.firewall.kind, left(t))
  <2> SUFFICES ASSUME NEW t \in ResetDns(s)
               PROVE  AllLead("Connected", shared.firewall.kind, left(t))
    OBVIOUS
  <2>1. t \in Shared /\ t.firewall = s.firewall
    BY ResetDnsOutcome
  <2>2. AllLead("Connected", t.firewall.kind, left(t))
    BY <2>1, EnterDisconnectingLeads
  <2> QED BY <2>1, <2>2
<1>2. NewState(UNION {left(t) : t \in ResetDns(s)}, CancelledMonitor)
  BY DEF ConnectedDisconnect
<1> HIDE DEF left
<1>3. AllLead(state.name, shared.firewall.kind, UNION {left(t) : t \in ResetDns(s)})
  BY <1>1 DEF AllLead, In
<1> QED BY <1>2, <1>3, NewStateTracks

(* What follows Disconnecting, and whether Offline reconnects, are changed *)
(* in place.                                                               *)
LEMMA AfterwardsTracks ==
    ASSUME RInv, In("Disconnecting"), NEW after, Afterwards(after)
    PROVE  Tracks
<1>1. state \in [name : {"Disconnecting"}, after : After]
  BY RInvParts, StateParts DEF In
<1>2. [state EXCEPT !.after = after].name = "Disconnecting" /\ state.name = "Disconnecting"
  BY <1>1
<1> QED BY <1>2, AmendedTracks DEF Afterwards, SameState, Names

LEMMA OfflineReconnectsTracks ==
    ASSUME RInv, In("Offline"), NEW reconnect, OfflineReconnects(reconnect)
    PROVE  Tracks
<1>1. state \in [name : {"Offline"}, reconnect : BOOLEAN, gateways : MaybeGateways]
  BY RInvParts, StateParts DEF In
<1>2. [state EXCEPT !.reconnect = reconnect].name = "Offline" /\ state.name = "Offline"
  BY <1>1
<1>3. published'.name \in {published.name, state.name}
  BY <1>2 DEF OfflineReconnects, Published
<1> QED BY <1>2, <1>3, AmendedTracks DEF OfflineReconnects, Names

-----------------------------------------------------------------------------
(* Commands.                                                               *)

LEMMA ConnectTracks ==
    ASSUME RInv, Connect
    PROVE  Tracks
<1> USE RInvParts, AfterMakers
<1>1. CASE ConnectInDisconnected
  <2>1. state.name \in Names
    BY <1>1 DEF ConnectInDisconnected, In, Names
  <2> QED BY <1>1, <2>1, EnterConnectingLeads, EnterTracks DEF ConnectInDisconnected
<1>2. CASE ConnectInConnecting
  <2>1. In("Connecting") /\ state.name \in Names /\ state.gateways \in MaybeGateways
    BY <1>2 DEF ConnectInConnecting, In, Names
  <2>2. CASE HasHandle
    BY <1>2, <2>1, <2>2, ConnectingDisconnectTracks DEF ConnectInConnecting
  <2>3. CASE ~HasHandle
    BY <1>2, <2>1, <2>3, EnterConnectingLeads, EnterTracks DEF ConnectInConnecting
  <2> QED BY <2>2, <2>3
<1>3. CASE ConnectInConnected
  BY <1>3, ConnectedDisconnectTracks DEF ConnectInConnected
<1>4. CASE ConnectInDisconnecting
  BY <1>4, AfterwardsTracks DEF ConnectInDisconnecting
<1>5. CASE ConnectInError
  <2> DEFINE left(t) == IF IsOffline
                        THEN EnterOffline(TRUE, NoGateways, t)
                        ELSE EnterConnecting(0, NoGateways, t)
  <2>1. ASSUME NEW t \in ResetDns(shared)
        PROVE  AllLead(state.name, shared.firewall.kind, left(t))
    <3>1. t \in Shared /\ t.firewall = shared.firewall /\ state.name \in Names
      BY <1>5, ResetDnsOutcome DEF ConnectInError, In, Names
    <3>2. AllLead(state.name, t.firewall.kind, left(t))
      BY <3>1, EnterOfflineLeads, EnterConnectingLeads
    <3> QED BY <3>1, <3>2
  <2>2. Enter(UNION {left(t) : t \in ResetDns(shared)})
    BY <1>5 DEF ConnectInError
  <2> HIDE DEF left
  <2>3. AllLead(state.name, shared.firewall.kind, UNION {left(t) : t \in ResetDns(shared)})
    BY <2>1 DEF AllLead
  <2> QED BY <2>2, <2>3, EnterTracks
<1>6. CASE ConnectInOffline
  BY <1>6, OfflineReconnectsTracks DEF ConnectInOffline
<1> QED BY <1>1, <1>2, <1>3, <1>4, <1>5, <1>6 DEF Connect

LEMMA DisconnectTracks ==
    ASSUME RInv, Disconnect
    PROVE  Tracks
<1> USE RInvParts, AfterMakers
<1>1. CASE DisconnectInDisconnected
  BY <1>1, AmendedTracks DEF DisconnectInDisconnected, SameState, In, Names
<1>2. CASE DisconnectInConnecting
  BY <1>2, ConnectingDisconnectTracks DEF DisconnectInConnecting
<1>3. CASE DisconnectInConnected
  BY <1>3, ConnectedDisconnectTracks DEF DisconnectInConnected
<1>4. CASE DisconnectInDisconnecting
  BY <1>4, AfterwardsTracks DEF DisconnectInDisconnecting
<1>5. CASE DisconnectInError
  <2> DEFINE left(t) == IF IsOffline
                        THEN EnterOffline(FALSE, NoGateways, t)
                        ELSE EnterDisconnected(t)
  <2>1. ASSUME NEW t \in ResetDns(shared)
        PROVE  AllLead(state.name, shared.firewall.kind, left(t))
    <3>1. t \in Shared /\ t.firewall = shared.firewall /\ state.name \in Names \ {"Connected"}
      BY <1>5, ResetDnsOutcome DEF DisconnectInError, In, Names
    <3>2. AllLead(state.name, t.firewall.kind, left(t))
      BY <3>1, EnterOfflineLeads, EnterDisconnectedLeads
    <3> QED BY <3>1, <3>2
  <2>2. Enter(UNION {left(t) : t \in ResetDns(shared)})
    BY <1>5 DEF DisconnectInError
  <2> HIDE DEF left
  <2>3. AllLead(state.name, shared.firewall.kind, UNION {left(t) : t \in ResetDns(shared)})
    BY <2>1 DEF AllLead
  <2> QED BY <2>2, <2>3, EnterTracks
<1>6. CASE DisconnectInOffline
  BY <1>6, OfflineReconnectsTracks DEF DisconnectInOffline
<1> QED BY <1>1, <1>2, <1>3, <1>4, <1>5, <1>6 DEF Disconnect

LEMMA BlockTracks ==
    ASSUME RInv, Block
    PROVE  Tracks
<1> USE RInvParts, AfterMakers
<1>1. CASE BlockInDisconnected
  BY <1>1, AmendedTracks DEF BlockInDisconnected, SameState, In, Names
<1>2. CASE BlockInConnecting
  BY <1>2, ConnectingDisconnectTracks DEF BlockInConnecting
<1>3. CASE BlockInConnected
  BY <1>3, ConnectedDisconnectTracks DEF BlockInConnected
<1>4. CASE BlockInDisconnecting
  BY <1>4, AfterwardsTracks DEF BlockInDisconnecting
<1>5. CASE BlockInError \/ BlockInOffline
  <2>1. state.name \in Names /\ Enter(EnterError(shared))
    BY <1>5 DEF BlockInError, BlockInOffline, In, Names
  <2> QED BY <2>1, EnterErrorLeads, EnterTracks
<1> QED BY <1>1, <1>2, <1>3, <1>4, <1>5 DEF Block

(* The policy of a tunnel that new settings amend stays of its kind.       *)
LEMMA SettingsOfTunnelKind ==
    ASSUME RInv, NEW new \in Settings,
           NEW s \in IF [shared.firewall EXCEPT !.lan = new.lan] # shared.firewall
                     THEN SetFirewall([shared.firewall EXCEPT !.lan = new.lan],
                                      [shared EXCEPT !.settings = new])
                     ELSE {[shared EXCEPT !.settings = new]}
    PROVE  s \in Shared /\ s.firewall.kind = shared.firewall.kind
<1> DEFINE applied == [shared EXCEPT !.settings = new]
           policy == [shared.firewall EXCEPT !.lan = new.lan]
<1>1. applied \in Shared /\ policy \in Policy /\ applied.firewall = shared.firewall
  BY RInvParts, AppliedSettings
<1>2. policy.kind = shared.firewall.kind
  BY RInvParts, SharedParts DEF Policy
<1>3. s \in IF policy # shared.firewall THEN SetFirewall(policy, applied) ELSE {applied}
  OBVIOUS
<1> HIDE DEF applied, policy
<1>4. CASE policy # shared.firewall
  BY <1>1, <1>2, <1>3, <1>4, FirewallOutcome
<1>5. CASE policy = shared.firewall
  BY <1>1, <1>3, <1>5
<1> QED BY <1>4, <1>5

(* The blocking policy is applied again, or the policy is left as it is.   *)
LEMMA BlockedSettingsKind ==
    ASSUME RInv, NEW new \in Settings, NEW s \in BlockedSettings(new)
    PROVE  s.firewall.kind \in {"Blocked", shared.firewall.kind}
<1> DEFINE applied == [shared EXCEPT !.settings = new]
<1>1. applied \in Shared /\ applied.firewall = shared.firewall
  BY RInvParts, AppliedSettings
<1>2. BlockedPolicy(new.lan) \in Policy /\ BlockedPolicy(new.lan).kind = "Blocked"
  BY PolicyTypes DEF Settings
<1>3. s = applied \/ s \in SetFirewall(BlockedPolicy(new.lan), applied)
  BY DEF BlockedSettings
<1> HIDE DEF applied
<1> QED BY <1>1, <1>2, <1>3, FirewallOutcome

LEMMA SettingsTracks ==
    ASSUME RInv, NEW new \in Settings, NEW other \in BOOLEAN, SetTunnelSettings(new, other),
           intent' = intent
    PROVE  Tracks
<1> USE RInvParts, AfterMakers
<1> DEFINE pointChanged == new.point # shared.settings.point
           shouldReconnect == pointChanged \/ other
           policy == [shared.firewall EXCEPT !.lan = new.lan]
           applied == [shared EXCEPT !.settings = new]
           amended == IF policy # shared.firewall THEN SetFirewall(policy, applied) ELSE {applied}
<1>1. CASE SettingsInDisconnected(new) \/ SettingsInDisconnecting(new)
  <2>1. /\ state' = state /\ shared' = applied /\ published' = published
        /\ state.name \in Names
    BY <1>1 DEF SettingsInDisconnected, SettingsInDisconnecting, SameState, In, Names
  <2>2. applied.firewall = shared.firewall
    BY AppliedSettings
  <2> HIDE DEF applied
  <2> QED BY <2>1, <2>2, AmendedTracks
<1>2. CASE SettingsInConnecting(new, pointChanged, shouldReconnect)
  <2>1. PICK s \in amended :
            \/ ConnectingDisconnect(ToError, s)
            \/ SameState(state, s)
            \/ ConnectingDisconnect(Reconnect, s)
            \/ Enter(EnterConnecting(state.retry, KeptGateways(pointChanged), s))
    BY <1>2 DEF SettingsInConnecting
  <2>2. In("Connecting") /\ state.name \in Names
    BY <1>2 DEF SettingsInConnecting, In, Names
  <2>3. s \in Shared /\ s.firewall.kind = shared.firewall.kind
    BY SettingsOfTunnelKind
  <2>4. KeptGateways(pointChanged) \in MaybeGateways
    BY <2>2 DEF KeptGateways
  <2> HIDE DEF shouldReconnect, pointChanged, amended
  <2>5. CASE SameState(state, s)
    BY <2>2, <2>3, <2>5, AmendedTracks DEF SameState
  <2>6. CASE ConnectingDisconnect(ToError, s) \/ ConnectingDisconnect(Reconnect, s)
    BY <2>2, <2>3, <2>6, ConnectingDisconnectTracks
  <2>7. CASE Enter(EnterConnecting(state.retry, KeptGateways(pointChanged), s))
    BY <2>2, <2>3, <2>4, <2>7, EnterConnectingLeads, EnterTracks
  <2> QED BY <2>1, <2>5, <2>6, <2>7
<1>3. CASE SettingsInConnected(new, shouldReconnect)
  <2>1. PICK s \in amended :
            \/ ConnectedDisconnect(ToError, s)
            \/ ConnectedDisconnect(Reconnect, s)
            \/ SameState(state, s)
    BY <1>3 DEF SettingsInConnected
  <2>2. In("Connected") /\ state.name \in Names
    BY <1>3 DEF SettingsInConnected, In, Names
  <2>3. s \in Shared /\ s.firewall.kind = shared.firewall.kind
    BY SettingsOfTunnelKind
  <2> HIDE DEF shouldReconnect, amended
  <2>4. CASE SameState(state, s)
    BY <2>2, <2>3, <2>4, AmendedTracks DEF SameState
  <2>5. CASE ConnectedDisconnect(ToError, s) \/ ConnectedDisconnect(Reconnect, s)
    BY <2>2, <2>3, <2>5, ConnectedDisconnectTracks
  <2> QED BY <2>1, <2>4, <2>5
<1>4. CASE SettingsInError(new)
  <2>1. PICK s \in BlockedSettings(new) : SameState(state, s)
    BY <1>4 DEF SettingsInError
  <2>2. s.firewall.kind \in {"Blocked", shared.firewall.kind}
    BY BlockedSettingsKind
  <2> QED BY <1>4, <2>1, <2>2 DEF SettingsInError, SameState, In, Tracks, Kept, Names
<1>5. CASE SettingsInOffline(new, pointChanged)
  <2>1. PICK s \in BlockedSettings(new) :
            SameState([state EXCEPT !.gateways = KeptGateways(pointChanged)], s)
    BY <1>5 DEF SettingsInOffline
  <2>2. s.firewall.kind \in {"Blocked", shared.firewall.kind}
    BY BlockedSettingsKind
  <2>3. state \in [name : {"Offline"}, reconnect : BOOLEAN, gateways : MaybeGateways]
    BY <1>5, StateParts DEF SettingsInOffline, In
  <2>4. state'.name = "Offline" /\ state.name = "Offline" /\ shared' = s /\ published' = published
    BY <2>1, <2>3 DEF SameState
  <2> QED BY <2>2, <2>4 DEF Tracks, Kept, Names
<1> QED BY <1>1, <1>2, <1>3, <1>4, <1>5 DEF SetTunnelSettings

-----------------------------------------------------------------------------
(* The other branches of select!.                                          *)

LEMMA ConnectivityTracks ==
    ASSUME RInv, NEW isOnline \in BOOLEAN, ConnectivityChanged(isOnline)
    PROVE  Tracks
<1> USE RInvParts, AfterMakers
<1>1. CASE OnlineUnchanged(isOnline) \/ OfflineStaysOffline(isOnline)
  BY <1>1, AmendedTracks DEF OnlineUnchanged, OfflineStaysOffline, SameState, In, Names
<1>2. CASE OfflineGetsOnline(isOnline)
  <2> DEFINE left(t) == IF state.reconnect
                        THEN EnterConnecting(0, state.gateways, t)
                        ELSE EnterDisconnected(t)
  <2>1. ASSUME NEW t \in ResetDns(shared)
        PROVE  AllLead(state.name, shared.firewall.kind, left(t))
    <3>1. /\ t \in Shared /\ t.firewall = shared.firewall
          /\ state.name \in Names \ {"Connected"} /\ state.gateways \in MaybeGateways
      BY <1>2, ResetDnsOutcome DEF OfflineGetsOnline, In, Names
    <3>2. AllLead(state.name, t.firewall.kind, left(t))
      BY <3>1, EnterConnectingLeads, EnterDisconnectedLeads
    <3> QED BY <3>1, <3>2
  <2>2. Enter(UNION {left(t) : t \in ResetDns(shared)})
    BY <1>2 DEF OfflineGetsOnline
  <2> HIDE DEF left
  <2>3. AllLead(state.name, shared.firewall.kind, UNION {left(t) : t \in ResetDns(shared)})
    BY <2>1 DEF AllLead
  <2> QED BY <2>2, <2>3, EnterTracks
<1>3. CASE DisconnectedGetsOffline(isOnline)
  <2>1. state.name \in Names /\ Enter(EnterOffline(FALSE, NoGateways, shared))
    BY <1>3 DEF DisconnectedGetsOffline, In, Names
  <2> QED BY <2>1, EnterOfflineLeads, EnterTracks
<1>4. CASE ConnectingGetsOffline(isOnline)
  BY <1>4, ConnectingDisconnectTracks DEF ConnectingGetsOffline
<1>5. CASE ConnectedGetsOffline(isOnline)
  BY <1>5, ConnectedDisconnectTracks DEF ConnectedGetsOffline
<1> QED BY <1>1, <1>2, <1>3, <1>4, <1>5 DEF ConnectivityChanged

(* The machine ends with the network opened, unless that fails.            *)
LEMMA ShutdownTracks ==
    ASSUME RInv, ShutdownCancelled, intent' = intent
    PROVE  Tracks
<1> USE RInvParts, AfterMakers
<1>1. shutdown
  BY DEF ShutdownCancelled
<1>2. CASE ShutdownInDisconnected
  <2>1. /\ state' = Simple("Finished") /\ shared' \in ResetDns(shared)
        /\ published' = published /\ In("Disconnected")
    BY <1>2 DEF ShutdownInDisconnected, Finish
  <2>2. shared'.firewall = shared.firewall
    BY <2>1, ResetDnsOutcome
  <2> QED BY <1>1, <2>1, <2>2 DEF Tracks, Finished, Simple, In
<1>3. CASE ShutdownInError \/ ShutdownInOffline
  <2>1. /\ state' = Simple("Finished") /\ published' = published
        /\ In("Error") \/ In("Offline")
        /\ \E t \in ResetDns(shared) : shared' \in SetFirewall(NoPolicy, t)
    BY <1>3 DEF ShutdownInError, ShutdownInOffline, Finish
  <2>2. PICK t \in ResetDns(shared) : shared' \in SetFirewall(NoPolicy, t)
    BY <2>1
  <2>3. t \in Shared /\ t.firewall = shared.firewall
    BY ResetDnsOutcome
  <2>4. shared'.firewall.kind \in {"None", shared.firewall.kind}
    BY <2>2, <2>3, FirewallOutcome, PolicyTypes
  <2> QED BY <1>1, <2>1, <2>4 DEF Tracks, Finished, Simple, In
<1>4. CASE ShutdownInConnecting
  BY <1>4, ConnectingDisconnectTracks DEF ShutdownInConnecting
<1>5. CASE ShutdownInConnected
  BY <1>5, ConnectedDisconnectTracks DEF ShutdownInConnected
<1>6. CASE ShutdownInDisconnecting
  BY <1>6, AfterwardsTracks DEF ShutdownInDisconnecting
<1> QED BY <1>2, <1>3, <1>4, <1>5, <1>6 DEF ShutdownCancelled

LEMMA ResolvedTracks ==
    ASSUME RInv, Resolved
    PROVE  Tracks
<1> USE RInvParts
<1> DEFINE policy == [shared.firewall EXCEPT !.api = TRUE]
           before == [shared EXCEPT !.preresolve = TRUE]
<1>1. In("Connecting") /\ state \in ConnectingStates /\ state.name \in Names
  BY StateParts DEF Resolved, In, Names
<1>2. PICK s \in SetFirewall(policy, before) :
        \/ FirewallFault(s) /\ Enter(EnterError(s))
        \/ /\ state' = [state EXCEPT !.phase = "Monitoring"]
           /\ shared' = AllowNetworking(s)
           /\ UNCHANGED published
  BY DEF Resolved
<1>3. before \in Shared /\ before.firewall = shared.firewall
  BY DEF Shared
<1>4. policy \in Policy /\ policy.kind = shared.firewall.kind
  BY SharedParts DEF Policy
<1> HIDE DEF policy, before
<1>5. s \in Shared /\ s.firewall.kind = shared.firewall.kind
  BY <1>3, <1>4, FirewallOutcome
<1>6. CASE Enter(EnterError(s))
  BY <1>1, <1>5, <1>6, EnterErrorLeads, EnterTracks
<1>7. CASE /\ state' = [state EXCEPT !.phase = "Monitoring"]
           /\ shared' = AllowNetworking(s)
           /\ UNCHANGED published
  <2>1. AllowNetworking(s).firewall = s.firewall
    BY <1>5, NetworkingOutcome
  <2>2. state'.name = state.name
    BY <1>1, <1>7 DEF ConnectingStates
  <2> QED BY <1>1, <1>5, <1>7, <2>1, <2>2, AmendedTracks
<1> QED BY <1>2, <1>6, <1>7

LEMMA FutureTracks ==
    ASSUME RInv, ReconnectDelayElapsed \/ ResolveFailed \/ Resolved \/ TombstoneJoined
    PROVE  Tracks
<1> USE RInvParts
<1>1. CASE ReconnectDelayElapsed
  <2>1. /\ state \in ConnectingStates /\ shared' = shared /\ published' = published
        /\ state' = [state EXCEPT !.phase = "Resolving"]
    BY <1>1, StateParts DEF ReconnectDelayElapsed, SameState, In
  <2>2. state'.name = state.name /\ state.name \in Names
    BY <2>1 DEF ConnectingStates, Names
  <2> QED BY <2>1, <2>2, AmendedTracks
<1>2. CASE ResolveFailed
  <2>1. In("Connecting") /\ state.name \in Names /\ Enter(ConnectingReconnect(shared))
    BY <1>2 DEF ResolveFailed, In, Names
  <2>2. AllLead(state.name, shared.firewall.kind, ConnectingReconnect(shared))
    BY <2>1, ReconnectAttempt, EnterConnectingLeads
  <2> QED BY <2>1, <2>2, EnterTracks
<1>3. CASE Resolved
  BY <1>3, ResolvedTracks
<1>4. CASE TombstoneJoined
  <2>1. state.name \in Names \ {"Connected"} /\ state.after \in After
    BY <1>4 DEF TombstoneJoined, In, Names
  <2> QED BY <1>4, <2>1, OnDisconnectLeads, NewStateTracks DEF TombstoneJoined
<1> QED BY <1>1, <1>2, <1>3, <1>4

-----------------------------------------------------------------------------
(* Events of the monitor.                                                  *)

(* An event in Connecting amends the policy, or fails to.                  *)
LEMMA AmendedKind ==
    ASSUME RInv, NEW p \in Policy, p.kind = shared.firewall.kind,
           NEW before \in Shared, before.firewall = shared.firewall,
           NEW s \in SetFirewall(p, before)
    PROVE  s \in Shared /\ s.firewall.kind = shared.firewall.kind
BY FirewallOutcome

(* Leaving Connecting with its monitor, after a failure.                   *)
LEMMA FailureTracks ==
    ASSUME In("Connecting"), NEW s \in Shared, s.firewall.kind = shared.firewall.kind,
           NEW m, NewState(EnterDisconnecting(ToError, TRUE, s), m)
    PROVE  Tracks
BY AfterMakers, EnterDisconnectingLeads, NewStateTracks DEF In

LEMMA SelectedGatewaysTracks ==
    ASSUME RInv, ConnectingSelectedGateways
    PROVE  Tracks
<1> USE RInvParts
<1> DEFINE gateways == Head(events).gateways
           policy == [shared.firewall EXCEPT !.entry = gateways]
<1>1. In("Connecting") /\ Receive("SelectedGateways") /\ state.name \in Names
  BY DEF ConnectingSelectedGateways, In, Names
<1>2. gateways \in MaybeGateways
  <2>1. events \in Seq(Event) /\ events # <<>>
    BY <1>1 DEF Inv, TypeOK, MonitorTypeOK, Receive
  <2>2. Head(events) \in Event
    BY <2>1
  <2> QED BY <2>2 DEF Event
<1>3. policy \in Policy /\ policy.kind = shared.firewall.kind
  <2> HIDE DEF gateways
  <2> QED BY <1>2, SharedParts DEF Policy
<1>4. PICK s \in SetFirewall(policy, shared) :
        \/ NewState(EnterDisconnecting(ToError, TRUE, s), CancelledMonitor)
        \/ /\ state' = [state EXCEPT !.gateways = gateways]
           /\ shared' = s /\ published' = published
  BY DEF ConnectingSelectedGateways
<1>5. [state EXCEPT !.gateways = gateways].name = state.name
  BY <1>1, StateParts DEF ConnectingStates, In
<1> HIDE DEF policy, gateways
<1>6. s \in Shared /\ s.firewall.kind = shared.firewall.kind
  BY <1>3, AmendedKind
<1> QED BY <1>1, <1>4, <1>5, <1>6, FailureTracks, AmendedTracks

LEMMA RegisteredTracks ==
    ASSUME RInv, ConnectingRegistered
    PROVE  Tracks
<1> USE RInvParts
<1> DEFINE policy == [shared.firewall EXCEPT !.peer = TRUE]
<1>1. In("Connecting") /\ state.name \in Names
  BY DEF ConnectingRegistered, In, Names
<1>2. policy \in Policy /\ policy.kind = shared.firewall.kind
  BY SharedParts DEF Policy
<1>3. PICK s \in SetFirewall(policy, shared) :
        \/ NewState(EnterDisconnecting(ToError, TRUE, s), CancelledMonitor)
        \/ state' = state /\ shared' = s /\ Publish("ConnectingTunnel")
  BY DEF ConnectingRegistered
<1> HIDE DEF policy
<1>4. s \in Shared /\ s.firewall.kind = shared.firewall.kind
  BY <1>2, AmendedKind
<1>5. Publish("ConnectingTunnel") => published'.name = state.name
  BY <1>1 DEF Publish, In
<1> QED BY <1>1, <1>3, <1>4, <1>5, FailureTracks, AmendedTracks

LEMMA InterfaceUpTracks ==
    ASSUME RInv, ConnectingInterfaceUp
    PROVE  Tracks
<1> USE RInvParts
<1> DEFINE policy == [shared.firewall EXCEPT !.tunnel = TRUE]
           proxied == [shared EXCEPT !.socks5 = TRUE]
<1>1. In("Connecting") /\ state.name \in Names
  BY DEF ConnectingInterfaceUp, In, Names
<1>2. policy \in Policy /\ policy.kind = shared.firewall.kind
  BY SharedParts DEF Policy
<1>3. proxied \in Shared /\ proxied.firewall = shared.firewall
  BY DEF Shared
<1>4. PICK s \in SetFirewall(policy, proxied) :
        \/ ConnectingDisconnect(ToError, s)
        \/ state' = state /\ shared' = s /\ Publish("ConnectingTunnel")
  BY DEF ConnectingInterfaceUp
<1> HIDE DEF policy, proxied
<1>5. s \in Shared /\ s.firewall.kind = shared.firewall.kind
  BY <1>2, <1>3, AmendedKind
<1>6. Publish("ConnectingTunnel") => published'.name = state.name
  BY <1>1 DEF Publish, In
<1> QED BY <1>1, <1>4, <1>5, <1>6, AfterMakers, ConnectingDisconnectTracks, AmendedTracks

LEMMA UpTracks ==
    ASSUME RInv, ConnectingUp, intent' = intent
    PROVE  Tracks
<1> USE RInvParts
<1>1. In("Connecting") /\ state.gateways \in MaybeGateways
  BY DEF ConnectingUp
<1>2. CASE state' = Simple("Panicked") /\ UNCHANGED <<shared, published>>
  BY <1>1, <1>2 DEF Tracks, Panicked, Simple, In
<1>3. CASE \E r \in EnterConnected(state.gateways, [shared EXCEPT !.blacklist = FALSE]) :
             \/ state' = r.state /\ shared' = r.shared /\ published' = Published(r.state)
             \/ NewState({r}, CancelledMonitor)
  <2> DEFINE cleared == [shared EXCEPT !.blacklist = FALSE]
  <2>1. cleared \in Shared /\ cleared.firewall = shared.firewall
    BY DEF Shared
  <2>2. PICK r \in EnterConnected(state.gateways, cleared) :
             \/ state' = r.state /\ shared' = r.shared /\ published' = Published(r.state)
             \/ NewState({r}, CancelledMonitor)
    BY <1>3
  <2> HIDE DEF cleared
  <2>3. Leads(state.name, shared.firewall.kind, r.state, r.shared)
    BY <1>1, <2>1, EnterConnectedLeads DEF AllLead, In
  <2> QED BY <2>2, <2>3 DEF NewState, Tracks, Anew, Published
<1> QED BY <1>2, <1>3 DEF ConnectingUp

LEMMA DownTracks ==
    ASSUME RInv, ConnectingDown
    PROVE  Tracks
<1> USE RInvParts
<1>1. In("Connecting") /\ state.name \in Names
  BY DEF ConnectingDown, In, Names
<1>2. CASE NewState(EnterDisconnecting(ToError, TRUE, shared), CancelledMonitor)
  BY <1>1, <1>2, FailureTracks
<1>3. CASE NewState(ConnectingReconnect([shared EXCEPT !.socks5 = FALSE]), IdleMonitor)
  <2> DEFINE s == [shared EXCEPT !.socks5 = FALSE]
  <2>1. s \in Shared /\ s.firewall = shared.firewall
    BY DEF Shared
  <2>2. NewState(ConnectingReconnect(s), IdleMonitor)
    BY <1>3
  <2> HIDE DEF s
  <2>3. AllLead(state.name, s.firewall.kind, ConnectingReconnect(s))
    BY <1>1, <2>1, ReconnectAttempt, EnterConnectingLeads
  <2> QED BY <2>1, <2>2, <2>3, NewStateTracks
<1> QED BY <1>2, <1>3 DEF ConnectingDown

LEMMA ConnectionFailedTracks ==
    ASSUME RInv, ConnectingConnectionFailed
    PROVE  Tracks
<1> USE RInvParts
<1>1. In("Connecting") /\ state.name \in Names /\ state \in ConnectingStates
  BY StateParts DEF ConnectingConnectionFailed, In, Names
<1>2. /\ shared' = [shared EXCEPT !.blacklist = @ \/ state.gateways # NoGateways]
      /\ state' = [state EXCEPT !.gateways = NoGateways]
      /\ published' = published
  BY DEF ConnectingConnectionFailed
<1>3. state'.name = state.name
  BY <1>1, <1>2 DEF ConnectingStates
<1>4. shared'.firewall = shared.firewall
  BY <1>2 DEF Shared
<1> QED BY <1>1, <1>2, <1>3, <1>4, AmendedTracks

LEMMA ConnectedDownTracks ==
    ASSUME RInv, ConnectedDown
    PROVE  Tracks
<1> USE RInvParts
<1> DEFINE left(t) == IF Head(events).error
                      THEN EnterError(t)
                      ELSE EnterConnecting(0, state.gateways, t)
<1>1. state.gateways \in MaybeGateways /\ state.name \in Names
  BY DEF ConnectedDown, In, Names
<1>2. ASSUME NEW t \in ResetDns(shared)
      PROVE  AllLead(state.name, shared.firewall.kind, left(t))
  <2>1. t \in Shared /\ t.firewall = shared.firewall
    BY ResetDnsOutcome
  <2>2. AllLead(state.name, t.firewall.kind, left(t))
    BY <1>1, <2>1, EnterErrorLeads, EnterConnectingLeads
  <2> QED BY <2>1, <2>2
<1>3. NewState(UNION {left(t) : t \in ResetDns(shared)}, IdleMonitor)
  BY DEF ConnectedDown
<1> HIDE DEF left
<1>4. AllLead(state.name, shared.firewall.kind, UNION {left(t) : t \in ResetDns(shared)})
  BY <1>2 DEF AllLead
<1> QED BY <1>3, <1>4, NewStateTracks

LEMMA MonitorEventTracks ==
    ASSUME RInv, MonitorEvent, intent' = intent
    PROVE  Tracks
<1>1. CASE ConnectingProgress
  <2>1. /\ UNCHANGED <<state, shared>> /\ In("Connecting")
        /\ \E step \in Steps : Publish(step)
    BY <1>1 DEF ConnectingProgress
  <2> QED BY <2>1, AmendedTracks DEF Publish, In, Names
<1>2. CASE ConnectedIgnores
  <2>1. UNCHANGED <<state, shared, published>> /\ In("Connected")
    BY <1>2 DEF ConnectedIgnores
  <2> QED BY <2>1, AmendedTracks DEF In, Names
<1> QED
  BY <1>1, <1>2, SelectedGatewaysTracks, RegisteredTracks, InterfaceUpTracks, UpTracks,
     DownTracks, ConnectionFailedTracks, ConnectedDownTracks DEF MonitorEvent

-----------------------------------------------------------------------------
(* The mapping.                                                            *)

(* A step of the life cycle, or none.                                      *)
Mapped == [Lifecycle!LifecycleNext]_(Lifecycle!lifecycleVars)

(* What the invariant says of the state a step leads to.                   *)
LEMMA ArrivalParts ==
    ASSUME Inv'
    PROVE  /\ intent' \in {"up", "down"}
           /\ state'.name \in {"Connecting", "Connected"} =>
                intent' = "up" /\ shared'.firewall.kind = state'.name
           /\ state'.name = "Disconnected" => intent' = "down" \/ shutdown'
BY DEF Inv, TypeOK, IntentRespected, IntentDown, IntentUp, Fits, In

LEMMA DepartureParts ==
    ASSUME RInv
    PROVE  /\ intent \in {"up", "down"}
           /\ state.name \in {"Connecting", "Connected"} =>
                intent = "up" /\ shared.firewall.kind = state.name
           /\ Shows(published.name, state)
BY DEF RInv, Inv, TypeOK, IntentRespected, IntentDown, Fits, In

LEMMA TracksShows == RInv /\ Tracks => Shows(published'.name, state')
BY DEF RInv, Tracks, Anew, Leads, Kept, Finished, Panicked, Shows, Names

(* A state entered is dialled, established, released, opened or held.      *)
LEMMA AnewMaps ==
    ASSUME RInv, Inv', Anew, shutdown' = shutdown
    PROVE  Mapped
<1> USE ArrivalParts, DepartureParts
<1> USE DEF Anew, Leads, Network, In
<1>1. ~In("Finished") /\ ~In("Finished")'
  BY DEF Names
<1>2. /\ Lifecycle!Dial \/ Lifecycle!Establish \/ Lifecycle!Release
         \/ Lifecycle!OpenNetwork \/ Lifecycle!Hold
  <2>1. CASE state'.name = "Connecting"
    BY <2>1 DEF Lifecycle!Dial
  <2>2. CASE state'.name = "Connected"
    BY <2>2 DEF Lifecycle!Establish, Shows, Names
  <2>3. CASE state'.name = "Disconnecting"
    BY <2>3 DEF Lifecycle!Release, Shows, Names
  <2>4. CASE state'.name = "Disconnected"
    BY <2>4 DEF Lifecycle!OpenNetwork, Lifecycle!Unchanged, Shows, Names
  <2>5. CASE state'.name \in {"Offline", "Error"}
    BY <2>5 DEF Lifecycle!Hold, Lifecycle!Unchanged
  <2> QED BY <2>1, <2>2, <2>3, <2>4, <2>5 DEF Names
<1> QED BY <1>1, <1>2 DEF Mapped, Lifecycle!LifecycleNext, Lifecycle!Advance

(* A state kept is a tunnel that goes on, a command that changes nothing   *)
(* yet, or a policy applied at last.                                       *)
LEMMA KeptMaps ==
    ASSUME RInv, Inv', Kept, shutdown' = shutdown
    PROVE  Mapped
<1> USE ArrivalParts, DepartureParts
<1> USE DEF Kept, Network, In
<1>1. ~In("Finished") /\ ~In("Finished")'
  BY DEF Names
<1>2. \/ Lifecycle!Dial \/ Lifecycle!Hold \/ Lifecycle!Ask \/ Lifecycle!Tighten
      \/ UNCHANGED Lifecycle!lifecycleVars
  <2>1. CASE state.name = "Connecting"
    BY <2>1 DEF Lifecycle!Dial, Shows, Names
  <2>2. CASE state.name = "Connected"
    BY <1>1, <2>2 DEF Lifecycle!lifecycleVars, Shows, Names
  <2>3. CASE state.name \in {"Disconnecting", "Disconnected"}
    BY <2>3 DEF Lifecycle!Ask, Shows, Names
  <2>4. CASE state.name \in {"Offline", "Error"} /\ published'.name = state.name
    BY <2>4 DEF Lifecycle!Hold, Lifecycle!Unchanged
  <2>5. CASE state.name = "Offline" /\ published'.name = "Disconnected"
    <3>1. published.name = "Disconnected"
      BY <2>5 DEF Shows
    <3>2. CASE shared'.firewall.kind = shared.firewall.kind
      BY <2>5, <3>1, <3>2 DEF Lifecycle!Ask
    <3>3. CASE shared'.firewall.kind # shared.firewall.kind /\ shared.firewall.kind = "None"
      BY <2>5, <3>1, <3>3 DEF Lifecycle!Tighten
    <3>4. CASE shared'.firewall.kind # shared.firewall.kind /\ shared.firewall.kind # "None"
      BY <2>5, <3>1, <3>4 DEF Lifecycle!Ask
    <3> QED BY <3>2, <3>3, <3>4
  <2> QED BY <2>1, <2>2, <2>3, <2>4, <2>5 DEF Shows, Names
<1> QED BY <1>1, <1>2 DEF Mapped, Lifecycle!LifecycleNext, Lifecycle!Advance

LEMMA TracksMaps ==
    ASSUME RInv, Inv', Tracks, shutdown' = shutdown
    PROVE  Mapped
<1>1. CASE Finished
  <2>1. Lifecycle!End
    BY <1>1, DepartureParts
       DEF Finished, Lifecycle!End, Lifecycle!Unchanged, Network, In, Shows, Names
  <2>2. ~In("Finished")
    BY <1>1 DEF Finished, In
  <2> QED BY <2>1, <2>2 DEF Mapped, Lifecycle!LifecycleNext, Lifecycle!Advance
<1>2. CASE Panicked
  BY <1>2, DepartureParts DEF Panicked, Mapped, Lifecycle!lifecycleVars, Network, In
<1> QED BY <1>1, <1>2, AnewMaps, KeptMaps DEF Tracks

(* The machine starts in Disconnected or Offline and shows the former.     *)
LEMMA InitMaps == Init => RInv /\ Lifecycle!LifecycleInit
<1> SUFFICES ASSUME Init
             PROVE  RInv /\ Lifecycle!LifecycleInit
  OBVIOUS
<1>1. Inv
  BY InitInv
<1>2. published.name = "Disconnected" /\ intent = "down" /\ shutdown = FALSE
  BY DEF Init, Published, Simple
<1>3. state.name \in {"Disconnected", "Offline"}
  BY InitReaches DEF OfflineState, Simple
<1>4. RInv
  BY <1>1, <1>2, <1>3 DEF RInv, Shows, Names
<1>5. Lifecycle!LifecycleInit
  BY <1>2, <1>3 DEF Lifecycle!LifecycleInit, Network, In
<1> QED BY <1>4, <1>5

(* Every step keeps what is shown in line, and maps.                       *)
LEMMA NextMaps == RInv /\ [Next]_vars => RInv' /\ Mapped
<1> SUFFICES ASSUME RInv, [Next]_vars
             PROVE  RInv' /\ Mapped
  OBVIOUS
<1>1. Inv'
  BY NextInv DEF RInv
<1>2. SUFFICES \/ Tracks /\ shutdown' = shutdown
               \/ /\ state' = state /\ shared' = shared /\ published' = published
                  /\ intent' = intent
                  /\ shutdown' = shutdown \/ ShutdownRequested
  <2>1. CASE Tracks /\ shutdown' = shutdown
    BY <1>1, <2>1, TracksShows, TracksMaps DEF RInv
  <2>2. CASE /\ state' = state /\ shared' = shared /\ published' = published
             /\ intent' = intent
             /\ shutdown' = shutdown \/ ShutdownRequested
    <3>1. RInv'
      BY <1>1, <2>2 DEF RInv, Shows
    <3>2. Network' = Network /\ In("Finished")' = In("Finished")
      BY <2>2 DEF Network, In
    <3>3. CASE shutdown' = shutdown
      BY <2>2, <3>1, <3>2, <3>3 DEF Mapped, Lifecycle!lifecycleVars
    <3>4. CASE ShutdownRequested
      BY <2>2, <3>1, <3>2, <3>4
         DEF ShutdownRequested, Mapped, Lifecycle!LifecycleNext, Lifecycle!Cancel
    <3> QED BY <2>2, <3>3, <3>4
  <2> QED BY <2>1, <2>2
<1>3. CASE HandleCommand
  BY <1>3, ConnectTracks, DisconnectTracks, BlockTracks, SettingsTracks
     DEF HandleCommand, Command
<1>4. CASE HandleMonitorEvent
  BY <1>4, MonitorEventTracks DEF HandleMonitorEvent
<1>5. CASE HandleFuture
  BY <1>5, FutureTracks DEF HandleFuture
<1>6. CASE HandleConnectivity
  BY <1>6, ConnectivityTracks DEF HandleConnectivity
<1>7. CASE HandleShutdown
  BY <1>7, ShutdownTracks DEF HandleShutdown
<1>8. CASE ShutdownRequested \/ MonitorTask \/ OfflineMonitorTask \/ Host \/ UNCHANGED vars
  BY <1>8 DEF ShutdownRequested, MonitorTask, OfflineMonitorTask, Host, vars, machineVars
<1> QED BY <1>3, <1>4, <1>5, <1>6, <1>7, <1>8 DEF Next

-----------------------------------------------------------------------------
(* The theorem.                                                            *)

(* Whatever fails and in whatever order commands, events, connectivity and *)
(* a shutdown come, what clients see of the tunnel, and what traffic can   *)
(* reach, follow the life cycle that VpnService relies on.                 *)
THEOREM LifecycleImplemented == Spec => ImplementsLifecycle
<1>1. Init => RInv /\ Lifecycle!LifecycleInit
  BY InitMaps
<1>2. RInv /\ [Next]_vars => RInv' /\ [Lifecycle!LifecycleNext]_(Lifecycle!lifecycleVars)
  BY NextMaps DEF Mapped
<1> QED BY <1>1, <1>2, PTL DEF Spec, ImplementsLifecycle, Lifecycle!LifecycleSpec

=============================================================================
