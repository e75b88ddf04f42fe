---------------------------- MODULE TunnelProofs ----------------------------
(***************************************************************************)
(* Theorems about the tunnel state machine, for every set of points, any   *)
(* saturation value and any choice of what may fail.                       *)
(*                                                                         *)
(* The first part has lemmas about the operators the machine is built from:*)
(* what operations on the shared state leave, where `enter` functions lead,*)
(* and what the steps of the monitor keep.  The second has the inductive   *)
(* invariant, with a lemma for each handler: where it leads and that it    *)
(* keeps the invariant.  The theorems come last.                           *)
(***************************************************************************)
EXTENDS TunnelProperties, TLAPS

-----------------------------------------------------------------------------
(* Operations on the shared state.                                         *)

(* A firewall operation leaves a shared state whose policy is the one asked*)
(* for, or, with the fault recorded, the one in force before.              *)
LEMMA FirewallOutcome ==
    ASSUME NEW p \in Policy, NEW s \in Shared, NEW t \in SetFirewall(p, s)
    PROVE  /\ t \in Shared
           /\ t.settings = s.settings
           /\ FirewallFault(t) => t.firewall = s.firewall
           /\ ~FirewallFault(t) => t.firewall = p
<1>1. CASE t = [s EXCEPT !.firewall = p, !.faults = @ \ {"firewall"}]
  <2>1. t.faults = s.faults \ {"firewall"} /\ t.firewall = p
    BY <1>1 DEF Shared
  <2>2. t.faults \in SUBSET {"firewall", "dns"}
    BY <2>1 DEF Shared
  <2>3. t \in Shared /\ t.settings = s.settings
    BY <1>1, <2>1, <2>2 DEF Shared
  <2> QED BY <2>1, <2>3 DEF FirewallFault
<1>2. CASE t = [s EXCEPT !.faults = @ \cup {"firewall"}]
  <2>1. t.faults = s.faults \cup {"firewall"} /\ t.firewall = s.firewall
    BY <1>2 DEF Shared
  <2>2. t.faults \in SUBSET {"firewall", "dns"}
    BY <2>1 DEF Shared
  <2>3. t \in Shared /\ t.settings = s.settings
    BY <1>2, <2>1, <2>2 DEF Shared
  <2> QED BY <2>1, <2>3 DEF FirewallFault
<1> QED BY <1>1, <1>2 DEF SetFirewall

(* A DNS operation leaves a shared state with the same policy and the same *)
(* firewall fault.                                                         *)
LEMMA DnsOutcome ==
    ASSUME NEW servers \in {"Default", "Tunnel"}, NEW s \in Shared,
           NEW t \in SetDns(servers, s)
    PROVE  /\ t \in Shared
           /\ t.settings = s.settings
           /\ t.firewall = s.firewall
           /\ FirewallFault(t) <=> FirewallFault(s)
<1>1. CASE t = [s EXCEPT !.dns = servers, !.faults = @ \ {"dns"}]
  <2>1. t.faults = s.faults \ {"dns"} /\ t.firewall = s.firewall
    BY <1>1 DEF Shared
  <2>2. t.faults \in SUBSET {"firewall", "dns"}
    BY <2>1 DEF Shared
  <2>3. t \in Shared /\ t.settings = s.settings
    BY <1>1, <2>1, <2>2 DEF Shared
  <2> QED BY <2>1, <2>3 DEF FirewallFault
<1>2. CASE t = [s EXCEPT !.faults = @ \cup {"dns"}]
  <2>1. t.faults = s.faults \cup {"dns"} /\ t.firewall = s.firewall
    BY <1>2 DEF Shared
  <2>2. t.faults \in SUBSET {"firewall", "dns"}
    BY <2>1 DEF Shared
  <2>3. t \in Shared /\ t.settings = s.settings
    BY <1>2, <2>1, <2>2 DEF Shared
  <2> QED BY <2>1, <2>3 DEF FirewallFault
<1> QED BY <1>1, <1>2 DEF SetDns

(* Resetting DNS is a DNS operation.                                       *)
LEMMA ResetDnsOutcome ==
    ASSUME NEW s \in Shared, NEW t \in ResetDns(s)
    PROVE  /\ t \in Shared
           /\ t.settings = s.settings
           /\ t.firewall = s.firewall
           /\ FirewallFault(t) <=> FirewallFault(s)
BY DnsOutcome DEF ResetDns

(* The policies the handlers apply are policies of the kind their name says*)
LEMMA PolicyTypes ==
    /\ NoPolicy \in Policy /\ NoPolicy.kind = "None"
    /\ \A lan \in BOOLEAN :
        BlockedPolicy(lan) \in Policy /\ BlockedPolicy(lan).kind = "Blocked"
    /\ \A lan \in BOOLEAN, gateways \in MaybeGateways :
        /\ ConnectingPolicy(lan, gateways) \in Policy
        /\ ConnectingPolicy(lan, gateways).kind = "Connecting"
        /\ ConnectedPolicy(lan, gateways) \in Policy
        /\ ConnectedPolicy(lan, gateways).kind = "Connected"
BY DEF NoPolicy, BlockedPolicy, ConnectingPolicy, ConnectedPolicy, Policy,
       MaybeGateways

(* Allowing networking or not leaves the policy and its fault alone.       *)
LEMMA NetworkingOutcome ==
    ASSUME NEW s \in Shared, NEW t \in {AllowNetworking(s), DisallowNetworking(s)}
    PROVE  /\ t \in Shared
           /\ t.settings = s.settings
           /\ t.firewall = s.firewall
           /\ FirewallFault(t) <=> FirewallFault(s)
BY DEF AllowNetworking, DisallowNetworking, Shared, FirewallFault

(* The components of a shared state that the handlers compute with.        *)
LEMMA SharedParts ==
    ASSUME NEW s \in Shared
    PROVE  /\ s.settings \in Settings /\ s.settings.lan \in BOOLEAN
           /\ s.firewall \in Policy
BY DEF Shared, Settings

-----------------------------------------------------------------------------
(* Entering a state.                                                       *)

(***************************************************************************)
(* The policy a state is entered with.  Connecting and Connected are not   *)
(* entered after a failure of the firewall; the others may be.             *)
(***************************************************************************)
Fits(st, s) ==
    /\ st.name \in {"Connecting", "Connected"} =>
        ~FirewallFault(s) /\ s.firewall.kind = st.name
    /\ ~FirewallFault(s) =>
        /\ st.name = "Disconnecting" =>
            s.firewall.kind \in {"Connecting", "Connected"}
        /\ st.name \in {"Error", "Offline"} => s.firewall.kind = "Blocked"
        /\ st.name = "Disconnected" => s.firewall.kind = "None"

(* The outcomes that reach one of `states` with a policy that fits it and, *)
(* Disconnected aside, without opening a firewall that s has closed.       *)
Reaching(states, s) ==
    { r \in [state : states, shared : Shared] :
        /\ Fits(r.state, r.shared)
        /\ r.shared.firewall.kind = "None" =>
            r.state.name = "Disconnected" \/ s.firewall.kind = "None" }

(* What follows the end of the monitor, as `after` has it.                 *)
Following(after) ==
    CASE after.kind \in {"Nothing", "Exit"} -> {Simple("Disconnected")}
      [] after.kind = "Error" -> {Simple("Error")}
      [] after.kind = "Reconnect" ->
            {Simple("Error"), OfflineState(TRUE, NoGateways),
             ConnectingState(0, NoGateways)}
      [] after.kind = "Offline" ->
            {OfflineState(after.reconnect, after.gateways)}

(* Entering Disconnected leads to it, with the network open.               *)
LEMMA EnterDisconnectedReaches ==
    ASSUME NEW s \in Shared
    PROVE  EnterDisconnected(s) \subseteq Reaching({Simple("Disconnected")}, s)
<1> SUFFICES ASSUME NEW d \in ResetDns(s), NEW t \in SetFirewall(NoPolicy, d)
             PROVE  Outcome(Simple("Disconnected"),
                        [AllowNetworking(t) EXCEPT !.preresolve = FALSE,
                                                   !.geo = TRUE,
                                                   !.socks5 = FALSE])
                        \in Reaching({Simple("Disconnected")}, s)
  BY DEF EnterDisconnected
<1> DEFINE u == [AllowNetworking(t) EXCEPT !.preresolve = FALSE, !.geo = TRUE,
                                           !.socks5 = FALSE]
<1>1. d \in Shared
  BY ResetDnsOutcome
<1>2. t \in Shared /\ (~FirewallFault(t) => t.firewall.kind = "None")
  BY <1>1, FirewallOutcome, PolicyTypes
<1>3. /\ u \in Shared
      /\ u.firewall = t.firewall
      /\ FirewallFault(u) <=> FirewallFault(t)
  BY <1>2 DEF AllowNetworking, Shared, FirewallFault
<1>4. Fits(Simple("Disconnected"), u)
  BY <1>2, <1>3 DEF Fits, Simple
<1> QED BY <1>3, <1>4 DEF Reaching, Outcome, Simple

(* Entering Error leads to it, with the network blocked.                   *)
LEMMA EnterErrorReaches ==
    ASSUME NEW s \in Shared
    PROVE  EnterError(s) \subseteq Reaching({Simple("Error")}, s)
<1> SUFFICES ASSUME NEW t \in SetFirewall(BlockedPolicy(s.settings.lan),
                                          DisallowNetworking(s))
             PROVE  Outcome(Simple("Error"), [t EXCEPT !.socks5 = FALSE])
                        \in Reaching({Simple("Error")}, s)
  BY DEF EnterError
<1> DEFINE u == [t EXCEPT !.socks5 = FALSE]
<1>1. /\ DisallowNetworking(s) \in Shared
      /\ DisallowNetworking(s).firewall = s.firewall
  BY NetworkingOutcome
<1>2. /\ t \in Shared
      /\ FirewallFault(t) => t.firewall = s.firewall
      /\ ~FirewallFault(t) => t.firewall.kind = "Blocked"
  BY <1>1, FirewallOutcome, PolicyTypes, SharedParts
<1>3. /\ u \in Shared
      /\ u.firewall = t.firewall
      /\ FirewallFault(u) <=> FirewallFault(t)
  BY <1>2 DEF Shared, FirewallFault
<1>4. Fits(Simple("Error"), u)
  BY <1>2, <1>3 DEF Fits, Simple
<1> QED BY <1>2, <1>3, <1>4 DEF Reaching, Outcome, Simple

(* Entering Offline leads to it, with the network blocked.                 *)
LEMMA EnterOfflineReaches ==
    ASSUME NEW s \in Shared, NEW reconnect, NEW gateways
    PROVE  EnterOffline(reconnect, gateways, s)
            \subseteq Reaching({OfflineState(reconnect, gateways)}, s)
<1> SUFFICES ASSUME NEW t \in SetFirewall(BlockedPolicy(s.settings.lan),
                                          DisallowNetworking(s))
             PROVE  Outcome(OfflineState(reconnect, gateways), t)
                        \in Reaching({OfflineState(reconnect, gateways)}, s)
  BY DEF EnterOffline
<1>1. /\ DisallowNetworking(s) \in Shared
      /\ DisallowNetworking(s).firewall = s.firewall
  BY NetworkingOutcome
<1>2. /\ t \in Shared
      /\ FirewallFault(t) => t.firewall = s.firewall
      /\ ~FirewallFault(t) => t.firewall.kind = "Blocked"
  BY <1>1, FirewallOutcome, PolicyTypes, SharedParts
<1>3. Fits(OfflineState(reconnect, gateways), t)
  BY <1>2 DEF Fits, OfflineState
<1> QED BY <1>2, <1>3 DEF Reaching, Outcome, OfflineState

(* Reaching fewer states, from a shared state that shares the policy.      *)
LEMMA ReachingMonotone ==
    ASSUME NEW small, NEW large, small \subseteq large, NEW s, NEW t,
           s.firewall.kind = "None" => t.firewall.kind = "None"
    PROVE  Reaching(small, s) \subseteq Reaching(large, t)
BY DEF Reaching

(* Entering Connecting leads to it with its policy in force, to Offline    *)
(* without a route, or to Error after a firewall failure.                  *)
LEMMA EnterConnectingReaches ==
    ASSUME NEW s \in Shared, NEW retry, NEW gateways \in MaybeGateways
    PROVE  EnterConnecting(retry, gateways, s)
            \subseteq Reaching({Simple("Error"), OfflineState(TRUE, gateways),
                                ConnectingState(retry, gateways)}, s)
<1> DEFINE d == DisallowNetworking(s)
           reached == {Simple("Error"), OfflineState(TRUE, gateways),
                       ConnectingState(retry, gateways)}
           policy == ConnectingPolicy(s.settings.lan, gateways)
<1>1. d \in Shared /\ d.firewall = s.firewall
  BY NetworkingOutcome
<1>2. policy \in Policy /\ policy.kind = "Connecting"
  BY PolicyTypes, SharedParts
<1>3. EnterOffline(TRUE, gateways, d) \subseteq Reaching(reached, s)
  <2>1. EnterOffline(TRUE, gateways, d)
          \subseteq Reaching({OfflineState(TRUE, gateways)}, d)
    BY <1>1, EnterOfflineReaches
  <2>2. Reaching({OfflineState(TRUE, gateways)}, d) \subseteq Reaching(reached, s)
    BY <1>1, ReachingMonotone
  <2> QED BY <2>1, <2>2
<1>4. ASSUME NEW t \in SetFirewall(policy, d)
      PROVE  IF FirewallFault(t)
             THEN EnterError(t) \subseteq Reaching(reached, s)
             ELSE Outcome(ConnectingState(retry, gateways), t)
                    \in Reaching(reached, s)
  <2>1. /\ t \in Shared
        /\ FirewallFault(t) => t.firewall = s.firewall
        /\ ~FirewallFault(t) => t.firewall.kind = "Connecting"
    BY <1>1, <1>2, FirewallOutcome
  <2>2. CASE FirewallFault(t)
    <3>1. EnterError(t) \subseteq Reaching({Simple("Error")}, t)
      BY <2>1, EnterErrorReaches
    <3>2. Reaching({Simple("Error")}, t) \subseteq Reaching(reached, s)
      BY <2>1, <2>2, ReachingMonotone
    <3> QED BY <2>2, <3>1, <3>2
  <2>3. CASE ~FirewallFault(t)
    <3>1. Fits(ConnectingState(retry, gateways), t)
      BY <2>1, <2>3 DEF Fits, ConnectingState
    <3> QED BY <2>1, <2>3, <3>1 DEF Reaching, Outcome
  <2> QED BY <2>2, <2>3
<1> SUFFICES ASSUME NEW r \in EnterConnecting(retry, gateways, s)
             PROVE  r \in Reaching(reached, s)
  OBVIOUS
<1>5. CASE IsOffline
  BY <1>3, <1>5 DEF EnterConnecting
<1>6. CASE ~IsOffline
  <2>1. PICK t \in SetFirewall(policy, d) :
            r \in IF FirewallFault(t)
                  THEN EnterError(t)
                  ELSE {Outcome(ConnectingState(retry, gateways), t)}
    BY <1>6 DEF EnterConnecting
  <2>2. CASE FirewallFault(t)
    BY <1>4, <2>1, <2>2
  <2>3. CASE ~FirewallFault(t)
    BY <1>4, <2>1, <2>3
  <2> QED BY <2>2, <2>3
<1> QED BY <1>5, <1>6

(* The end of the monitor leads where `after` says.                        *)
LEMMA OnDisconnectReaches ==
    ASSUME NEW s \in Shared, NEW after \in After
    PROVE  OnDisconnect(after, s) \subseteq Reaching(Following(after), s)
<1>1. NoGateways \in MaybeGateways
  BY DEF MaybeGateways
<1>2. CASE after.kind \in {"Nothing", "Exit"}
  <2>1. OnDisconnect(after, s) = EnterDisconnected(s)
    BY <1>2 DEF OnDisconnect
  <2>2. Following(after) = {Simple("Disconnected")}
    BY <1>2 DEF Following
  <2> QED BY <2>1, <2>2, EnterDisconnectedReaches
<1>3. CASE after.kind = "Error"
  <2>1. OnDisconnect(after, s) = EnterError(s)
    BY <1>3 DEF OnDisconnect
  <2>2. Following(after) = {Simple("Error")}
    BY <1>3 DEF Following
  <2> QED BY <2>1, <2>2, EnterErrorReaches
<1>4. CASE after.kind = "Reconnect"
  <2>1. OnDisconnect(after, s) = EnterConnecting(0, NoGateways, s)
    BY <1>4 DEF OnDisconnect
  <2>2. Following(after) = {Simple("Error"), OfflineState(TRUE, NoGateways),
                            ConnectingState(0, NoGateways)}
    BY <1>4 DEF Following
  <2> QED BY <1>1, <2>1, <2>2, EnterConnectingReaches
<1>5. CASE after.kind = "Offline"
  <2>1. OnDisconnect(after, s) = EnterOffline(after.reconnect, after.gateways, s)
    BY <1>5 DEF OnDisconnect
  <2>2. Following(after) = {OfflineState(after.reconnect, after.gateways)}
    BY <1>5 DEF Following
  <2> QED BY <2>1, <2>2, EnterOfflineReaches
<1> QED BY <1>2, <1>3, <1>4, <1>5 DEF After

(* Disconnecting keeps the policy of the tunnel it takes down.             *)
LEMMA EnterDisconnectingReaches ==
    ASSUME NEW s \in Shared, NEW after \in After, NEW hasMonitor \in BOOLEAN,
           hasMonitor /\ ~FirewallFault(s) =>
               s.firewall.kind \in {"Connecting", "Connected"}
    PROVE  EnterDisconnecting(after, hasMonitor, s)
            \subseteq Reaching(IF hasMonitor THEN {DisconnectingState(after)}
                                             ELSE Following(after), s)
<1> DEFINE d == DisallowNetworking(s)
<1>1. /\ d \in Shared
      /\ d.firewall = s.firewall
      /\ FirewallFault(d) <=> FirewallFault(s)
  BY NetworkingOutcome
<1>2. CASE hasMonitor
  <2>1. EnterDisconnecting(after, hasMonitor, s)
            = {Outcome(DisconnectingState(after), d)}
    BY <1>2 DEF EnterDisconnecting
  <2>2. Fits(DisconnectingState(after), d)
    BY <1>1, <1>2 DEF Fits, DisconnectingState
  <2>3. Outcome(DisconnectingState(after), d)
            \in Reaching({DisconnectingState(after)}, s)
    BY <1>1, <2>2 DEF Reaching, Outcome
  <2> QED BY <1>2, <2>1, <2>3
<1>3. CASE ~hasMonitor
  <2>1. EnterDisconnecting(after, hasMonitor, s) = OnDisconnect(after, d)
    BY <1>3 DEF EnterDisconnecting
  <2>2. OnDisconnect(after, d) \subseteq Reaching(Following(after), d)
    BY <1>1, OnDisconnectReaches
  <2>3. Reaching(Following(after), d) \subseteq Reaching(Following(after), s)
    BY <1>1, ReachingMonotone
  <2> QED BY <1>3, <2>1, <2>2, <2>3
<1> QED BY <1>2, <1>3

(* A firewall or DNS failure on entering Connected leads to Disconnecting. *)
LEMMA EnterConnectedReaches ==
    ASSUME NEW s \in Shared, NEW gateways \in MaybeGateways
    PROVE  EnterConnected(gateways, s)
            \subseteq Reaching({ConnectedState(gateways),
                                DisconnectingState(ToError)}, s)
<1> DEFINE policy == ConnectedPolicy(s.settings.lan, gateways)
           reached == {ConnectedState(gateways), DisconnectingState(ToError)}
<1>1. policy \in Policy /\ policy.kind = "Connected"
  BY PolicyTypes, SharedParts
<1> SUFFICES ASSUME NEW r \in EnterConnected(gateways, s)
             PROVE  r \in Reaching(reached, s)
  OBVIOUS
<1>2. PICK f \in SetFirewall(policy, s) :
        \E t \in IF FirewallFault(f) THEN {f} ELSE SetDns("Tunnel", f) :
            r \in IF FirewallFault(t) \/ DnsFault(t)
                  THEN EnterDisconnecting(ToError, TRUE, t)
                  ELSE {Outcome(ConnectedState(gateways), t)}
  BY DEF EnterConnected
<1>3. PICK t \in IF FirewallFault(f) THEN {f} ELSE SetDns("Tunnel", f) :
            r \in IF FirewallFault(t) \/ DnsFault(t)
                  THEN EnterDisconnecting(ToError, TRUE, t)
                  ELSE {Outcome(ConnectedState(gateways), t)}
  BY <1>2
<1>4. /\ f \in Shared
      /\ FirewallFault(f) => f.firewall = s.firewall
      /\ ~FirewallFault(f) => f.firewall.kind = "Connected"
  BY <1>1, FirewallOutcome
<1>5. /\ t \in Shared
      /\ FirewallFault(t) => t.firewall = s.firewall
      /\ ~FirewallFault(t) => t.firewall.kind = "Connected"
  <2>1. CASE FirewallFault(f)
    BY <1>3, <1>4, <2>1
  <2>2. CASE ~FirewallFault(f)
    <3>1. t \in SetDns("Tunnel", f)
      BY <1>3, <2>2
    <3> QED BY <1>4, <2>2, <3>1, DnsOutcome
  <2> QED BY <2>1, <2>2
<1>6. CASE FirewallFault(t) \/ DnsFault(t)
  <2>1. ToError \in After
    BY DEF ToError, After
  <2>2. r \in EnterDisconnecting(ToError, TRUE, t)
    BY <1>3, <1>6
  <2>3. EnterDisconnecting(ToError, TRUE, t)
            \subseteq Reaching({DisconnectingState(ToError)}, t)
    BY <1>5, <2>1, EnterDisconnectingReaches
  <2>4. Reaching({DisconnectingState(ToError)}, t) \subseteq Reaching(reached, s)
    <3>1. t.firewall.kind = "None" => s.firewall.kind = "None"
      BY <1>5
    <3> QED BY <3>1, ReachingMonotone
  <2> QED BY <2>2, <2>3, <2>4
<1>7. CASE ~FirewallFault(t) /\ ~DnsFault(t)
  <2>1. r = Outcome(ConnectedState(gateways), t)
    BY <1>3, <1>7
  <2>2. Fits(ConnectedState(gateways), t)
    BY <1>5, <1>7 DEF Fits, ConnectedState
  <2> QED BY <1>5, <1>7, <2>1, <2>2 DEF Reaching, Outcome
<1> QED BY <1>6, <1>7

-----------------------------------------------------------------------------
(* States and the intents they are consistent with.                        *)

(* The parts of a state, by its name.                                      *)
LEMMA StateParts ==
    ASSUME NEW st \in State
    PROVE  /\ st.name \in {"Disconnected", "Error", "Finished", "Panicked",
                           "Offline", "Connecting", "Connected", "Disconnecting"}
           /\ st.name = "Connecting" =>
                /\ st \in ConnectingStates
                /\ st.retry \in 0..MaxRetry
                /\ st.gateways \in MaybeGateways
                /\ st.phase \in {"Delay", "Resolving", "Monitoring"}
           /\ st.name = "Offline" =>
                /\ st \in [name : {"Offline"}, reconnect : BOOLEAN,
                           gateways : MaybeGateways]
                /\ st.reconnect \in BOOLEAN /\ st.gateways \in MaybeGateways
           /\ st.name = "Connected" =>
                st.gateways \in Points /\ st.gateways \in MaybeGateways
           /\ st.name = "Disconnecting" =>
                /\ st \in [name : {"Disconnecting"}, after : After]
                /\ st.after \in After
BY DEF State, ConnectingStates, MaybeGateways

(* The states the handlers build.                                          *)
LEMMA StateMakers ==
    /\ \A name \in {"Disconnected", "Error", "Finished", "Panicked"} :
        Simple(name) \in State /\ Simple(name).name = name
    /\ \A reconnect \in BOOLEAN, gateways \in MaybeGateways :
        OfflineState(reconnect, gateways) \in State
    /\ \A retry \in 0..MaxRetry, gateways \in MaybeGateways :
        ConnectingState(retry, gateways) \in State
    /\ \A gateways \in Points : ConnectedState(gateways) \in State
    /\ \A after \in After : DisconnectingState(after) \in State
    /\ 0 \in 0..MaxRetry
    /\ NoGateways \in MaybeGateways
<1>1. 0 \in 0..MaxRetry
  BY RetryAssumption
<1>2. \A name \in {"Disconnected", "Error", "Finished", "Panicked"} :
        Simple(name) \in State /\ Simple(name).name = name
  BY DEF Simple, State
<1>3. \A reconnect \in BOOLEAN, gateways \in MaybeGateways :
        OfflineState(reconnect, gateways) \in State
  BY DEF OfflineState, State
<1>4. \A retry \in 0..MaxRetry, gateways \in MaybeGateways :
        ConnectingState(retry, gateways) \in State
  BY DEF ConnectingState, State, ConnectingStates
<1>5. \A gateways \in Points : ConnectedState(gateways) \in State
  BY DEF ConnectedState, State
<1>6. \A after \in After : DisconnectingState(after) \in State
  BY DEF DisconnectingState, State
<1>7. NoGateways \in MaybeGateways
  BY DEF MaybeGateways
<1> QED BY <1>1, <1>2, <1>3, <1>4, <1>5, <1>6, <1>7

(* What may follow the end of a monitor.                                   *)
LEMMA AfterMakers ==
    /\ Nothing \in After /\ Nothing.kind = "Nothing"
    /\ Reconnect \in After /\ Reconnect.kind = "Reconnect"
    /\ ToError \in After /\ ToError.kind = "Error"
    /\ Exit \in After /\ Exit.kind = "Exit"
    /\ \A reconnect \in BOOLEAN, gateways \in MaybeGateways :
        /\ ToOffline(reconnect, gateways) \in After
        /\ ToOffline(reconnect, gateways).kind = "Offline"
        /\ ToOffline(reconnect, gateways).reconnect = reconnect
        /\ ToOffline(reconnect, gateways).gateways = gateways
BY DEF Nothing, Reconnect, ToError, Exit, ToOffline, After

(* The parts of an `after`, by its kind.                                   *)
LEMMA AfterParts ==
    ASSUME NEW after \in After
    PROVE  /\ after.kind \in {"Nothing", "Reconnect", "Error", "Offline", "Exit"}
           /\ after.kind = "Offline" =>
                /\ after.reconnect \in BOOLEAN
                /\ after.gateways \in MaybeGateways
                /\ \A reconnect \in BOOLEAN :
                    [after EXCEPT !.reconnect = reconnect]
                        = ToOffline(reconnect, after.gateways)
<1>1. after.kind \in {"Nothing", "Reconnect", "Error", "Offline", "Exit"}
  BY DEF After
<1>2. CASE after.kind = "Offline"
  <2>1. after \in [kind : {"Offline"}, reconnect : BOOLEAN,
                   gateways : MaybeGateways]
    BY <1>2 DEF After
  <2> QED BY <1>1, <2>1 DEF ToOffline
<1> QED BY <1>1, <1>2

(* The states that respect an intent: IntentRespected of a single state.   *)
Consistent(goal, stopping) ==
    { st \in State :
        /\ goal = "down" =>
            /\ st.name \notin {"Connecting", "Connected"}
            /\ st.name = "Offline" => ~st.reconnect
            /\ st.name = "Disconnecting" =>
                /\ st.after.kind # "Reconnect"
                /\ st.after.kind = "Offline" => ~st.after.reconnect
        /\ goal = "up" /\ ~stopping =>
            /\ st.name \notin {"Disconnected", "Finished"}
            /\ st.name = "Offline" => st.reconnect
            /\ st.name = "Disconnecting" =>
                /\ st.after.kind \notin {"Nothing", "Exit"}
                /\ st.after.kind = "Offline" => st.after.reconnect }

(* IntentRespected says that the state is consistent with the intent.      *)
LEMMA ConsistentIsRespected ==
    ASSUME state \in State
    PROVE  IntentRespected <=> state \in Consistent(intent, shutdown)
BY DEF IntentRespected, IntentDown, IntentUp, Consistent, In

(* The states that hold the handle or the tombstone of a monitor.          *)
Holds(st) ==
    \/ st.name = "Connecting" /\ st.phase = "Monitoring"
    \/ st.name \in {"Connected", "Disconnecting", "Panicked"}

(* The states that `enter` functions return.                               *)
Entered ==
    { st \in State : /\ st.name \notin {"Finished", "Panicked"}
                     /\ st.name = "Disconnecting" => st.after.kind # "Exit" }

(* What follows Disconnecting respects the intents that Disconnecting does *)
(* and holds no monitor.                                                   *)
LEMMA FollowingStates ==
    ASSUME NEW after \in After, NEW goal, NEW stopping,
           DisconnectingState(after) \in Consistent(goal, stopping)
    PROVE  /\ Following(after) \subseteq Consistent(goal, stopping)
           /\ Following(after) \subseteq Entered
           /\ \A st \in Following(after) : ~Holds(st)
<1>1. DisconnectingState(after).after = after /\
      DisconnectingState(after).name = "Disconnecting"
  BY DEF DisconnectingState
<1> SUFFICES ASSUME NEW st \in Following(after)
             PROVE  st \in Consistent(goal, stopping) /\ st \in Entered /\ ~Holds(st)
  OBVIOUS
<1>2. CASE after.kind \in {"Nothing", "Exit"}
  <2>1. st = Simple("Disconnected") /\ st \in State /\ st.name = "Disconnected"
    BY <1>2, StateMakers DEF Following
  <2> QED BY <1>1, <1>2, <2>1 DEF Consistent, Entered, Holds
<1>3. CASE after.kind = "Error"
  <2>1. st = Simple("Error") /\ st \in State /\ st.name = "Error"
    BY <1>3, StateMakers DEF Following
  <2> QED BY <2>1 DEF Consistent, Entered, Holds
<1>4. CASE after.kind = "Reconnect"
  <2>1. ~(goal = "down")
    BY <1>1, <1>4 DEF Consistent
  <2>2. \/ st = Simple("Error") /\ st \in State /\ st.name = "Error"
        \/ st = OfflineState(TRUE, NoGateways)
        \/ st = ConnectingState(0, NoGateways)
    BY <1>4, StateMakers DEF Following
  <2>3. CASE st = Simple("Error") /\ st \in State /\ st.name = "Error"
    BY <2>3 DEF Consistent, Entered, Holds
  <2>4. CASE st = OfflineState(TRUE, NoGateways)
    <3>1. st \in State
      BY <2>4, StateMakers
    <3>2. st.name = "Offline" /\ st.reconnect
      BY <2>4 DEF OfflineState
    <3> QED BY <2>1, <3>1, <3>2 DEF Consistent, Entered, Holds
  <2>5. CASE st = ConnectingState(0, NoGateways)
    <3>1. st \in State
      BY <2>5, StateMakers
    <3>2. st.name = "Connecting" /\ st.phase = "Delay"
      BY <2>5 DEF ConnectingState
    <3> QED BY <2>1, <3>1, <3>2 DEF Consistent, Entered, Holds
  <2> QED BY <2>2, <2>3, <2>4, <2>5
<1>5. CASE after.kind = "Offline"
  <2>1. st = OfflineState(after.reconnect, after.gateways)
    BY <1>5 DEF Following
  <2>2. st \in State
    BY <1>5, <2>1, AfterParts, StateMakers
  <2>3. st.name = "Offline" /\ st.reconnect = after.reconnect
    BY <2>1 DEF OfflineState
  <2> QED BY <1>1, <1>5, <2>2, <2>3 DEF Consistent, Entered, Holds
<1> QED BY <1>2, <1>3, <1>4, <1>5, AfterParts

-----------------------------------------------------------------------------
(* Steps of the tunnel monitor.                                            *)

(* The task stays what it is, and exists before and after.                 *)
MonitorKept == MonitorTypeOK' /\ MonitorRuns /\ MonitorRuns'

(* The events the task sends.                                              *)
LEMMA EventTypes ==
    /\ \A kind \in EventKinds : Plain(kind) \in Event
    /\ \A kind \in EventKinds, error \in BOOLEAN :
        [Plain(kind) EXCEPT !.error = error] \in Event
    /\ \A kind \in EventKinds, gateways \in MaybeGateways :
        [Plain(kind) EXCEPT !.gateways = gateways] \in Event
    /\ { "AwaitingAccountReadiness", "RefreshingGateways", "SelectingGateways",
         "RegisteringWithGateways", "Up", "ConnectionFailed",
         "SelectedGateways", "RegisteredWithGateways", "InterfaceUp", "Down" }
        \subseteq EventKinds
BY DEF Plain, Event, EventKinds, MaybeGateways, ReplyStage

(* Sending an event leaves a queue of events.                              *)
LEMMA SendType ==
    ASSUME MonitorTypeOK, NEW event \in Event, Send(event)
    PROVE  events' \in Seq(Event)
BY DEF MonitorTypeOK, Send

(* Changing stage leaves a task that exists.                               *)
LEMMA GoesType ==
    ASSUME MonitorTypeOK, NEW stage \in Stages \ {"Idle"}, MonitorGoes(stage)
    PROVE  monitor' \in Monitor /\ monitor'.stage # "Idle"
BY DEF MonitorTypeOK, MonitorGoes, Monitor

(* Reporting an event and changing stage keeps the task.                   *)
LEMMA ReportKeeps ==
    ASSUME MonitorTypeOK, NEW from \in Stages \ {"Idle"}, NEW event \in Event,
           NEW to \in Stages \ {"Idle"}, Report(from, event, to)
    PROVE  MonitorKept
<1>1. events' \in Seq(Event)
  BY SendType DEF Report
<1>2. monitor' \in Monitor /\ monitor'.stage # "Idle"
  BY GoesType DEF Report
<1> QED BY <1>1, <1>2 DEF Report, MonitorKept, MonitorTypeOK, MonitorRuns

(* Ending with an error keeps the task, which waits for Down's reply.      *)
LEMMA FailKeeps ==
    ASSUME MonitorTypeOK, NEW stage \in Stages \ {"Idle"},
           NEW withReason \in BOOLEAN, Fail(stage, withReason)
    PROVE  MonitorKept
<1>1. [Plain("Down") EXCEPT !.error = withReason] \in Event
  BY EventTypes
<1>2. "AwaitingDownReply" \in Stages \ {"Idle"}
  BY DEF Stages
<1> QED BY <1>1, <1>2, ReportKeeps DEF Fail

(* A step that sends nothing.                                              *)
LEMMA QuietKeeps ==
    ASSUME MonitorTypeOK, MonitorRuns, NEW stage \in Stages \ {"Idle"},
           MonitorGoes(stage), UNCHANGED <<events, listening>>,
           routes' \in BOOLEAN
    PROVE  MonitorKept
BY GoesType DEF MonitorKept, MonitorTypeOK, MonitorRuns

(* What the task does by itself keeps it.                                  *)
LEMMA MonitorProgressKeeps ==
    ASSUME MonitorTypeOK, MonitorProgress
    PROVE  MonitorKept
<1>1. CASE Ipv6Checked
  BY <1>1, EventTypes, ReportKeeps DEF Ipv6Checked, Stages
<1>2. CASE GatewayClientReplaced
  BY <1>2, EventTypes, ReportKeeps DEF GatewayClientReplaced, Stages
<1>3. CASE SelectedReply
  BY <1>3, EventTypes, ReportKeeps DEF SelectedReply, Stages
<1>4. CASE RegisteredReply
  BY <1>4, QuietKeeps DEF RegisteredReply, Stages, MonitorRuns, MonitorTypeOK
<1>5. CASE RoutesAdded
  BY <1>5, QuietKeeps DEF RoutesAdded, Stages, MonitorRuns
<1>6. CASE TunnelStarted
  BY <1>6, EventTypes, ReportKeeps DEF TunnelStarted, Stages
<1>7. CASE InterfaceReply
  BY <1>7, QuietKeeps DEF InterfaceReply, Stages, MonitorRuns, MonitorTypeOK
<1>8. CASE TunnelClosed
  BY <1>8, EventTypes, ReportKeeps DEF TunnelClosed, Stages
<1>9. CASE DownReply
  BY <1>9, QuietKeeps DEF DownReply, Stages, MonitorRuns, MonitorTypeOK
<1>10. CASE Cancelled
  BY <1>10, FailKeeps DEF Cancelled, CancellableStages, Stages
<1>11. CASE LoopLeft
  BY <1>11, QuietKeeps DEF LoopLeft, Stages, MonitorRuns, MonitorTypeOK
<1> QED BY <1>1, <1>2, <1>3, <1>4, <1>5, <1>6, <1>7, <1>8, <1>9, <1>10, <1>11
        DEF MonitorProgress

(* What the task does after an outcome of its surroundings keeps it.       *)
LEMMA MonitorOutcomeKeeps ==
    ASSUME MonitorTypeOK, NEW point \in Points, MonitorOutcome(point)
    PROVE  MonitorKept
<1>1. CASE AccountReady
  BY <1>1, EventTypes, ReportKeeps DEF AccountReady, Stages
<1>2. CASE GatewaysSelected(point)
  <2>1. [Plain("SelectedGateways") EXCEPT !.gateways = point] \in Event
    BY EventTypes DEF MaybeGateways
  <2>2. events' \in Seq(Event)
    BY <1>2, <2>1, SendType DEF GatewaysSelected
  <2>3. monitor' \in Monitor /\ monitor'.stage # "Idle"
    BY <1>2 DEF GatewaysSelected, MonitorTypeOK, Monitor, MaybeGateways, Stages
  <2> QED BY <1>2, <2>2, <2>3
          DEF GatewaysSelected, MonitorKept, MonitorTypeOK, MonitorRuns
<1>3. CASE Registered
  BY <1>3, EventTypes, ReportKeeps DEF Registered, Stages
<1>4. CASE ConnectionViable
  BY <1>4, EventTypes, ReportKeeps DEF ConnectionViable, Stages
<1>5. CASE ConnectionLost
  BY <1>5, EventTypes, ReportKeeps DEF ConnectionLost, Stages
<1>6. CASE LoopLeft
  BY <1>6, QuietKeeps DEF LoopLeft, Stages, MonitorRuns, MonitorTypeOK
<1>7. CASE StageFailed
  BY <1>7, FailKeeps DEF StageFailed, CancellableStages, Stages
<1>8. CASE RoutesFailed
  <2>1. [Plain("Down") EXCEPT !.error = TRUE] \in Event
    BY EventTypes
  <2>2. events' \in Seq(Event)
    BY <1>8, <2>1, SendType DEF RoutesFailed
  <2>3. monitor' \in Monitor /\ monitor'.stage # "Idle"
    BY <1>8, GoesType DEF RoutesFailed, Stages
  <2> QED BY <1>8, <2>2, <2>3
          DEF RoutesFailed, MonitorKept, MonitorTypeOK, MonitorRuns
<1>9. CASE ProbeFailed
  BY <1>9, FailKeeps DEF ProbeFailed, Stages
<1> QED BY <1>1, <1>2, <1>3, <1>4, <1>5, <1>6, <1>7, <1>8, <1>9
        DEF MonitorOutcome

-----------------------------------------------------------------------------
(* What the lemmas about handlers use of states and monitors.              *)

(* The monitor of the handle, once cancelled or awaited.                   *)
LEMMA MonitorMakers ==
    /\ IdleMonitor \in Monitor /\ IdleMonitor.stage = "Idle"
    /\ \A gateways \in MaybeGateways :
        /\ StartedMonitor(gateways) \in Monitor
        /\ StartedMonitor(gateways).stage = "Starting"
    /\ monitor \in Monitor =>
        /\ CancelledMonitor \in Monitor
        /\ CancelledMonitor.stage = monitor.stage
BY DEF IdleMonitor, StartedMonitor, CancelledMonitor, Monitor, Stages,
       MaybeGateways

(* States by the intents they respect.                                     *)
LEMMA ConsistentStates ==
    /\ \A goal, stopping :
        /\ Simple("Error") \in Consistent(goal, stopping)
        /\ DisconnectingState(ToError) \in Consistent(goal, stopping)
    /\ \A goal :
        /\ Simple("Finished") \in Consistent(goal, TRUE)
        /\ DisconnectingState(Nothing) \in Consistent(goal, TRUE)
        /\ DisconnectingState(Exit) \in Consistent(goal, TRUE)
    /\ \A stopping :
        /\ Simple("Disconnected") \in Consistent("down", stopping)
        /\ DisconnectingState(Nothing) \in Consistent("down", stopping)
        /\ DisconnectingState(Reconnect) \in Consistent("up", stopping)
        /\ \A gateways \in MaybeGateways :
            /\ OfflineState(FALSE, gateways) \in Consistent("down", stopping)
            /\ OfflineState(TRUE, gateways) \in Consistent("up", stopping)
            /\ DisconnectingState(ToOffline(FALSE, gateways))
                    \in Consistent("down", stopping)
            /\ DisconnectingState(ToOffline(TRUE, gateways))
                    \in Consistent("up", stopping)
            /\ \A retry \in 0..MaxRetry :
                ConnectingState(retry, gateways) \in Consistent("up", stopping)
        /\ \A gateways \in Points :
            ConnectedState(gateways) \in Consistent("up", stopping)
<1>1. \A after \in After : /\ DisconnectingState(after) \in State
                           /\ DisconnectingState(after).name = "Disconnecting"
                           /\ DisconnectingState(after).after = after
  BY StateMakers DEF DisconnectingState
<1>2. \A reconnect \in BOOLEAN, gateways \in MaybeGateways :
        /\ OfflineState(reconnect, gateways) \in State
        /\ OfflineState(reconnect, gateways).name = "Offline"
        /\ OfflineState(reconnect, gateways).reconnect = reconnect
  BY StateMakers DEF OfflineState
<1>3. \A retry \in 0..MaxRetry, gateways \in MaybeGateways :
        /\ ConnectingState(retry, gateways) \in State
        /\ ConnectingState(retry, gateways).name = "Connecting"
  BY StateMakers DEF ConnectingState
<1>4. \A gateways \in Points : /\ ConnectedState(gateways) \in State
                               /\ ConnectedState(gateways).name = "Connected"
  BY StateMakers DEF ConnectedState
<1>5. \A goal, stopping :
        /\ Simple("Error") \in Consistent(goal, stopping)
        /\ DisconnectingState(ToError) \in Consistent(goal, stopping)
  BY <1>1, StateMakers, AfterMakers DEF Consistent
<1>6. \A goal :
        /\ Simple("Finished") \in Consistent(goal, TRUE)
        /\ DisconnectingState(Nothing) \in Consistent(goal, TRUE)
        /\ DisconnectingState(Exit) \in Consistent(goal, TRUE)
  BY <1>1, StateMakers, AfterMakers DEF Consistent
<1>7. \A stopping :
        /\ Simple("Disconnected") \in Consistent("down", stopping)
        /\ DisconnectingState(Nothing) \in Consistent("down", stopping)
        /\ DisconnectingState(Reconnect) \in Consistent("up", stopping)
  BY <1>1, StateMakers, AfterMakers DEF Consistent
<1>8. \A stopping : \A gateways \in MaybeGateways :
        /\ OfflineState(FALSE, gateways) \in Consistent("down", stopping)
        /\ OfflineState(TRUE, gateways) \in Consistent("up", stopping)
  BY <1>2 DEF Consistent
<1>9. \A stopping : \A gateways \in MaybeGateways :
        /\ DisconnectingState(ToOffline(FALSE, gateways))
                \in Consistent("down", stopping)
        /\ DisconnectingState(ToOffline(TRUE, gateways))
                \in Consistent("up", stopping)
  BY <1>1, AfterMakers DEF Consistent
<1>10. \A stopping : \A gateways \in MaybeGateways, retry \in 0..MaxRetry :
        ConnectingState(retry, gateways) \in Consistent("up", stopping)
  BY <1>3 DEF Consistent
<1>11. \A stopping : \A gateways \in Points :
        ConnectedState(gateways) \in Consistent("up", stopping)
  BY <1>4 DEF Consistent
<1> QED BY <1>5, <1>6, <1>7, <1>8, <1>9, <1>10, <1>11

(* Entered states, and those of them that hold a monitor.                  *)
LEMMA EnteredStates ==
    /\ \A name \in {"Disconnected", "Error"} :
        Simple(name) \in Entered /\ ~Holds(Simple(name))
    /\ \A reconnect \in BOOLEAN, gateways \in MaybeGateways :
        /\ OfflineState(reconnect, gateways) \in Entered
        /\ ~Holds(OfflineState(reconnect, gateways))
    /\ \A retry \in 0..MaxRetry, gateways \in MaybeGateways :
        /\ ConnectingState(retry, gateways) \in Entered
        /\ ~Holds(ConnectingState(retry, gateways))
    /\ \A gateways \in Points : /\ ConnectedState(gateways) \in Entered
                                /\ Holds(ConnectedState(gateways))
    /\ \A after \in After : after.kind # "Exit" =>
        /\ DisconnectingState(after) \in Entered
        /\ Holds(DisconnectingState(after))
<1>1. \A name \in {"Disconnected", "Error"} :
        Simple(name) \in Entered /\ ~Holds(Simple(name))
  BY StateMakers DEF Entered, Holds
<1>2. \A reconnect \in BOOLEAN, gateways \in MaybeGateways :
        /\ OfflineState(reconnect, gateways) \in Entered
        /\ ~Holds(OfflineState(reconnect, gateways))
  BY StateMakers DEF Entered, Holds, OfflineState
<1>3. \A retry \in 0..MaxRetry, gateways \in MaybeGateways :
        /\ ConnectingState(retry, gateways) \in Entered
        /\ ~Holds(ConnectingState(retry, gateways))
  <2> SUFFICES ASSUME NEW retry \in 0..MaxRetry, NEW gateways \in MaybeGateways
               PROVE  /\ ConnectingState(retry, gateways) \in Entered
                      /\ ~Holds(ConnectingState(retry, gateways))
    OBVIOUS
  <2>1. ConnectingState(retry, gateways) \in State
    BY StateMakers
  <2>2. /\ ConnectingState(retry, gateways).name = "Connecting"
        /\ ConnectingState(retry, gateways).phase = "Delay"
    BY DEF ConnectingState
  <2> QED BY <2>1, <2>2 DEF Entered, Holds
<1>4. \A gateways \in Points : /\ ConnectedState(gateways) \in Entered
                               /\ Holds(ConnectedState(gateways))
  BY StateMakers DEF Entered, Holds, ConnectedState
<1>5. \A after \in After : after.kind # "Exit" =>
        /\ DisconnectingState(after) \in Entered
        /\ Holds(DisconnectingState(after))
  <2> SUFFICES ASSUME NEW after \in After, after.kind # "Exit"
               PROVE  /\ DisconnectingState(after) \in Entered
                      /\ Holds(DisconnectingState(after))
    OBVIOUS
  <2>1. DisconnectingState(after) \in State
    BY StateMakers
  <2>2. /\ DisconnectingState(after).name = "Disconnecting"
        /\ DisconnectingState(after).after = after
    BY DEF DisconnectingState
  <2> QED BY <2>1, <2>2 DEF Entered, Holds
<1> QED BY <1>1, <1>2, <1>3, <1>4, <1>5

-----------------------------------------------------------------------------
(***************************************************************************)
(* The inductive invariant.  IntentRespected alone is not inductive: that  *)
(* a failed firewall operation leaves the old policy tells nothing unless  *)
(* the policy fits the state, and that a monitor's event finds the state   *)
(* that holds its handle needs the queue to be empty in the others.        *)
(***************************************************************************)
EventsOwned == ~Holds(state) => events = <<>>

Inv ==
    /\ TypeOK
    /\ IntentRespected
    /\ Fits(state, shared)
    /\ MonitorRuns <=> Holds(state)
    /\ EventsOwned

(***************************************************************************)
(* What a handler does: it leads to one of `states`, keeps the invariant,  *)
(* and opens no firewall unless it leads to Disconnected or shuts down.    *)
(***************************************************************************)
Arrives(states) ==
    /\ state' \in states
    /\ shared' \in Shared
    /\ published' \in TunnelState
    /\ MonitorTypeOK'
    /\ Fits(state', shared')
    /\ MonitorRuns' <=> Holds(state')
    /\ EventsOwned'
    /\ shared'.firewall.kind = "None" =>
        state'.name = "Disconnected" \/ shutdown \/ shared.firewall.kind = "None"

(* Arriving in some states is arriving in any larger set of them.          *)
LEMMA ArrivesMonotone ==
    ASSUME NEW small, NEW large, small \subseteq large, Arrives(small)
    PROVE  Arrives(large)
BY DEF Arrives

(* The TunnelState sent on entering a state is one clients know.           *)
LEMMA PublishedType ==
    ASSUME NEW st \in Entered
    PROVE  Published(st) \in TunnelState
<1>1. st \in State /\ st.name \notin {"Finished", "Panicked"}
  BY DEF Entered
<1>2. CASE st.name = "Disconnecting"
  <2>1. st.after.kind \in {"Nothing", "Reconnect", "Error", "Offline"}
    BY <1>1, <1>2, StateParts, AfterParts DEF Entered
  <2> QED BY <1>2, <2>1 DEF Published, TunnelState
<1>3. CASE st.name = "Offline"
  BY <1>3 DEF Published, TunnelState
<1>4. CASE st.name \in {"Disconnected", "Error", "Connected", "Connecting"}
  BY <1>4 DEF Published, TunnelState, Steps
<1> QED BY <1>1, <1>2, <1>3, <1>4, StateParts

(* Returning a state just entered arrives in the states its `enter`        *)
(* reaches, if these hold a monitor as the task left behind requires.      *)
LEMMA NewStateArrives ==
    ASSUME Inv, NEW states, states \subseteq Entered,
           NEW outcomes, outcomes \subseteq Reaching(states, shared),
           NEW m \in Monitor, \A st \in states : Holds(st) <=> m.stage # "Idle",
           NewState(outcomes, m), routes' \in BOOLEAN
    PROVE  Arrives(states)
<1>1. PICK r \in outcomes :
        /\ state' = r.state
        /\ shared' = r.shared
        /\ published' = Published(r.state)
        /\ monitor' = m
        /\ events' = <<>>
        /\ listening' = (r.state.name = "Connecting")
  BY DEF NewState
<1>2. /\ r.state \in states
      /\ r.shared \in Shared
      /\ Fits(r.state, r.shared)
      /\ r.shared.firewall.kind = "None" =>
            r.state.name = "Disconnected" \/ shared.firewall.kind = "None"
  BY DEF Reaching
<1>3. Published(r.state) \in TunnelState
  BY <1>2, PublishedType
<1>4. MonitorTypeOK'
  BY <1>1 DEF MonitorTypeOK
<1>5. MonitorRuns' <=> Holds(state')
  BY <1>1, <1>2 DEF MonitorRuns
<1>6. EventsOwned'
  BY <1>1 DEF EventsOwned
<1> QED BY <1>1, <1>2, <1>3, <1>4, <1>5, <1>6 DEF Arrives

(* Returning the same handler arrives in the struct it returns.            *)
LEMMA SameStateArrives ==
    ASSUME Inv, NEW st, NEW s \in Shared, Fits(st, s), Holds(st) <=> Holds(state),
           s.firewall.kind = "None" => shutdown \/ shared.firewall.kind = "None",
           SameState(st, s)
    PROVE  Arrives({st})
BY DEF SameState, Arrives, Inv, TypeOK, MonitorTypeOK, monitorVars, MonitorRuns,
       EventsOwned

-----------------------------------------------------------------------------
(* Ways handlers change the state.                                         *)

(* A state without a monitor is left for others without one.               *)
LEMMA EnterArrives ==
    ASSUME Inv, ~Holds(state), NEW goal, NEW stopping,
           NEW states, states \subseteq Entered,
           states \subseteq Consistent(goal, stopping),
           \A st \in states : ~Holds(st),
           NEW outcomes, outcomes \subseteq Reaching(states, shared),
           Enter(outcomes)
    PROVE  Arrives(Consistent(goal, stopping))
<1>1. monitor \in Monitor /\ monitor.stage = "Idle"
  BY DEF Inv, TypeOK, MonitorTypeOK, MonitorRuns
<1>2. NewState(outcomes, monitor) /\ routes' \in BOOLEAN
  BY DEF Enter, Inv, TypeOK, MonitorTypeOK
<1>3. Arrives(states)
  BY <1>1, <1>2, NewStateArrives
<1> QED BY <1>3, ArrivesMonotone

(* A state with a monitor is left for Disconnecting.                       *)
LEMMA CancelArrives ==
    ASSUME Inv, Holds(state), NEW goal, NEW stopping,
           NEW after \in After, after.kind # "Exit",
           DisconnectingState(after) \in Consistent(goal, stopping),
           NEW outcomes,
           outcomes \subseteq Reaching({DisconnectingState(after)}, shared),
           NewState(outcomes, CancelledMonitor), routes' \in BOOLEAN
    PROVE  Arrives(Consistent(goal, stopping))
<1>1. CancelledMonitor \in Monitor /\ CancelledMonitor.stage # "Idle"
  BY MonitorMakers DEF Inv, TypeOK, MonitorTypeOK, MonitorRuns
<1>2. Arrives({DisconnectingState(after)})
  BY <1>1, EnteredStates, NewStateArrives
<1> QED BY <1>2, ArrivesMonotone

(* A state with a monitor is left once it is awaited or given up.          *)
LEMMA IdleArrives ==
    ASSUME Inv, NEW goal, NEW stopping,
           NEW states, states \subseteq Entered,
           states \subseteq Consistent(goal, stopping),
           \A st \in states : ~Holds(st),
           NEW outcomes, outcomes \subseteq Reaching(states, shared),
           NewState(outcomes, IdleMonitor), routes' \in BOOLEAN
    PROVE  Arrives(Consistent(goal, stopping))
<1>1. Arrives(states)
  BY MonitorMakers, NewStateArrives
<1> QED BY <1>1, ArrivesMonotone

(* The `disconnect` of Connecting arrives in Disconnecting, or, without a  *)
(* monitor, in what follows it.                                            *)
LEMMA ConnectingDisconnectArrives ==
    ASSUME Inv, In("Connecting"), NEW goal, NEW stopping,
           NEW after \in After, after.kind # "Exit",
           DisconnectingState(after) \in Consistent(goal, stopping),
           NEW s \in Shared,
           ~FirewallFault(s) => s.firewall.kind = "Connecting",
           s.firewall.kind = "None" => shared.firewall.kind = "None",
           ConnectingDisconnect(after, s)
    PROVE  Arrives(Consistent(goal, stopping))
<1>1. /\ routes' \in BOOLEAN
      /\ NewState(EnterDisconnecting(after, HasHandle, s),
                  IF HasHandle THEN CancelledMonitor ELSE monitor)
      /\ HasHandle \in BOOLEAN
      /\ Holds(state) <=> HasHandle
  BY DEF ConnectingDisconnect, HasHandle, Holds, In
<1>2. CASE HasHandle
  <2>1. EnterDisconnecting(after, TRUE, s)
            \subseteq Reaching({DisconnectingState(after)}, s)
    BY EnterDisconnectingReaches
  <2>2. Reaching({DisconnectingState(after)}, s)
            \subseteq Reaching({DisconnectingState(after)}, shared)
    BY ReachingMonotone
  <2>3. NewState(EnterDisconnecting(after, TRUE, s), CancelledMonitor)
    <3>1. HasHandle = TRUE
      BY <1>1, <1>2
    <3> QED BY <1>1, <3>1
  <2> QED BY <1>1, <1>2, <2>1, <2>2, <2>3, CancelArrives
<1>3. CASE ~HasHandle
  <2>1. EnterDisconnecting(after, FALSE, s) \subseteq Reaching(Following(after), s)
    BY EnterDisconnectingReaches
  <2>2. Reaching(Following(after), s) \subseteq Reaching(Following(after), shared)
    BY ReachingMonotone
  <2>3. NewState(EnterDisconnecting(after, FALSE, s), monitor)
    <3>1. HasHandle = FALSE
      BY <1>1, <1>3
    <3> QED BY <1>1, <3>1
  <2>4. monitor \in Monitor /\ monitor.stage = "Idle"
    BY <1>1, <1>3 DEF Inv, TypeOK, MonitorTypeOK, MonitorRuns
  <2>5. /\ Following(after) \subseteq Entered
        /\ Following(after) \subseteq Consistent(goal, stopping)
        /\ \A st \in Following(after) : ~Holds(st)
    BY FollowingStates
  <2>6. Arrives(Following(after))
    BY <1>1, <2>1, <2>2, <2>3, <2>4, <2>5, NewStateArrives
  <2> QED BY <2>5, <2>6, ArrivesMonotone
<1> QED BY <1>2, <1>3

(* The `disconnect` of Connected arrives in Disconnecting.                 *)
LEMMA ConnectedDisconnectArrives ==
    ASSUME Inv, In("Connected"), NEW goal, NEW stopping,
           NEW after \in After, after.kind # "Exit",
           DisconnectingState(after) \in Consistent(goal, stopping),
           NEW s \in Shared,
           ~FirewallFault(s) => s.firewall.kind = "Connected",
           s.firewall.kind = "None" => shared.firewall.kind = "None",
           ConnectedDisconnect(after, s)
    PROVE  Arrives(Consistent(goal, stopping))
<1> DEFINE outcomes == UNION {EnterDisconnecting(after, TRUE, t) : t \in ResetDns(s)}
<1>1. routes' \in BOOLEAN /\ NewState(outcomes, CancelledMonitor) /\ Holds(state)
  BY DEF ConnectedDisconnect, Holds, In
<1>2. outcomes \subseteq Reaching({DisconnectingState(after)}, shared)
  <2> SUFFICES ASSUME NEW t \in ResetDns(s)
               PROVE  EnterDisconnecting(after, TRUE, t)
                        \subseteq Reaching({DisconnectingState(after)}, shared)
    OBVIOUS
  <2>1. /\ t \in Shared
        /\ t.firewall = s.firewall
        /\ FirewallFault(t) <=> FirewallFault(s)
    BY ResetDnsOutcome
  <2>2. EnterDisconnecting(after, TRUE, t)
            \subseteq Reaching({DisconnectingState(after)}, t)
    BY <2>1, EnterDisconnectingReaches
  <2>3. Reaching({DisconnectingState(after)}, t)
            \subseteq Reaching({DisconnectingState(after)}, shared)
    <3>1. t.firewall.kind = "None" => shared.firewall.kind = "None"
      BY <2>1
    <3> QED BY <3>1, ReachingMonotone
  <2> QED BY <2>2, <2>3
<1> HIDE DEF outcomes
<1> QED BY <1>1, <1>2, CancelArrives

(* Changing what follows Disconnecting respects the intent it was changed  *)
(* for.                                                                    *)
LEMMA AfterwardsArrives ==
    ASSUME Inv, In("Disconnecting"), NEW goal, NEW stopping, NEW after \in After,
           DisconnectingState(after) \in Consistent(goal, stopping),
           Afterwards(after)
    PROVE  Arrives(Consistent(goal, stopping))
<1>1. [state EXCEPT !.after = after] = DisconnectingState(after)
  BY StateParts DEF Inv, TypeOK, In, DisconnectingState
<1>2. shared \in Shared /\ Fits(DisconnectingState(after), shared)
  BY DEF Inv, TypeOK, Fits, DisconnectingState, In
<1>3. Holds(DisconnectingState(after)) /\ Holds(state)
  BY DEF Holds, DisconnectingState, In
<1>4. Arrives({DisconnectingState(after)})
  BY <1>1, <1>2, <1>3, SameStateArrives DEF Afterwards
<1> QED BY <1>4, ArrivesMonotone

(* Changing the flag of Offline respects the intent it was changed for.    *)
LEMMA OfflineReconnectsArrives ==
    ASSUME Inv, In("Offline"), NEW goal, NEW stopping, NEW reconnect \in BOOLEAN,
           OfflineState(reconnect, state.gateways) \in Consistent(goal, stopping),
           OfflineReconnects(reconnect)
    PROVE  Arrives(Consistent(goal, stopping))
<1> DEFINE new == OfflineState(reconnect, state.gateways)
<1>1. [state EXCEPT !.reconnect = reconnect] = new
  BY StateParts DEF Inv, TypeOK, In, OfflineState
<1>2. new \in Entered
  BY StateParts, EnteredStates DEF Inv, TypeOK, In
<1>3. published' \in TunnelState
  BY <1>1, <1>2, PublishedType DEF OfflineReconnects, Inv, TypeOK
<1>4. state' = new /\ UNCHANGED <<shared, monitorVars>>
  BY <1>1 DEF OfflineReconnects
<1>5. Fits(new, shared) /\ ~Holds(new) /\ ~Holds(state)
  BY DEF Inv, Fits, Holds, OfflineState, In
<1> QED
  BY <1>3, <1>4, <1>5 DEF Arrives, Inv, TypeOK, MonitorTypeOK, monitorVars,
                         MonitorRuns, EventsOwned

(* Connecting starts in one of these, or in Error or Offline instead.      *)
Connectings(retry, gateways) ==
    {Simple("Error"), OfflineState(TRUE, gateways),
     ConnectingState(retry, gateways)}

(* These states respect a Connect, hold no monitor, and are what entering  *)
(* Connecting leads to.                                                    *)
LEMMA ConnectingsProperties ==
    ASSUME NEW retry \in 0..MaxRetry, NEW gateways \in MaybeGateways, NEW stopping
    PROVE  /\ Connectings(retry, gateways) \subseteq Entered
           /\ Connectings(retry, gateways) \subseteq Consistent("up", stopping)
           /\ \A st \in Connectings(retry, gateways) : ~Holds(st)
           /\ \A s, t \in Shared :
                (s.firewall.kind = "None" => t.firewall.kind = "None") =>
                EnterConnecting(retry, gateways, s)
                    \subseteq Reaching(Connectings(retry, gateways), t)
<1>1. /\ Connectings(retry, gateways) \subseteq Entered
      /\ Connectings(retry, gateways) \subseteq Consistent("up", stopping)
  BY EnteredStates, ConsistentStates DEF Connectings
<1>2. \A st \in Connectings(retry, gateways) : ~Holds(st)
  BY EnteredStates DEF Connectings
<1>3. ASSUME NEW s \in Shared, NEW t \in Shared,
             s.firewall.kind = "None" => t.firewall.kind = "None"
      PROVE  EnterConnecting(retry, gateways, s)
                \subseteq Reaching(Connectings(retry, gateways), t)
  <2>1. EnterConnecting(retry, gateways, s)
            \subseteq Reaching(Connectings(retry, gateways), s)
    BY EnterConnectingReaches DEF Connectings
  <2>2. Reaching(Connectings(retry, gateways), s)
            \subseteq Reaching(Connectings(retry, gateways), t)
    BY <1>3, ReachingMonotone
  <2> QED BY <2>1, <2>2
<1> QED BY <1>1, <1>2, <1>3

(* Connecting is entered from a state without a monitor.                   *)
LEMMA EnterConnectingArrives ==
    ASSUME Inv, ~Holds(state), NEW retry \in 0..MaxRetry,
           NEW gateways \in MaybeGateways, NEW stopping, NEW outcomes,
           \A r \in outcomes : \E t \in Shared :
                /\ t.firewall.kind = "None" => shared.firewall.kind = "None"
                /\ r \in EnterConnecting(retry, gateways, t),
           Enter(outcomes)
    PROVE  Arrives(Consistent("up", stopping))
<1>1. outcomes \subseteq Reaching(Connectings(retry, gateways), shared)
  BY ConnectingsProperties DEF Inv, TypeOK
<1> QED BY <1>1, ConnectingsProperties, EnterArrives

(***************************************************************************)
(* The parts of the invariant the handlers of each state start from.       *)
(***************************************************************************)
LEMMA InvParts ==
    ASSUME Inv
    PROVE  /\ state \in State /\ shared \in Shared
           /\ state \in Consistent(intent, shutdown)
           /\ intent \in {"up", "down"} /\ shutdown \in BOOLEAN
           /\ In("Connecting") \/ In("Connected") =>
                /\ intent = "up"
                /\ ~FirewallFault(shared) /\ shared.firewall.kind = state.name
           /\ In("Disconnected") \/ In("Error") \/ In("Offline") => ~Holds(state)
<1>1. /\ state \in State /\ shared \in Shared
      /\ intent \in {"up", "down"} /\ shutdown \in BOOLEAN
  BY DEF Inv, TypeOK
<1>2. state \in Consistent(intent, shutdown)
  BY <1>1, ConsistentIsRespected DEF Inv
<1>3. In("Connecting") \/ In("Connected") => intent = "up"
  BY <1>1 DEF Inv, IntentRespected, IntentDown
<1>4. In("Connecting") \/ In("Connected") =>
        ~FirewallFault(shared) /\ shared.firewall.kind = state.name
  BY DEF Inv, Fits, In
<1>5. In("Disconnected") \/ In("Error") \/ In("Offline") => ~Holds(state)
  BY DEF Holds, In
<1> QED BY <1>1, <1>2, <1>3, <1>4, <1>5

-----------------------------------------------------------------------------
(* Commands.                                                               *)

(* Connect respects the intent it sets, in every state that takes it.      *)
LEMMA ConnectArrives ==
    ASSUME Inv, Listens, Connect
    PROVE  Arrives(Consistent("up", shutdown))
<1> USE InvParts
<1>1. 0 \in 0..MaxRetry /\ NoGateways \in MaybeGateways
  BY StateMakers
<1>2. CASE In("Disconnected") /\ Enter(EnterConnecting(0, NoGateways, shared))
  <2>1. \A r \in EnterConnecting(0, NoGateways, shared) : \E t \in Shared :
            /\ t.firewall.kind = "None" => shared.firewall.kind = "None"
            /\ r \in EnterConnecting(0, NoGateways, t)
    OBVIOUS
  <2> QED BY <1>1, <1>2, <2>1, EnterConnectingArrives
<1>3. CASE In("Connecting") /\ HasHandle /\ ConnectingDisconnect(Reconnect, shared)
  BY <1>3, AfterMakers, ConsistentStates, ConnectingDisconnectArrives DEF In
<1>4. CASE /\ In("Connecting") /\ ~HasHandle
           /\ Enter(EnterConnecting(state.retry, NoGateways, shared))
  <2>1. state.retry \in 0..MaxRetry /\ ~Holds(state)
    BY <1>4, StateParts DEF In, Holds, HasHandle
  <2>2. \A r \in EnterConnecting(state.retry, NoGateways, shared) : \E t \in Shared :
            /\ t.firewall.kind = "None" => shared.firewall.kind = "None"
            /\ r \in EnterConnecting(state.retry, NoGateways, t)
    OBVIOUS
  <2> QED BY <1>1, <1>4, <2>1, <2>2, EnterConnectingArrives
<1>5. CASE In("Connected") /\ ConnectedDisconnect(Reconnect, shared)
  BY <1>5, AfterMakers, ConsistentStates, ConnectedDisconnectArrives DEF In
<1>6. CASE /\ In("Disconnecting")
           /\ Afterwards(IF state.after.kind = "Offline"
                         THEN [state.after EXCEPT !.reconnect = TRUE]
                         ELSE Reconnect)
  <2>1. CASE state.after.kind = "Offline"
    <3>1. /\ state.after.gateways \in MaybeGateways
          /\ [state.after EXCEPT !.reconnect = TRUE]
                = ToOffline(TRUE, state.after.gateways)
      BY <1>6, <2>1, StateParts, AfterParts DEF In
    <3>2. Afterwards(ToOffline(TRUE, state.after.gateways))
      BY <1>6, <2>1, <3>1
    <3> QED BY <1>6, <3>1, <3>2, AfterMakers, ConsistentStates, AfterwardsArrives
  <2>2. CASE state.after.kind # "Offline"
    BY <1>6, <2>2, AfterMakers, ConsistentStates, AfterwardsArrives
  <2> QED BY <2>1, <2>2
<1>7. CASE /\ In("Error")
           /\ Enter(UNION { IF IsOffline
                            THEN EnterOffline(TRUE, NoGateways, t)
                            ELSE EnterConnecting(0, NoGateways, t) :
                              t \in ResetDns(shared) })
  <2> DEFINE outcomes == UNION { IF IsOffline
                                 THEN EnterOffline(TRUE, NoGateways, t)
                                 ELSE EnterConnecting(0, NoGateways, t) :
                                   t \in ResetDns(shared) }
  <2>1. \A r \in outcomes : \E t \in Shared :
            /\ t.firewall.kind = "None" => shared.firewall.kind = "None"
            /\ r \in IF IsOffline THEN EnterOffline(TRUE, NoGateways, t)
                                  ELSE EnterConnecting(0, NoGateways, t)
    BY ResetDnsOutcome
  <2>2. outcomes \subseteq Reaching(Connectings(0, NoGateways), shared)
    <3> SUFFICES ASSUME NEW r \in outcomes
                 PROVE  r \in Reaching(Connectings(0, NoGateways), shared)
      OBVIOUS
    <3>1. PICK t \in Shared :
            /\ t.firewall.kind = "None" => shared.firewall.kind = "None"
            /\ r \in IF IsOffline THEN EnterOffline(TRUE, NoGateways, t)
                                  ELSE EnterConnecting(0, NoGateways, t)
      BY <2>1
    <3>2. CASE IsOffline
      <4>1. r \in Reaching({OfflineState(TRUE, NoGateways)}, t)
        BY <3>1, <3>2, EnterOfflineReaches
      <4>2. Reaching({OfflineState(TRUE, NoGateways)}, t)
                \subseteq Reaching(Connectings(0, NoGateways), shared)
        <5>1. {OfflineState(TRUE, NoGateways)} \subseteq Connectings(0, NoGateways)
          BY DEF Connectings
        <5> QED BY <3>1, <5>1, ReachingMonotone
      <4> QED BY <4>1, <4>2
    <3>3. CASE ~IsOffline
      BY <1>1, <3>1, <3>3, ConnectingsProperties
    <3> QED BY <3>2, <3>3
  <2> HIDE DEF outcomes
  <2>3. Enter(outcomes)
    BY <1>7 DEF outcomes
  <2> QED BY <1>1, <1>7, <2>2, <2>3, ConnectingsProperties, EnterArrives
<1>8. CASE In("Offline") /\ OfflineReconnects(TRUE)
  <2>1. state.gateways \in MaybeGateways
    BY <1>8, StateParts DEF In
  <2> QED BY <1>8, <2>1, ConsistentStates, OfflineReconnectsArrives
<1> QED
  BY <1>2, <1>3, <1>4, <1>5, <1>6, <1>7, <1>8
     DEF Connect, ConnectInDisconnected, ConnectInConnecting,
            ConnectInConnected, ConnectInDisconnecting,
            ConnectInError, ConnectInOffline

(* Disconnect respects the intent it sets, in every state that takes it.   *)
LEMMA DisconnectArrives ==
    ASSUME Inv, Listens, Disconnect
    PROVE  Arrives(Consistent("down", shutdown))
<1> USE InvParts
<1>1. NoGateways \in MaybeGateways
  BY StateMakers
<1>2. CASE In("Disconnected") /\ SameState(state, shared)
  <2>1. Arrives({state})
    BY <1>2, SameStateArrives DEF Inv
  <2>2. state \in Consistent("down", shutdown)
    BY <1>2 DEF In, Consistent
  <2> QED BY <2>1, <2>2, ArrivesMonotone
<1>3. CASE In("Connecting") /\ ConnectingDisconnect(Nothing, shared)
  BY <1>3, AfterMakers, ConsistentStates, ConnectingDisconnectArrives DEF In
<1>4. CASE In("Connected") /\ ConnectedDisconnect(Nothing, shared)
  BY <1>4, AfterMakers, ConsistentStates, ConnectedDisconnectArrives DEF In
<1>5. CASE /\ In("Disconnecting")
           /\ Afterwards(IF state.after.kind = "Offline"
                         THEN [state.after EXCEPT !.reconnect = FALSE]
                         ELSE Nothing)
  <2>1. CASE state.after.kind = "Offline"
    <3>1. /\ state.after.gateways \in MaybeGateways
          /\ [state.after EXCEPT !.reconnect = FALSE]
                = ToOffline(FALSE, state.after.gateways)
      BY <1>5, <2>1, StateParts, AfterParts DEF In
    <3>2. Afterwards(ToOffline(FALSE, state.after.gateways))
      BY <1>5, <2>1, <3>1
    <3> QED BY <1>5, <3>1, <3>2, AfterMakers, ConsistentStates, AfterwardsArrives
  <2>2. CASE state.after.kind # "Offline"
    BY <1>5, <2>2, AfterMakers, ConsistentStates, AfterwardsArrives
  <2> QED BY <2>1, <2>2
<1>6. CASE /\ In("Error")
           /\ Enter(UNION { IF IsOffline
                            THEN EnterOffline(FALSE, NoGateways, t)
                            ELSE EnterDisconnected(t) : t \in ResetDns(shared) })
  <2> DEFINE outcomes == UNION { IF IsOffline
                                 THEN EnterOffline(FALSE, NoGateways, t)
                                 ELSE EnterDisconnected(t) : t \in ResetDns(shared) }
             reached == {OfflineState(FALSE, NoGateways), Simple("Disconnected")}
  <2>1. outcomes \subseteq Reaching(reached, shared)
    <3> SUFFICES ASSUME NEW t \in ResetDns(shared)
                 PROVE  (IF IsOffline THEN EnterOffline(FALSE, NoGateways, t)
                                      ELSE EnterDisconnected(t))
                            \subseteq Reaching(reached, shared)
      OBVIOUS
    <3>1. t \in Shared /\ t.firewall = shared.firewall
      BY ResetDnsOutcome
    <3>2. /\ Reaching({OfflineState(FALSE, NoGateways)}, t)
                \subseteq Reaching(reached, shared)
          /\ Reaching({Simple("Disconnected")}, t) \subseteq Reaching(reached, shared)
      BY <3>1, ReachingMonotone
    <3> QED BY <3>1, <3>2, EnterOfflineReaches, EnterDisconnectedReaches
  <2>2. /\ reached \subseteq Entered
        /\ reached \subseteq Consistent("down", shutdown)
        /\ \A st \in reached : ~Holds(st)
    BY <1>1, EnteredStates, ConsistentStates
  <2> HIDE DEF outcomes, reached
  <2>3. Enter(outcomes)
    BY <1>6 DEF outcomes
  <2> QED BY <1>6, <2>1, <2>2, <2>3, EnterArrives
<1>7. CASE In("Offline") /\ OfflineReconnects(FALSE)
  <2>1. state.gateways \in MaybeGateways
    BY <1>7, StateParts DEF In
  <2> QED BY <1>7, <2>1, ConsistentStates, OfflineReconnectsArrives
<1> QED
  BY <1>2, <1>3, <1>4, <1>5, <1>6, <1>7
     DEF Disconnect, DisconnectInDisconnected,
            DisconnectInConnecting, DisconnectInConnected,
            DisconnectInDisconnecting, DisconnectInError,
            DisconnectInOffline

(* Block respects the intent, in every state that takes it.                *)
LEMMA BlockArrives ==
    ASSUME Inv, Listens, Block
    PROVE  Arrives(Consistent(intent, shutdown))
<1> USE InvParts
<1>1. CASE In("Disconnected") /\ SameState(state, shared)
  <2>1. Arrives({state})
    BY <1>1, SameStateArrives DEF Inv
  <2> QED BY <2>1, ArrivesMonotone
<1>2. CASE In("Connecting") /\ ConnectingDisconnect(ToError, shared)
  BY <1>2, AfterMakers, ConsistentStates, ConnectingDisconnectArrives DEF In
<1>3. CASE In("Connected") /\ ConnectedDisconnect(ToError, shared)
  BY <1>3, AfterMakers, ConsistentStates, ConnectedDisconnectArrives DEF In
<1>4. CASE /\ In("Disconnecting")
           /\ Afterwards(IF state.after.kind = "Nothing" THEN Nothing ELSE ToError)
  <2>1. CASE state.after.kind = "Nothing"
    <3>1. intent = "down" \/ shutdown = TRUE
      BY <1>4, <2>1 DEF In, Consistent
    <3>2. DisconnectingState(Nothing) \in Consistent(intent, shutdown)
      BY <3>1, ConsistentStates
    <3> QED BY <1>4, <2>1, <3>2, AfterMakers, AfterwardsArrives
  <2>2. CASE state.after.kind # "Nothing"
    BY <1>4, <2>2, AfterMakers, ConsistentStates, AfterwardsArrives
  <2> QED BY <2>1, <2>2
<1>5. CASE (In("Error") \/ In("Offline")) /\ Enter(EnterError(shared))
  <2>1. EnterError(shared) \subseteq Reaching({Simple("Error")}, shared)
    BY EnterErrorReaches
  <2>2. /\ {Simple("Error")} \subseteq Entered
        /\ {Simple("Error")} \subseteq Consistent(intent, shutdown)
        /\ \A st \in {Simple("Error")} : ~Holds(st)
    BY EnteredStates, ConsistentStates
  <2>3. Enter(EnterError(shared)) /\ ~Holds(state)
    BY <1>5
  <2> QED BY <2>1, <2>2, <2>3, EnterArrives
<1> QED
  BY <1>1, <1>2, <1>3, <1>4, <1>5
     DEF Block, BlockInDisconnected, BlockInConnecting,
            BlockInConnected, BlockInDisconnecting, BlockInError,
            BlockInOffline

(* New settings leave the policy and its fault alone until it is applied.  *)
LEMMA AppliedSettings ==
    ASSUME NEW s \in Shared, NEW new \in Settings
    PROVE  /\ [s EXCEPT !.settings = new] \in Shared
           /\ [s EXCEPT !.settings = new].settings = new
           /\ [s EXCEPT !.settings = new].firewall = s.firewall
           /\ FirewallFault([s EXCEPT !.settings = new]) <=> FirewallFault(s)
           /\ [s.firewall EXCEPT !.lan = new.lan] \in Policy
           /\ [s.firewall EXCEPT !.lan = new.lan].kind = s.firewall.kind
<1>1. /\ [s EXCEPT !.settings = new] \in Shared
      /\ [s EXCEPT !.settings = new].settings = new
      /\ [s EXCEPT !.settings = new].firewall = s.firewall
      /\ [s EXCEPT !.settings = new].faults = s.faults
  BY DEF Shared
<1>2. new.lan \in BOOLEAN /\ s.firewall \in Policy
  BY DEF Shared, Settings
<1>3. /\ [s.firewall EXCEPT !.lan = new.lan] \in Policy
      /\ [s.firewall EXCEPT !.lan = new.lan].kind = s.firewall.kind
  BY <1>2 DEF Policy
<1> QED BY <1>1, <1>3 DEF FirewallFault

(* The tunnel's policy is only amended: its kind stays.                    *)
LEMMA AmendedPolicy ==
    ASSUME NEW s \in Shared, NEW p \in Policy, p.kind = s.firewall.kind,
           NEW t \in SetFirewall(p, s)
    PROVE  t \in Shared /\ t.firewall.kind = s.firewall.kind
BY FirewallOutcome

(* New settings in Connecting respect the intent.                          *)
LEMMA ConnectingSettingsArrives ==
    ASSUME Inv, In("Connecting"), NEW new \in Settings, NEW pointChanged \in BOOLEAN,
           NEW shouldReconnect \in BOOLEAN,
           SettingsInConnecting(new, pointChanged, shouldReconnect)
    PROVE  Arrives(Consistent("up", shutdown))
<1> USE InvParts
<1> DEFINE applied == [shared EXCEPT !.settings = new]
           policy == [shared.firewall EXCEPT !.lan = new.lan]
<1>1. PICK s \in IF policy # shared.firewall
                THEN SetFirewall(policy, applied)
                ELSE {applied} :
        IF FirewallFault(s)
        THEN ConnectingDisconnect(ToError, s)
        ELSE IF ~shouldReconnect
        THEN SameState(state, s)
        ELSE IF HasHandle
        THEN ConnectingDisconnect(Reconnect, s)
        ELSE Enter(EnterConnecting(state.retry, KeptGateways(pointChanged), s))
  BY DEF SettingsInConnecting
<1>2. s \in Shared /\ s.firewall.kind = "Connecting"
  <2>1. applied \in Shared /\ applied.firewall = shared.firewall
    BY AppliedSettings
  <2>2. policy \in Policy /\ policy.kind = applied.firewall.kind
    BY <2>1, AppliedSettings
  <2>3. CASE policy # shared.firewall
    <3>1. s \in SetFirewall(policy, applied)
      BY <1>1, <2>3
    <3> QED BY <2>1, <2>2, <3>1, AmendedPolicy DEF In
  <2>4. CASE policy = shared.firewall
    <3>1. s = applied
      BY <1>1, <2>4
    <3> QED BY <2>1, <3>1 DEF In
  <2> QED BY <2>3, <2>4
<1>3. state.retry \in 0..MaxRetry /\ state.gateways \in MaybeGateways
  BY StateParts DEF In
<1> HIDE DEF applied, policy
<1>4. CASE FirewallFault(s)
  BY <1>1, <1>2, <1>4, AfterMakers, ConsistentStates, ConnectingDisconnectArrives
<1>5. CASE ~FirewallFault(s) /\ ~shouldReconnect
  <2>1. Fits(state, s)
    BY <1>2, <1>5 DEF In, Fits
  <2>2. Arrives({state})
    BY <1>1, <1>2, <1>5, <2>1, SameStateArrives
  <2> QED BY <2>2, ArrivesMonotone
<1>6. CASE ~FirewallFault(s) /\ shouldReconnect /\ HasHandle
  BY <1>1, <1>2, <1>6, AfterMakers, ConsistentStates, ConnectingDisconnectArrives
<1>7. CASE ~FirewallFault(s) /\ shouldReconnect /\ ~HasHandle
  <2>1. KeptGateways(pointChanged) \in MaybeGateways
    BY <1>3, StateMakers DEF KeptGateways
  <2>2. Enter(EnterConnecting(state.retry, KeptGateways(pointChanged), s))
    BY <1>1, <1>7
  <2>3. ~Holds(state)
    BY <1>7 DEF In, Holds, HasHandle
  <2>4. \A r \in EnterConnecting(state.retry, KeptGateways(pointChanged), s) :
            \E t \in Shared :
                /\ t.firewall.kind = "None" => shared.firewall.kind = "None"
                /\ r \in EnterConnecting(state.retry, KeptGateways(pointChanged), t)
    BY <1>2
  <2> QED BY <1>3, <2>1, <2>2, <2>3, <2>4, EnterConnectingArrives
<1> QED BY <1>4, <1>5, <1>6, <1>7

(* New settings in Connected respect the intent.                           *)
LEMMA ConnectedSettingsArrives ==
    ASSUME Inv, In("Connected"), NEW new \in Settings,
           NEW shouldReconnect \in BOOLEAN, SettingsInConnected(new, shouldReconnect)
    PROVE  Arrives(Consistent("up", shutdown))
<1> USE InvParts
<1> DEFINE applied == [shared EXCEPT !.settings = new]
           policy == [shared.firewall EXCEPT !.lan = new.lan]
<1>1. PICK s \in IF policy # shared.firewall
                THEN SetFirewall(policy, applied)
                ELSE {applied} :
        IF FirewallFault(s)
        THEN ConnectedDisconnect(ToError, s)
        ELSE IF shouldReconnect
        THEN ConnectedDisconnect(Reconnect, s)
        ELSE SameState(state, s)
  BY DEF SettingsInConnected
<1>2. s \in Shared /\ s.firewall.kind = "Connected"
  <2>1. applied \in Shared /\ applied.firewall = shared.firewall
    BY AppliedSettings
  <2>2. policy \in Policy /\ policy.kind = applied.firewall.kind
    BY <2>1, AppliedSettings
  <2>3. CASE policy # shared.firewall
    <3>1. s \in SetFirewall(policy, applied)
      BY <1>1, <2>3
    <3> QED BY <2>1, <2>2, <3>1, AmendedPolicy DEF In
  <2>4. CASE policy = shared.firewall
    <3>1. s = applied
      BY <1>1, <2>4
    <3> QED BY <2>1, <3>1 DEF In
  <2> QED BY <2>3, <2>4
<1> HIDE DEF applied, policy
<1>3. CASE FirewallFault(s)
  BY <1>1, <1>2, <1>3, AfterMakers, ConsistentStates, ConnectedDisconnectArrives
<1>4. CASE ~FirewallFault(s) /\ shouldReconnect
  BY <1>1, <1>2, <1>4, AfterMakers, ConsistentStates, ConnectedDisconnectArrives
<1>5. CASE ~FirewallFault(s) /\ ~shouldReconnect
  <2>1. Fits(state, s)
    BY <1>2, <1>5 DEF In, Fits
  <2>2. Arrives({state})
    BY <1>1, <1>2, <1>5, <2>1, SameStateArrives
  <2> QED BY <2>2, ArrivesMonotone
<1> QED BY <1>3, <1>4, <1>5

(* Error and Offline keep their blocking policy.                           *)
LEMMA BlockedSettingsOutcome ==
    ASSUME Inv, In("Error") \/ In("Offline"), NEW new \in Settings,
           NEW s \in BlockedSettings(new)
    PROVE  /\ s \in Shared
           /\ s.firewall.kind = "None" => shared.firewall.kind = "None"
           /\ FirewallFault(s) \/ s.firewall.kind = "Blocked"
<1> DEFINE applied == [shared EXCEPT !.settings = new]
<1>1. /\ applied \in Shared
      /\ applied.firewall = shared.firewall
      /\ FirewallFault(applied) <=> FirewallFault(shared)
  BY InvParts, AppliedSettings
<1>2. FirewallFault(shared) \/ shared.firewall.kind = "Blocked"
  BY DEF Inv, Fits, In
<1>3. BlockedPolicy(new.lan) \in Policy /\ BlockedPolicy(new.lan).kind = "Blocked"
  BY PolicyTypes DEF Settings
<1>4. CASE new.lan # shared.settings.lan
  <2>1. s \in SetFirewall(BlockedPolicy(new.lan), applied)
    BY <1>4 DEF BlockedSettings
  <2> QED BY <1>1, <1>3, <2>1, FirewallOutcome
<1>5. CASE new.lan = shared.settings.lan
  <2>1. s = applied
    BY <1>5 DEF BlockedSettings
  <2> QED BY <1>1, <1>2, <2>1
<1> QED BY <1>4, <1>5

(* New settings respect the intent, in every state that takes them.        *)
LEMMA SetTunnelSettingsArrives ==
    ASSUME Inv, Listens, NEW new \in Settings, NEW other \in BOOLEAN,
           SetTunnelSettings(new, other)
    PROVE  Arrives(Consistent(intent, shutdown))
<1> USE InvParts
<1> DEFINE pointChanged == new.point # shared.settings.point
           shouldReconnect == pointChanged \/ other
<1>1. CASE /\ In("Disconnected") \/ In("Disconnecting")
           /\ SameState(state, [shared EXCEPT !.settings = new])
  <2>1. Fits(state, [shared EXCEPT !.settings = new])
    BY <1>1, AppliedSettings DEF In, Fits, Inv
  <2>2. Arrives({state})
    BY <1>1, <2>1, AppliedSettings, SameStateArrives
  <2> QED BY <2>2, ArrivesMonotone
<1>2. CASE SettingsInConnecting(new, pointChanged, shouldReconnect)
  BY <1>2, ConnectingSettingsArrives DEF SettingsInConnecting
<1>3. CASE SettingsInConnected(new, shouldReconnect)
  BY <1>3, ConnectedSettingsArrives DEF SettingsInConnected
<1>4. CASE In("Error") /\ \E s \in BlockedSettings(new) : SameState(state, s)
  <2>1. PICK s \in BlockedSettings(new) : SameState(state, s)
    BY <1>4
  <2>2. /\ s \in Shared
        /\ s.firewall.kind = "None" => shared.firewall.kind = "None"
        /\ FirewallFault(s) \/ s.firewall.kind = "Blocked"
    BY <1>4, BlockedSettingsOutcome
  <2>3. Fits(state, s)
    BY <1>4, <2>2 DEF In, Fits
  <2>4. Arrives({state})
    BY <2>1, <2>2, <2>3, SameStateArrives
  <2> QED BY <2>4, ArrivesMonotone
<1>5. CASE /\ In("Offline")
           /\ \E s \in BlockedSettings(new) :
                SameState([state EXCEPT !.gateways = KeptGateways(pointChanged)], s)
  <2>1. PICK s \in BlockedSettings(new) :
            SameState([state EXCEPT !.gateways = KeptGateways(pointChanged)], s)
    BY <1>5
  <2>2. /\ s \in Shared
        /\ s.firewall.kind = "None" => shared.firewall.kind = "None"
        /\ FirewallFault(s) \/ s.firewall.kind = "Blocked"
    BY <1>5, BlockedSettingsOutcome
  <2> DEFINE st == OfflineState(state.reconnect, KeptGateways(pointChanged))
  <2>3. [state EXCEPT !.gateways = KeptGateways(pointChanged)] = st
    BY <1>5, StateParts DEF In, OfflineState
  <2>4. Fits(st, s) /\ ~Holds(st) /\ ~Holds(state)
    BY <1>5, <2>2 DEF In, Fits, OfflineState, Holds
  <2>5. Arrives({st})
    BY <2>1, <2>2, <2>3, <2>4, SameStateArrives
  <2>6. st \in Consistent(intent, shutdown)
    <3>1. /\ state.reconnect \in BOOLEAN
          /\ KeptGateways(pointChanged) \in MaybeGateways
      BY <1>5, StateParts, StateMakers DEF In, KeptGateways
    <3>2. /\ st \in State /\ st.name = "Offline"
          /\ st.reconnect = state.reconnect
      BY <3>1, StateMakers DEF OfflineState
    <3> QED BY <1>5, <3>2 DEF In, Consistent
  <2> QED BY <2>5, <2>6, ArrivesMonotone
<1> QED
  BY <1>1, <1>2, <1>3, <1>4, <1>5
     DEF SetTunnelSettings, SettingsInDisconnected, SettingsInConnecting,
         SettingsInConnected, SettingsInDisconnecting, SettingsInError,
         SettingsInOffline

-----------------------------------------------------------------------------
(* The other branches of select!.                                          *)

(* Gaining or losing connectivity respects the intent.                     *)
LEMMA ConnectivityArrives ==
    ASSUME Inv, NEW isOnline \in BOOLEAN, ConnectivityChanged(isOnline)
    PROVE  Arrives(Consistent(intent, shutdown))
<1> USE InvParts
<1>1. 0 \in 0..MaxRetry /\ NoGateways \in MaybeGateways
  BY StateMakers
<1>2. CASE SameState(state, shared)
  <2>1. Arrives({state})
    BY <1>2, SameStateArrives DEF Inv
  <2> QED BY <2>1, ArrivesMonotone
<1>3. CASE /\ In("Offline")
           /\ Enter(UNION { IF state.reconnect
                            THEN EnterConnecting(0, state.gateways, t)
                            ELSE EnterDisconnected(t) : t \in ResetDns(shared) })
  <2>1. state.reconnect \in BOOLEAN /\ state.gateways \in MaybeGateways
    BY <1>3, StateParts DEF In
  <2> DEFINE outcomes == UNION { IF state.reconnect
                                 THEN EnterConnecting(0, state.gateways, t)
                                 ELSE EnterDisconnected(t) : t \in ResetDns(shared) }
  <2>2. \A t \in ResetDns(shared) : t \in Shared /\ t.firewall = shared.firewall
    BY ResetDnsOutcome
  <2>3. CASE state.reconnect
    <3>1. intent = "up"
      BY <1>3, <2>3 DEF In, Consistent
    <3>2. \A r \in outcomes : \E t \in Shared :
            /\ t.firewall.kind = "None" => shared.firewall.kind = "None"
            /\ r \in EnterConnecting(0, state.gateways, t)
      BY <2>2, <2>3
    <3> HIDE DEF outcomes
    <3>3. Enter(outcomes)
      BY <1>3 DEF outcomes
    <3> QED BY <1>1, <1>3, <2>1, <3>1, <3>2, <3>3, EnterConnectingArrives
  <2>4. CASE ~state.reconnect
    <3>1. intent = "down" \/ shutdown
      BY <1>3, <2>4 DEF In, Consistent
    <3>2. Simple("Disconnected") \in Consistent(intent, shutdown)
      BY <3>1, StateMakers DEF Consistent
    <3>3. outcomes \subseteq Reaching({Simple("Disconnected")}, shared)
      <4> SUFFICES ASSUME NEW t \in ResetDns(shared)
                   PROVE  EnterDisconnected(t)
                            \subseteq Reaching({Simple("Disconnected")}, shared)
        BY <2>4
      <4>1. EnterDisconnected(t) \subseteq Reaching({Simple("Disconnected")}, t)
        BY <2>2, EnterDisconnectedReaches
      <4>2. Reaching({Simple("Disconnected")}, t)
                \subseteq Reaching({Simple("Disconnected")}, shared)
        BY <2>2, ReachingMonotone
      <4> QED BY <4>1, <4>2
    <3> HIDE DEF outcomes
    <3>4. Enter(outcomes)
      BY <1>3 DEF outcomes
    <3>5. {Simple("Disconnected")} \subseteq Entered
          /\ \A st \in {Simple("Disconnected")} : ~Holds(st)
      BY EnteredStates
    <3> QED BY <1>3, <3>2, <3>3, <3>4, <3>5, EnterArrives
  <2> QED BY <2>1, <2>3, <2>4
<1>4. CASE In("Disconnected") /\ Enter(EnterOffline(FALSE, NoGateways, shared))
  <2>1. intent = "down" \/ shutdown
    BY <1>4 DEF In, Consistent
  <2> DEFINE st == OfflineState(FALSE, NoGateways)
  <2>2. st \in State /\ st.name = "Offline" /\ ~st.reconnect
    BY <1>1, StateMakers DEF OfflineState
  <2>3. st \in Consistent(intent, shutdown)
    BY <2>1, <2>2 DEF Consistent
  <2>4. st \in Entered /\ ~Holds(st)
    BY <1>1, EnteredStates
  <2>5. EnterOffline(FALSE, NoGateways, shared) \subseteq Reaching({st}, shared)
    BY EnterOfflineReaches
  <2> HIDE DEF st
  <2> QED BY <1>4, <2>3, <2>4, <2>5, EnterArrives
<1>5. CASE /\ In("Connecting")
           /\ ConnectingDisconnect(ToOffline(TRUE, state.gateways), shared)
  <2>1. state.gateways \in MaybeGateways
    BY <1>5, StateParts DEF In
  <2> QED BY <1>5, <2>1, AfterMakers, ConsistentStates,
             ConnectingDisconnectArrives DEF In
<1>6. CASE /\ In("Connected")
           /\ ConnectedDisconnect(ToOffline(TRUE, state.gateways), shared)
  <2>1. state.gateways \in MaybeGateways
    BY <1>6, StateParts DEF In
  <2> QED BY <1>6, <2>1, AfterMakers, ConsistentStates,
             ConnectedDisconnectArrives DEF In
<1> QED
  BY <1>2, <1>3, <1>4, <1>5, <1>6
     DEF ConnectivityChanged, OnlineUnchanged, OfflineGetsOnline,
         OfflineStaysOffline, DisconnectedGetsOffline, ConnectingGetsOffline,
         ConnectedGetsOffline

(* Finishing is arriving in Finished, at a shutdown.                       *)
LEMMA FinishArrives ==
    ASSUME Inv, shutdown, ~Holds(state), NEW outcomes, outcomes \subseteq Shared,
           Finish(outcomes)
    PROVE  Arrives(Consistent(intent, shutdown))
<1>1. state' = Simple("Finished") /\ shared' \in Shared
  BY DEF Finish
<1>2. shutdown = TRUE
  BY InvParts
<1>3. Simple("Finished") \in Consistent(intent, shutdown)
  BY <1>2, ConsistentStates
<1>4. Fits(Simple("Finished"), shared') /\ ~Holds(Simple("Finished"))
  BY DEF Fits, Holds, Simple
<1> QED
  BY <1>1, <1>3, <1>4
     DEF Finish, Arrives, Inv, TypeOK, MonitorTypeOK, monitorVars, MonitorRuns,
         EventsOwned

(* What a state does at a shutdown respects the intent, as it may then be. *)
LEMMA ShutdownArrives ==
    ASSUME Inv, ShutdownCancelled
    PROVE  Arrives(Consistent(intent, shutdown))
<1> USE InvParts
<1>1. shutdown = TRUE
  BY DEF ShutdownCancelled
<1>2. ResetDns(shared) \subseteq Shared
  BY ResetDnsOutcome
<1>3. CASE In("Disconnected") /\ Finish(ResetDns(shared))
  BY <1>1, <1>2, <1>3, FinishArrives
<1>4. CASE /\ In("Error") \/ In("Offline")
           /\ Finish(UNION {SetFirewall(NoPolicy, t) : t \in ResetDns(shared)})
  <2>1. UNION {SetFirewall(NoPolicy, t) : t \in ResetDns(shared)} \subseteq Shared
    BY <1>2, PolicyTypes, FirewallOutcome
  <2> QED BY <1>1, <1>4, <2>1, FinishArrives
<1>5. CASE In("Connecting") /\ ConnectingDisconnect(Nothing, shared)
  BY <1>1, <1>5, AfterMakers, ConsistentStates, ConnectingDisconnectArrives DEF In
<1>6. CASE In("Connected") /\ ConnectedDisconnect(Nothing, shared)
  BY <1>1, <1>6, AfterMakers, ConsistentStates, ConnectedDisconnectArrives DEF In
<1>7. CASE In("Disconnecting") /\ Afterwards(Exit)
  BY <1>1, <1>7, AfterMakers, ConsistentStates, AfterwardsArrives
<1> QED
  BY <1>3, <1>4, <1>5, <1>6, <1>7
     DEF ShutdownCancelled, ShutdownInDisconnected,
            ShutdownInConnecting, ShutdownInConnected,
            ShutdownInDisconnecting, ShutdownInError,
            ShutdownInOffline

(* Another attempt: the next number, with or without the gateways.         *)
LEMMA ReconnectAttempt ==
    ASSUME Inv, In("Connecting"), NEW s
    PROVE  \E retry \in 0..MaxRetry, gateways \in MaybeGateways :
            /\ gateways \in {NoGateways, state.gateways}
            /\ ConnectingReconnect(s) = EnterConnecting(retry, gateways, s)
<1> DEFINE attempt == IF state.retry = MaxRetry THEN MaxRetry ELSE state.retry + 1
           gateways == IF attempt % 2 = 0 THEN NoGateways ELSE state.gateways
<1>1. attempt \in 0..MaxRetry
  <2>1. state.retry \in 0..MaxRetry
    BY InvParts, StateParts DEF In
  <2> QED BY <2>1, RetryAssumption
<1>2. gateways \in MaybeGateways /\ gateways \in {NoGateways, state.gateways}
  <2>1. state.gateways \in MaybeGateways
    BY InvParts, StateParts DEF In
  <2> QED BY <2>1, StateMakers
<1>3. ConnectingReconnect(s) = EnterConnecting(attempt, gateways, s)
  BY DEF ConnectingReconnect
<1> HIDE DEF attempt, gateways
<1> QED BY <1>1, <1>2, <1>3

(* The delay, the resolution and the end of the monitor respect the        *)
(* intent.                                                                 *)
LEMMA FutureArrives ==
    ASSUME Inv, ReconnectDelayElapsed \/ ResolveFailed \/ Resolved \/ TombstoneJoined
    PROVE  Arrives(Consistent(intent, shutdown))
<1> USE InvParts
<1>1. CASE ReconnectDelayElapsed
  <2> DEFINE st == [state EXCEPT !.phase = "Resolving"]
  <2>1. In("Connecting") /\ state \in ConnectingStates /\ state.phase = "Delay"
    BY <1>1, StateParts DEF ReconnectDelayElapsed, In
  <2>2. st \in ConnectingStates /\ st.name = "Connecting" /\ st.phase = "Resolving"
    BY <2>1 DEF ConnectingStates
  <2>3. Fits(st, shared) /\ ~Holds(st) /\ ~Holds(state)
    BY <2>1, <2>2 DEF Fits, Holds, In
  <2>4. st \in Consistent(intent, shutdown)
    BY <2>1, <2>2 DEF State, Consistent
  <2>5. SameState(st, shared)
    BY <1>1 DEF ReconnectDelayElapsed
  <2> HIDE DEF st
  <2>6. Arrives({st})
    BY <2>3, <2>5, SameStateArrives
  <2> QED BY <2>4, <2>6, ArrivesMonotone
<1>2. CASE ResolveFailed
  <2>1. In("Connecting") /\ ~Holds(state) /\ Enter(ConnectingReconnect(shared))
    BY <1>2 DEF ResolveFailed, Holds, In
  <2>2. PICK retry \in 0..MaxRetry, gateways \in MaybeGateways :
            ConnectingReconnect(shared) = EnterConnecting(retry, gateways, shared)
    BY <2>1, ReconnectAttempt
  <2>3. Enter(EnterConnecting(retry, gateways, shared))
    BY <2>1, <2>2
  <2>4. \A r \in EnterConnecting(retry, gateways, shared) : \E t \in Shared :
            /\ t.firewall.kind = "None" => shared.firewall.kind = "None"
            /\ r \in EnterConnecting(retry, gateways, t)
    OBVIOUS
  <2> QED BY <2>1, <2>3, <2>4, EnterConnectingArrives
<1>3. CASE Resolved
  <2>1. /\ In("Connecting") /\ ~Holds(state) /\ state \in ConnectingStates
        /\ intent = "up" /\ shared.firewall.kind = "Connecting"
        /\ state.gateways \in MaybeGateways
    BY <1>3, StateParts DEF Resolved, Holds, In
  <2> DEFINE overridden == [shared EXCEPT !.preresolve = TRUE]
             policy == [shared.firewall EXCEPT !.api = TRUE]
  <2>2. /\ overridden \in Shared /\ overridden.firewall = shared.firewall
        /\ policy \in Policy /\ policy.kind = "Connecting"
    <3>1. shared.firewall \in Policy
      BY SharedParts
    <3> QED BY <2>1, <3>1 DEF Shared, Policy
  <2>3. PICK s \in SetFirewall(policy, overridden) :
            \/ FirewallFault(s) /\ Enter(EnterError(s))
            \/ /\ ~FirewallFault(s)
               /\ state' = [state EXCEPT !.phase = "Monitoring"]
               /\ shared' = AllowNetworking(s)
               /\ monitor' = StartedMonitor(state.gateways)
               /\ UNCHANGED <<published, events, listening, routes>>
    BY <1>3 DEF Resolved
  <2>4. s \in Shared /\ s.firewall.kind = "Connecting"
    BY <2>1, <2>2, <2>3, AmendedPolicy
  <2> HIDE DEF overridden, policy
  <2>5. CASE FirewallFault(s) /\ Enter(EnterError(s))
    <3>1. EnterError(s) \subseteq Reaching({Simple("Error")}, s)
      BY <2>4, EnterErrorReaches
    <3>2. Reaching({Simple("Error")}, s) \subseteq Reaching({Simple("Error")}, shared)
      BY <2>4, ReachingMonotone
    <3>3. /\ {Simple("Error")} \subseteq Entered
          /\ {Simple("Error")} \subseteq Consistent(intent, shutdown)
          /\ \A st \in {Simple("Error")} : ~Holds(st)
      BY EnteredStates, ConsistentStates
    <3> QED BY <2>1, <2>5, <3>1, <3>2, <3>3, EnterArrives
  <2>6. CASE /\ ~FirewallFault(s)
             /\ state' = [state EXCEPT !.phase = "Monitoring"]
             /\ shared' = AllowNetworking(s)
             /\ monitor' = StartedMonitor(state.gateways)
             /\ UNCHANGED <<published, events, listening, routes>>
    <3>1. /\ state' \in ConnectingStates
          /\ state'.name = "Connecting" /\ state'.phase = "Monitoring"
      BY <2>1, <2>6 DEF ConnectingStates, In
    <3>2. state' \in Consistent(intent, shutdown)
      BY <2>1, <3>1 DEF State, Consistent
    <3>3. /\ shared' \in Shared
          /\ shared'.firewall = s.firewall
          /\ FirewallFault(shared') <=> FirewallFault(s)
      BY <2>4, <2>6, NetworkingOutcome
    <3>4. Fits(state', shared') /\ Holds(state')
      BY <2>4, <2>6, <3>1, <3>3 DEF Fits, Holds
    <3>5. MonitorTypeOK' /\ MonitorRuns'
      BY <2>1, <2>6, MonitorMakers DEF MonitorTypeOK, MonitorRuns, Inv, TypeOK
    <3>6. published' \in TunnelState
      BY <2>6 DEF Inv, TypeOK
    <3> QED BY <2>4, <3>2, <3>3, <3>4, <3>5, <3>6 DEF Arrives, EventsOwned
  <2> QED BY <2>3, <2>5, <2>6
<1>4. CASE TombstoneJoined
  <2>1. /\ In("Disconnecting") /\ state.after \in After
        /\ state = DisconnectingState(state.after)
        /\ NewState(OnDisconnect(state.after, shared), IdleMonitor)
        /\ routes' \in BOOLEAN
    BY <1>4, StateParts
       DEF TombstoneJoined, In, DisconnectingState, Inv, TypeOK, MonitorTypeOK
  <2>2. DisconnectingState(state.after) \in Consistent(intent, shutdown)
    BY <2>1
  <2>3. OnDisconnect(state.after, shared)
            \subseteq Reaching(Following(state.after), shared)
    BY <2>1, OnDisconnectReaches
  <2>4. /\ Following(state.after) \subseteq Consistent(intent, shutdown)
        /\ Following(state.after) \subseteq Entered
        /\ \A st \in Following(state.after) : ~Holds(st)
    BY <2>1, <2>2, FollowingStates
  <2> QED BY <2>1, <2>3, <2>4, IdleArrives
<1> QED BY <1>1, <1>2, <1>3, <1>4

-----------------------------------------------------------------------------
(* Events of the monitor.                                                  *)

(* A state that receives an event holds the monitor, which goes on.        *)
LEMMA HandledKeeps ==
    ASSUME Inv, events # <<>>, NEW kind, Handled(kind)
    PROVE  Holds(state) /\ MonitorTypeOK' /\ MonitorRuns'
<1>1. Holds(state) /\ MonitorRuns
  BY DEF Inv, EventsOwned
<1>2. events' \in Seq(Event)
  BY DEF Inv, TypeOK, MonitorTypeOK, Handled
<1>3. monitor' \in Monitor /\ monitor'.stage = monitor.stage
  BY DEF Inv, TypeOK, MonitorTypeOK, Handled, Monitor
<1> QED
  BY <1>1, <1>2, <1>3
     DEF Inv, TypeOK, MonitorTypeOK, Handled, MonitorRuns

(* The state goes on with the same policy, if amended, and its monitor.    *)
LEMMA HandledArrives ==
    ASSUME Inv, events # <<>>, NEW kind, Handled(kind),
           state' \in Consistent(intent, shutdown), state'.name = state.name,
           In("Connecting") => state'.phase = state.phase,
           shared' \in Shared, published' \in TunnelState,
           shared'.firewall.kind = shared.firewall.kind,
           FirewallFault(shared') <=> FirewallFault(shared)
    PROVE  Arrives(Consistent(intent, shutdown))
<1>1. Holds(state) /\ MonitorTypeOK' /\ MonitorRuns'
  BY HandledKeeps
<1>2. Holds(state')
  BY <1>1 DEF Holds, In
<1>3. Fits(state', shared')
  BY DEF Inv, Fits
<1> QED BY <1>1, <1>2, <1>3 DEF Arrives, EventsOwned

(* Progress events only change what clients are told.                      *)
LEMMA ProgressArrives ==
    ASSUME Inv, ConnectingProgress
    PROVE  Arrives(Consistent(intent, shutdown))
<1>1. PICK step \in Steps :
        /\ In("Connecting") /\ Receive(step)
        /\ Publish(step)
        /\ Handled(step)
        /\ UNCHANGED <<state, shared>>
  BY DEF ConnectingProgress
<1>2. published' \in TunnelState
  BY <1>1 DEF Publish, TunnelState
<1> QED BY <1>1, <1>2, InvParts, HandledArrives DEF Receive

(* SelectedGateways amends the policy or leads to Disconnecting.           *)
LEMMA SelectedGatewaysArrives ==
    ASSUME Inv, ConnectingSelectedGateways
    PROVE  Arrives(Consistent(intent, shutdown))
<1> USE InvParts
<1> DEFINE gateways == Head(events).gateways
           policy == [shared.firewall EXCEPT !.entry = gateways]
<1>1. /\ In("Connecting") /\ events # <<>> /\ Holds(state)
      /\ state \in ConnectingStates /\ intent = "up"
      /\ shared.firewall.kind = "Connecting" /\ ~FirewallFault(shared)
  BY StateParts
     DEF ConnectingSelectedGateways, Receive, In, Inv, EventsOwned
<1>2. gateways \in MaybeGateways
  <2>1. events \in Seq(Event)
    BY DEF Inv, TypeOK, MonitorTypeOK
  <2>2. Head(events) \in Event
    BY <1>1, <2>1
  <2> QED BY <2>2 DEF Event
<1>3. policy \in Policy /\ policy.kind = shared.firewall.kind
  <2>1. shared.firewall \in Policy
    BY SharedParts
  <2> QED BY <1>2, <2>1 DEF Policy
<1>4. PICK s \in SetFirewall(policy, shared) :
        \/ /\ FirewallFault(s)
           /\ NewState(EnterDisconnecting(ToError, TRUE, s), CancelledMonitor)
           /\ UNCHANGED routes
        \/ /\ ~FirewallFault(s)
           /\ state' = [state EXCEPT !.gateways = gateways]
           /\ shared' = s
           /\ Handled("SelectedGateways")
           /\ UNCHANGED published
  BY DEF ConnectingSelectedGateways
<1>5. s \in Shared /\ s.firewall.kind = "Connecting"
  BY <1>1, <1>3, <1>4, AmendedPolicy
<1> HIDE DEF gateways, policy
<1>6. CASE /\ FirewallFault(s)
           /\ NewState(EnterDisconnecting(ToError, TRUE, s), CancelledMonitor)
           /\ UNCHANGED routes
  <2>1. EnterDisconnecting(ToError, TRUE, s)
            \subseteq Reaching({DisconnectingState(ToError)}, s)
    BY <1>5, AfterMakers, EnterDisconnectingReaches
  <2>2. Reaching({DisconnectingState(ToError)}, s)
            \subseteq Reaching({DisconnectingState(ToError)}, shared)
    BY <1>5, ReachingMonotone
  <2>3. routes' \in BOOLEAN
    BY <1>6 DEF Inv, TypeOK, MonitorTypeOK
  <2> QED BY <1>1, <1>6, <2>1, <2>2, <2>3, AfterMakers, ConsistentStates,
             CancelArrives
<1>7. CASE /\ ~FirewallFault(s)
           /\ state' = [state EXCEPT !.gateways = gateways]
           /\ shared' = s
           /\ Handled("SelectedGateways")
           /\ UNCHANGED published
  <2>1. /\ state' \in ConnectingStates
        /\ state'.name = "Connecting" /\ state'.phase = state.phase
    BY <1>1, <1>2, <1>7 DEF ConnectingStates
  <2>2. state' \in Consistent(intent, shutdown)
    BY <1>1, <2>1 DEF State, Consistent
  <2>3. published' \in TunnelState
    BY <1>7 DEF Inv, TypeOK
  <2> QED BY <1>1, <1>5, <1>7, <2>1, <2>2, <2>3, HandledArrives DEF In
<1> QED BY <1>4, <1>6, <1>7

(* RegisteredWithGateways amends the policy or leads to Disconnecting.     *)
LEMMA RegisteredArrives ==
    ASSUME Inv, ConnectingRegistered
    PROVE  Arrives(Consistent(intent, shutdown))
<1> USE InvParts
<1> DEFINE policy == [shared.firewall EXCEPT !.peer = TRUE]
<1>1. /\ In("Connecting") /\ events # <<>> /\ Holds(state) /\ intent = "up"
      /\ shared.firewall.kind = "Connecting" /\ ~FirewallFault(shared)
  BY DEF ConnectingRegistered, Receive, In, Inv, EventsOwned
<1>2. policy \in Policy /\ policy.kind = shared.firewall.kind
  <2>1. shared.firewall \in Policy
    BY SharedParts
  <2> QED BY <2>1 DEF Policy
<1>3. PICK s \in SetFirewall(policy, shared) :
        \/ /\ FirewallFault(s)
           /\ NewState(EnterDisconnecting(ToError, TRUE, s), CancelledMonitor)
           /\ UNCHANGED routes
        \/ /\ ~FirewallFault(s)
           /\ Publish("ConnectingTunnel")
           /\ shared' = s
           /\ Handled("RegisteredWithGateways")
           /\ UNCHANGED state
  BY DEF ConnectingRegistered
<1>4. s \in Shared /\ s.firewall.kind = "Connecting"
  BY <1>1, <1>2, <1>3, AmendedPolicy
<1> HIDE DEF policy
<1>5. CASE /\ FirewallFault(s)
           /\ NewState(EnterDisconnecting(ToError, TRUE, s), CancelledMonitor)
           /\ UNCHANGED routes
  <2>1. EnterDisconnecting(ToError, TRUE, s)
            \subseteq Reaching({DisconnectingState(ToError)}, s)
    BY <1>4, AfterMakers, EnterDisconnectingReaches
  <2>2. Reaching({DisconnectingState(ToError)}, s)
            \subseteq Reaching({DisconnectingState(ToError)}, shared)
    BY <1>4, ReachingMonotone
  <2>3. routes' \in BOOLEAN
    BY <1>5 DEF Inv, TypeOK, MonitorTypeOK
  <2> QED BY <1>1, <1>5, <2>1, <2>2, <2>3, AfterMakers, ConsistentStates,
             CancelArrives
<1>6. CASE /\ ~FirewallFault(s)
           /\ Publish("ConnectingTunnel")
           /\ shared' = s
           /\ Handled("RegisteredWithGateways")
           /\ UNCHANGED state
  <2>1. published' \in TunnelState
    BY <1>6 DEF Publish, TunnelState, Steps
  <2> QED BY <1>1, <1>4, <1>6, <2>1, HandledArrives
<1> QED BY <1>3, <1>5, <1>6

(* InterfaceUp amends the policy or leads to Disconnecting.                *)
LEMMA InterfaceUpArrives ==
    ASSUME Inv, ConnectingInterfaceUp
    PROVE  Arrives(Consistent(intent, shutdown))
<1> USE InvParts
<1> DEFINE proxied == [shared EXCEPT !.socks5 = TRUE]
           policy == [shared.firewall EXCEPT !.tunnel = TRUE]
<1>1. /\ In("Connecting") /\ events # <<>> /\ intent = "up"
      /\ shared.firewall.kind = "Connecting" /\ ~FirewallFault(shared)
  BY DEF ConnectingInterfaceUp, Receive, In
<1>2. /\ proxied \in Shared /\ proxied.firewall = shared.firewall
      /\ policy \in Policy /\ policy.kind = shared.firewall.kind
  <2>1. shared.firewall \in Policy
    BY SharedParts
  <2> QED BY <2>1 DEF Shared, Policy
<1>3. PICK s \in SetFirewall(policy, proxied) :
        \/ FirewallFault(s) /\ ConnectingDisconnect(ToError, s)
        \/ /\ ~FirewallFault(s)
           /\ Publish("ConnectingTunnel")
           /\ shared' = s
           /\ Handled("InterfaceUp")
           /\ UNCHANGED state
  BY DEF ConnectingInterfaceUp
<1>4. s \in Shared /\ s.firewall.kind = "Connecting"
  BY <1>1, <1>2, <1>3, AmendedPolicy
<1> HIDE DEF proxied, policy
<1>5. CASE FirewallFault(s) /\ ConnectingDisconnect(ToError, s)
  BY <1>1, <1>4, <1>5, AfterMakers, ConsistentStates, ConnectingDisconnectArrives
<1>6. CASE /\ ~FirewallFault(s)
           /\ Publish("ConnectingTunnel")
           /\ shared' = s
           /\ Handled("InterfaceUp")
           /\ UNCHANGED state
  <2>1. published' \in TunnelState
    BY <1>6 DEF Publish, TunnelState, Steps
  <2> QED BY <1>1, <1>4, <1>6, <2>1, HandledArrives
<1> QED BY <1>3, <1>5, <1>6

(* Up leads to Connected with its policy, to Disconnecting, or to a panic. *)
LEMMA UpArrives ==
    ASSUME Inv, ConnectingUp
    PROVE  Arrives(Consistent(intent, shutdown))
<1> USE InvParts
<1>1. /\ In("Connecting") /\ events # <<>> /\ Holds(state) /\ intent = "up"
      /\ state.gateways \in MaybeGateways
  BY StateParts DEF ConnectingUp, Receive, In, Inv, EventsOwned
<1>2. CASE /\ state' = Simple("Panicked")
           /\ UNCHANGED <<shared, published, monitorVars>>
  <2>1. state' \in State /\ state'.name = "Panicked"
    BY <1>2, StateMakers
  <2>2. state' \in Consistent(intent, shutdown) /\ Fits(state', shared')
    BY <1>1, <2>1 DEF Consistent, Fits
  <2>3. Holds(state')
    BY <2>1 DEF Holds
  <2> QED BY <1>1, <1>2, <2>2, <2>3
          DEF Arrives, EventsOwned, Inv, TypeOK, MonitorTypeOK, MonitorRuns,
              monitorVars
<1>3. CASE /\ state.gateways # NoGateways
           /\ \E r \in EnterConnected(state.gateways,
                                     [shared EXCEPT !.blacklist = FALSE]) :
                \/ /\ r.state.name = "Connected"
                   /\ state' = r.state
                   /\ shared' = r.shared
                   /\ published' = Published(r.state)
                   /\ Handled("Up")
                \/ /\ r.state.name # "Connected"
                   /\ NewState({r}, CancelledMonitor)
                   /\ UNCHANGED routes
  <2> DEFINE cleared == [shared EXCEPT !.blacklist = FALSE]
             reached == {ConnectedState(state.gateways), DisconnectingState(ToError)}
  <2>1. cleared \in Shared /\ cleared.firewall = shared.firewall
    BY DEF Shared
  <2>2. EnterConnected(state.gateways, cleared) \subseteq Reaching(reached, shared)
    <3>1. EnterConnected(state.gateways, cleared) \subseteq Reaching(reached, cleared)
      BY <1>1, <2>1, EnterConnectedReaches
    <3> HIDE DEF cleared, reached
    <3>2. Reaching(reached, cleared) \subseteq Reaching(reached, shared)
      <4>1. cleared.firewall.kind = "None" => shared.firewall.kind = "None"
        BY <2>1
      <4> QED BY <4>1, ReachingMonotone
    <3> QED BY <3>1, <3>2
  <2>3. PICK r \in EnterConnected(state.gateways, cleared) :
            \/ /\ r.state.name = "Connected"
               /\ state' = r.state
               /\ shared' = r.shared
               /\ published' = Published(r.state)
               /\ Handled("Up")
            \/ /\ r.state.name # "Connected"
               /\ NewState({r}, CancelledMonitor)
               /\ UNCHANGED routes
    BY <1>3
  <2>4. r \in Reaching(reached, shared)
    BY <2>2, <2>3
  <2>5. /\ r.state \in reached /\ r.shared \in Shared
        /\ Fits(r.state, r.shared)
        /\ r.shared.firewall.kind = "None" =>
            r.state.name = "Disconnected" \/ shared.firewall.kind = "None"
    BY <2>4 DEF Reaching
  <2>6. /\ ConnectedState(state.gateways).name = "Connected"
        /\ DisconnectingState(ToError).name = "Disconnecting"
    BY DEF ConnectedState, DisconnectingState
  <2>7. CASE /\ r.state.name = "Connected"
             /\ state' = r.state
             /\ shared' = r.shared
             /\ published' = Published(r.state)
             /\ Handled("Up")
    <3>1. r.state = ConnectedState(state.gateways)
      BY <2>5, <2>6, <2>7
    <3>2. state.gateways \in Points
      BY <1>1, <1>3 DEF MaybeGateways
    <3>3. /\ r.state \in Entered /\ Holds(r.state)
          /\ r.state \in Consistent(intent, shutdown)
      BY <1>1, <3>1, <3>2, EnteredStates, ConsistentStates
    <3>4. MonitorTypeOK' /\ MonitorRuns'
      BY <1>1, <2>7, HandledKeeps
    <3>5. published' \in TunnelState
      BY <2>7, <3>3, PublishedType
    <3> QED BY <2>5, <2>7, <3>3, <3>4, <3>5 DEF Arrives, EventsOwned
  <2>8. CASE /\ r.state.name # "Connected"
             /\ NewState({r}, CancelledMonitor)
             /\ UNCHANGED routes
    <3>1. r.state = DisconnectingState(ToError)
      BY <2>5, <2>6, <2>8
    <3>2. {r} \subseteq Reaching({DisconnectingState(ToError)}, shared)
      BY <2>4, <3>1 DEF Reaching
    <3>3. routes' \in BOOLEAN
      BY <2>8 DEF Inv, TypeOK, MonitorTypeOK
    <3> QED BY <1>1, <2>8, <3>2, <3>3, AfterMakers, ConsistentStates, CancelArrives
  <2> QED BY <2>3, <2>7, <2>8
<1> QED BY <1>2, <1>3 DEF ConnectingUp

(* Down in Connecting leads to Disconnecting or to another attempt.        *)
LEMMA DownArrives ==
    ASSUME Inv, ConnectingDown
    PROVE  Arrives(Consistent(intent, shutdown))
<1> USE InvParts
<1>1. /\ In("Connecting") /\ events # <<>> /\ Holds(state) /\ intent = "up"
      /\ shared.firewall.kind = "Connecting" /\ ~FirewallFault(shared)
  BY DEF ConnectingDown, Receive, In, Inv, EventsOwned
<1>2. CASE /\ NewState(EnterDisconnecting(ToError, TRUE, shared), CancelledMonitor)
           /\ UNCHANGED routes
  <2>1. EnterDisconnecting(ToError, TRUE, shared)
            \subseteq Reaching({DisconnectingState(ToError)}, shared)
    BY <1>1, AfterMakers, EnterDisconnectingReaches
  <2>2. routes' \in BOOLEAN
    BY <1>2 DEF Inv, TypeOK, MonitorTypeOK
  <2> QED BY <1>1, <1>2, <2>1, <2>2, AfterMakers, ConsistentStates, CancelArrives
<1>3. CASE /\ routes' = FALSE
           /\ NewState(ConnectingReconnect([shared EXCEPT !.socks5 = FALSE]),
                       IdleMonitor)
  <2> DEFINE s == [shared EXCEPT !.socks5 = FALSE]
  <2>1. s \in Shared /\ s.firewall = shared.firewall
    BY DEF Shared
  <2>2. NewState(ConnectingReconnect(s), IdleMonitor)
    BY <1>3
  <2> HIDE DEF s
  <2>3. PICK retry \in 0..MaxRetry, gateways \in MaybeGateways :
            ConnectingReconnect(s) = EnterConnecting(retry, gateways, s)
    BY <1>1, ReconnectAttempt
  <2>4. NewState(EnterConnecting(retry, gateways, s), IdleMonitor)
    BY <2>2, <2>3
  <2>5. EnterConnecting(retry, gateways, s)
            \subseteq Reaching(Connectings(retry, gateways), shared)
    BY <2>1, ConnectingsProperties
  <2> QED BY <1>1, <1>3, <2>4, <2>5, ConnectingsProperties, IdleArrives
<1> QED BY <1>2, <1>3 DEF ConnectingDown

(* ConnectionFailed only changes the selection and the blacklist.          *)
LEMMA ConnectionFailedArrives ==
    ASSUME Inv, ConnectingConnectionFailed
    PROVE  Arrives(Consistent(intent, shutdown))
<1> USE InvParts
<1>1. /\ In("Connecting") /\ events # <<>> /\ intent = "up"
      /\ state \in ConnectingStates /\ state.gateways \in MaybeGateways
      /\ shared' = [shared EXCEPT !.blacklist = @ \/ state.gateways # NoGateways]
      /\ state' = [state EXCEPT !.gateways = NoGateways]
      /\ Handled("ConnectionFailed")
      /\ UNCHANGED published
  BY StateParts DEF ConnectingConnectionFailed, Receive, In
<1>2. /\ shared' \in Shared /\ shared'.firewall = shared.firewall
      /\ FirewallFault(shared') <=> FirewallFault(shared)
  <2>1. (shared.blacklist \/ state.gateways # NoGateways) \in BOOLEAN
    OBVIOUS
  <2> QED BY <1>1, <2>1 DEF Shared, FirewallFault
<1>3. /\ state' \in ConnectingStates
      /\ state'.name = "Connecting" /\ state'.phase = state.phase
  BY <1>1, StateMakers DEF ConnectingStates
<1>4. state' \in Consistent(intent, shutdown)
  BY <1>1, <1>3 DEF State, Consistent
<1>5. published' \in TunnelState
  BY <1>1 DEF Inv, TypeOK
<1> QED BY <1>1, <1>2, <1>3, <1>4, <1>5, HandledArrives DEF In

(* Down in Connected leads to Error or to Connecting.                      *)
LEMMA ConnectedDownArrives ==
    ASSUME Inv, ConnectedDown
    PROVE  Arrives(Consistent(intent, shutdown))
<1> USE InvParts
<1>1. /\ In("Connected") /\ events # <<>> /\ intent = "up"
      /\ state.gateways \in MaybeGateways
      /\ routes' = FALSE
  BY StateParts DEF ConnectedDown, Receive, In
<1>2. 0 \in 0..MaxRetry
  BY StateMakers
<1> DEFINE outcomes == UNION { IF Head(events).error
                               THEN EnterError(t)
                               ELSE EnterConnecting(0, state.gateways, t) :
                                 t \in ResetDns(shared) }
<1>3. outcomes \subseteq Reaching(Connectings(0, state.gateways), shared)
  <2> SUFFICES ASSUME NEW t \in ResetDns(shared)
               PROVE  (IF Head(events).error
                       THEN EnterError(t)
                       ELSE EnterConnecting(0, state.gateways, t))
                        \subseteq Reaching(Connectings(0, state.gateways), shared)
    OBVIOUS
  <2>1. t \in Shared /\ t.firewall = shared.firewall
    BY ResetDnsOutcome
  <2>2. EnterError(t) \subseteq Reaching(Connectings(0, state.gateways), shared)
    <3>1. EnterError(t) \subseteq Reaching({Simple("Error")}, t)
      BY <2>1, EnterErrorReaches
    <3>2. {Simple("Error")} \subseteq Connectings(0, state.gateways)
      BY DEF Connectings
    <3>3. Reaching({Simple("Error")}, t)
            \subseteq Reaching(Connectings(0, state.gateways), shared)
      BY <2>1, <3>2, ReachingMonotone
    <3> QED BY <3>1, <3>3
  <2>3. EnterConnecting(0, state.gateways, t)
            \subseteq Reaching(Connectings(0, state.gateways), shared)
    BY <1>1, <1>2, <2>1, ConnectingsProperties
  <2> QED BY <2>2, <2>3
<1> HIDE DEF outcomes
<1>4. NewState(outcomes, IdleMonitor)
  BY DEF ConnectedDown, outcomes
<1> QED BY <1>1, <1>2, <1>3, <1>4, ConnectingsProperties, IdleArrives

(* The other events change nothing in Connected.                           *)
LEMMA ConnectedIgnoresArrives ==
    ASSUME Inv, ConnectedIgnores
    PROVE  Arrives(Consistent(intent, shutdown))
<1>1. published' \in TunnelState
  BY DEF ConnectedIgnores, Inv, TypeOK
<1> QED BY <1>1, InvParts, HandledArrives DEF ConnectedIgnores, In

(* The steps of the task itself change nothing else.                       *)
LEMMA MonitorTaskArrives ==
    ASSUME Inv, MonitorTask
    PROVE  Arrives(Consistent(intent, shutdown))
<1>1. /\ UNCHANGED <<state, shared, published>>
      /\ MonitorStep(shared.settings.point)
  BY DEF MonitorTask, machineVars
<1>2. shared.settings.point \in Points
  BY InvParts, SharedParts DEF Settings
<1>3. MonitorKept
  BY <1>1, <1>2, MonitorProgressKeeps, MonitorOutcomeKeeps
     DEF MonitorStep, Inv, TypeOK
<1>4. Fits(state', shared') /\ published' \in TunnelState
  BY <1>1 DEF Inv, TypeOK, Fits, FirewallFault
<1>5. Holds(state) /\ Holds(state')
  BY <1>1, <1>3 DEF Inv, MonitorKept, Holds
<1> QED BY <1>1, <1>3, <1>4, <1>5, InvParts
        DEF Arrives, MonitorKept, EventsOwned

-----------------------------------------------------------------------------
(* The invariant holds.                                                    *)

(* The machine starts in Disconnected, or in Offline, with a policy that   *)
(* fits.                                                                   *)
LEMMA InitReaches ==
    ASSUME Init
    PROVE  /\ state \in {OfflineState(FALSE, NoGateways), Simple("Disconnected")}
           /\ shared \in Shared
           /\ Fits(state, shared)
<1>1. PICK settings \in Settings :
        \E r \in LET s == [settings |-> settings, firewall |-> NoPolicy,
                         dns |-> "Default", networking |-> FALSE, geo |-> FALSE,
                         preresolve |-> FALSE, socks5 |-> FALSE,
                         blacklist |-> FALSE, faults |-> {}]
                IN  IF IsOffline
                    THEN EnterOffline(FALSE, NoGateways, s)
                    ELSE EnterDisconnected(s) :
            state = r.state /\ shared = r.shared
  BY DEF Init
<1> DEFINE s == [settings |-> settings, firewall |-> NoPolicy,
                 dns |-> "Default", networking |-> FALSE, geo |-> FALSE,
                 preresolve |-> FALSE, socks5 |-> FALSE,
                 blacklist |-> FALSE, faults |-> {}]
           reached == {OfflineState(FALSE, NoGateways), Simple("Disconnected")}
<1>2. s \in Shared
  BY PolicyTypes DEF Shared
<1>3. PICK r \in IF IsOffline
                THEN EnterOffline(FALSE, NoGateways, s)
                ELSE EnterDisconnected(s) :
        state = r.state /\ shared = r.shared
  BY <1>1
<1> HIDE DEF s
<1>4. r \in Reaching(reached, s)
  <2>1. /\ Reaching({OfflineState(FALSE, NoGateways)}, s) \subseteq Reaching(reached, s)
        /\ Reaching({Simple("Disconnected")}, s) \subseteq Reaching(reached, s)
    BY ReachingMonotone
  <2>2. CASE IsOffline
    BY <1>2, <1>3, <2>1, <2>2, EnterOfflineReaches
  <2>3. CASE ~IsOffline
    BY <1>2, <1>3, <2>1, <2>3, EnterDisconnectedReaches
  <2> QED BY <2>2, <2>3
<1> QED BY <1>3, <1>4 DEF Reaching

(* The initial states satisfy the invariant.                               *)
LEMMA InitInv == Init => Inv
<1> SUFFICES ASSUME Init
             PROVE  Inv
  OBVIOUS
<1> DEFINE reached == {OfflineState(FALSE, NoGateways), Simple("Disconnected")}
<1>1. state \in reached /\ shared \in Shared /\ Fits(state, shared)
  BY InitReaches
<1>2. /\ intent = "down" /\ shutdown = FALSE
      /\ published = Published(Simple("Disconnected"))
      /\ OfflineInit /\ MonitorInit
  BY DEF Init
<1>3. state \in Entered /\ state \in Consistent(intent, shutdown) /\ ~Holds(state)
  BY <1>1, <1>2, StateMakers, EnteredStates, ConsistentStates
<1>4. published \in TunnelState
  BY <1>2, EnteredStates, PublishedType
<1>5. MonitorTypeOK /\ ~MonitorRuns /\ events = <<>>
  <2>1. monitor \in Monitor /\ monitor.stage = "Idle"
    BY <1>2, MonitorMakers DEF MonitorInit
  <2>2. events \in Seq(Event) /\ events = <<>>
    BY <1>2 DEF MonitorInit
  <2> QED BY <1>2, <2>1, <2>2 DEF MonitorInit, MonitorTypeOK, MonitorRuns
<1>6. OfflineTypeOK
  BY <1>2 DEF OfflineInit, OfflineTypeOK
<1>7. TypeOK
  BY <1>1, <1>2, <1>3, <1>4, <1>5, <1>6 DEF TypeOK, Entered
<1>8. IntentRespected
  BY <1>3, <1>7, ConsistentIsRespected DEF TypeOK
<1> QED BY <1>1, <1>3, <1>5, <1>7, <1>8 DEF Inv, EventsOwned

(* Every step arrives at a state that respects the intent.                 *)
LEMMA StepArrives ==
    ASSUME Inv, Next
    PROVE  /\ Arrives(Consistent(intent', shutdown))
           /\ intent' \in {"up", "down"}
           /\ shutdown' = shutdown \/ shutdown' = TRUE
           /\ OfflineTypeOK'
<1> USE InvParts
<1>1. UNCHANGED offlineVars => OfflineTypeOK'
  BY DEF Inv, TypeOK, OfflineTypeOK, offlineVars
<1>2. UNCHANGED <<state, shared, published, monitorVars>>
        => Arrives(Consistent(intent, shutdown))
  BY DEF Arrives, EventsOwned, Inv, TypeOK, MonitorTypeOK, MonitorRuns,
         monitorVars, Fits, FirewallFault, Holds
<1>3. CASE HandleCommand
  <2>1. UNCHANGED <<shutdown, offlineVars>>
    BY <1>3 DEF HandleCommand
  <2>2. CASE Listens /\ Connect /\ intent' = "up"
    BY <1>1, <2>1, <2>2, ConnectArrives
  <2>3. CASE Listens /\ Disconnect /\ intent' = "down"
    BY <1>1, <2>1, <2>3, DisconnectArrives
  <2>4. CASE Listens /\ BlockMayCome /\ Block /\ UNCHANGED intent
    BY <1>1, <2>1, <2>4, BlockArrives
  <2>5. CASE /\ Listens
             /\ \E new \in Settings, other \in BOOLEAN : SetTunnelSettings(new, other)
             /\ UNCHANGED intent
    BY <1>1, <2>1, <2>5, SetTunnelSettingsArrives
  <2> QED BY <1>3, <2>2, <2>3, <2>4, <2>5 DEF HandleCommand, Command
<1>4. CASE HandleMonitorEvent
  <2>1. UNCHANGED <<intent, shutdown, offlineVars>> /\ MonitorEvent
    BY <1>4 DEF HandleMonitorEvent
  <2>2. Arrives(Consistent(intent, shutdown))
    BY <2>1, ProgressArrives, SelectedGatewaysArrives, RegisteredArrives,
       InterfaceUpArrives, UpArrives, DownArrives, ConnectionFailedArrives,
       ConnectedDownArrives, ConnectedIgnoresArrives
       DEF MonitorEvent
  <2> QED BY <1>1, <2>1, <2>2
<1>5. CASE HandleFuture
  <2>1. UNCHANGED <<intent, shutdown, offlineVars>>
    BY <1>5 DEF HandleFuture
  <2>2. Arrives(Consistent(intent, shutdown))
    BY <1>5, FutureArrives DEF HandleFuture
  <2> QED BY <1>1, <2>1, <2>2
<1>6. CASE HandleConnectivity
  <2>1. PICK isOnline \in BOOLEAN :
            NextConnectivity(isOnline) /\ ConnectivityChanged(isOnline)
    BY <1>6 DEF HandleConnectivity
  <2>2. OfflineTypeOK'
    BY <2>1 DEF NextConnectivity, OfflineTypeOK, Inv, TypeOK
  <2>3. Arrives(Consistent(intent, shutdown))
    BY <2>1, ConnectivityArrives
  <2> QED BY <1>6, <2>2, <2>3 DEF HandleConnectivity
<1>7. CASE HandleShutdown
  <2>1. UNCHANGED <<intent, shutdown, offlineVars>>
    BY <1>7 DEF HandleShutdown
  <2>2. Arrives(Consistent(intent, shutdown))
    BY <1>7, ShutdownArrives DEF HandleShutdown
  <2> QED BY <1>1, <2>1, <2>2
<1>8. CASE ShutdownRequested
  BY <1>1, <1>2, <1>8 DEF ShutdownRequested
<1>9. CASE MonitorTask
  <2>1. UNCHANGED <<intent, shutdown, offlineVars>>
    BY <1>9 DEF MonitorTask, machineVars
  <2>2. Arrives(Consistent(intent, shutdown))
    BY <1>9, MonitorTaskArrives
  <2> QED BY <1>1, <2>1, <2>2
<1>10. CASE OfflineMonitorTask
  <2>1. OfflineTypeOK'
    <3>1. OfflineTypeOK
      BY DEF Inv, TypeOK
    <3>2. CheckConnectivity
      BY <1>10 DEF OfflineMonitorTask
    <3>3. watch' = watch \/ watch' = [value |-> online, changed |-> TRUE]
      BY <3>2 DEF CheckConnectivity
    <3>4. watch' \in [value : BOOLEAN, changed : BOOLEAN]
      <4>1. online \in BOOLEAN /\ watch \in [value : BOOLEAN, changed : BOOLEAN]
        BY <3>1 DEF OfflineTypeOK
      <4>2. [value |-> online, changed |-> TRUE] \in [value : BOOLEAN, changed : BOOLEAN]
        BY <4>1, Zenon
      <4> QED BY <3>3, <4>1, <4>2, Zenon
    <3> QED BY <3>1, <3>2, <3>4 DEF CheckConnectivity, OfflineTypeOK
  <2>2. UNCHANGED <<intent, shutdown, state, shared, published, monitorVars>>
    BY <1>10 DEF OfflineMonitorTask, machineVars
  <2> QED BY <1>2, <2>1, <2>2
<1>11. CASE Host
  <2>1. OfflineTypeOK'
    BY <1>11 DEF Host, HostRouteChange, OfflineTypeOK, Inv, TypeOK
  <2>2. UNCHANGED <<intent, shutdown, state, shared, published, monitorVars>>
    BY <1>11 DEF Host, machineVars
  <2> QED BY <1>2, <2>1, <2>2
<1> QED BY <1>3, <1>4, <1>5, <1>6, <1>7, <1>8, <1>9, <1>10, <1>11 DEF Next

(* Every step keeps the invariant.                                         *)
LEMMA NextInv == Inv /\ [Next]_vars => Inv'
<1> SUFFICES ASSUME Inv, [Next]_vars
             PROVE  Inv'
  OBVIOUS
<1>1. CASE Next
  <2>1. /\ Arrives(Consistent(intent', shutdown))
        /\ intent' \in {"up", "down"}
        /\ shutdown' = shutdown \/ shutdown' = TRUE
        /\ OfflineTypeOK'
    BY <1>1, StepArrives
  <2>2. shutdown' \in BOOLEAN
    BY <2>1, InvParts
  <2>3. state' \in Consistent(intent', shutdown')
    BY <2>1 DEF Arrives, Consistent
  <2>4. TypeOK'
    BY <2>1, <2>2, <2>3 DEF Arrives, TypeOK, Consistent
  <2>5. IntentRespected'
    BY <2>3 DEF Consistent, IntentRespected, IntentDown, IntentUp, In
  <2> QED BY <2>1, <2>4, <2>5 DEF Arrives, Inv
<1>2. CASE UNCHANGED vars
  BY <1>2 DEF vars, machineVars, offlineVars, monitorVars, Inv, TypeOK,
              OfflineTypeOK, MonitorTypeOK, IntentRespected, IntentDown, IntentUp,
              In, Fits, FirewallFault, MonitorRuns, Holds, EventsOwned
<1> QED BY <1>1, <1>2

(* The inductive invariant holds in every reachable state.                 *)
THEOREM InvHolds == Spec => []Inv
BY InitInv, NextInv, PTL DEF Spec

-----------------------------------------------------------------------------
(* What follows from it.                                                   *)

(* Every variable keeps its type: no handler, in any order of commands,    *)
(* events and failures, leaves the state machine in an ill-formed state.   *)
THEOREM TypeCorrect == Spec => []TypeOK
<1>1. Inv => TypeOK
  BY DEF Inv
<1> QED BY <1>1, InvHolds, PTL

(* No failure, settings change, loss of connectivity or exit of a tunnel   *)
(* turns the machine against the user's last Connect or Disconnect.        *)
THEOREM IntentIsRespected == Spec => []IntentRespected
<1>1. Inv => IntentRespected
  BY DEF Inv
<1> QED BY <1>1, InvHolds, PTL

(* The policy in force is the one the state needs, in every state and on   *)
(* every way into it, unless the last firewall operation failed.           *)
THEOREM KillSwitchHolds == Spec => []KillSwitch
<1>1. Inv => KillSwitch
  BY DEF Inv, Fits, KillSwitch, In
<1> QED BY <1>1, InvHolds, PTL

(* A monitor task exists exactly while a state holds its handle or its     *)
(* tombstone: handlers neither orphan a tunnel nor wait for none.          *)
THEOREM MonitorIsOwned == Spec => []MonitorOwned
<1>1. Inv => MonitorOwned
  BY DEF Inv, MonitorOwned, Holds, HasHandle, In
<1> QED BY <1>1, InvHolds, PTL

(* No step opens a firewall that was closed, except after the user's       *)
(* Disconnect or at shutdown.                                              *)
THEOREM OpensOnlyWhenAsked == Spec => NeverOpensUnasked
<1> DEFINE A == shared.firewall.kind # "None" /\ shared'.firewall.kind = "None"
                    => intent' = "down" \/ shutdown
<1>1. Inv /\ [Next]_vars => [A]_vars
  <2> SUFFICES ASSUME Inv, Next, shared.firewall.kind # "None",
                      shared'.firewall.kind = "None"
               PROVE  intent' = "down" \/ shutdown
    OBVIOUS
  <2>1. /\ state' \in Consistent(intent', shutdown)
        /\ intent' \in {"up", "down"}
        /\ state'.name = "Disconnected" \/ shutdown
    BY StepArrives DEF Arrives
  <2> QED BY <2>1 DEF Consistent
<1> QED BY <1>1, InvHolds, PTL DEF Spec, NeverOpensUnasked

=============================================================================
