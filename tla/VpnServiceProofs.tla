--------------------------- MODULE VpnServiceProofs ---------------------------
(***************************************************************************)
(* Proofs about the VPN service, for every bound on the channels and on    *)
(* the changes of configuration.                                           *)
(*                                                                         *)
(* The decisions of the service rest on two chains: from its target        *)
(* through the commands under way to the intent the machine works for, and *)
(* from the state of the machine through the events under way to what the  *)
(* clients were told and, but for a write that missed, to the copy.  The   *)
(* invariant says that neither chain is ever broken.                       *)
(***************************************************************************)
EXTENDS VpnService, TLAPS

(* The end of the events under way is what the machine shows.              *)
EventsFollow ==
    IF events = <<>> THEN told = shown ELSE events[Len(events)] = shown

(* A copy that was written is what the clients were told.                  *)
CopyFollows == ~missed => tunnelState = told

(* While keys change nothing else is handled.                              *)
KeysHoldTheActor == changingKeys => stage = "running" /\ tunnelState = "Disconnected"

ExitedAfterDraining == stage = "exited" => joined /\ events = <<>>

Inv ==
    /\ TypeOK
    /\ Pursued(target)
    /\ EventsFollow
    /\ CopyFollows
    /\ KeysHoldTheActor
    /\ ExitedAfterDraining

-----------------------------------------------------------------------------
(* The commands and their kinds.                                           *)

LEMMA CommandTypes ==
    /\ \A new \in Targets : CommandFor(new) \in TunnelCommands
    /\ \A version \in Versions : SetTunnelSettings(version) \in TunnelCommands
  BY DEF TunnelCommands, CommandFor

LEMMA CommandKinds ==
    /\ \A new : CommandFor(new).kind # "SetTunnelSettings"
    /\ \A version : SetTunnelSettings(version).kind = "SetTunnelSettings"
    /\ \A new \in Targets : CommandFor(new) = Connect <=> new = "Secured"
    /\ \A new \in Targets : CommandFor(new) = Disconnect <=> new = "Unsecured"
    /\ Connect.kind # "SetTunnelSettings" /\ Disconnect.kind # "SetTunnelSettings"
  <1>1. Connect.kind = "Connect" /\ Disconnect.kind = "Disconnect"
    BY DEF Connect, Disconnect
  <1>2. Connect # Disconnect
    BY <1>1
  <1> QED
    BY <1>1, <1>2 DEF CommandFor, SetTunnelSettings, Targets

-----------------------------------------------------------------------------
(* The chain from the target to the intent.                                *)

(* A new target is pursued by the command that is sent for it.             *)
LEMMA SentIsPursued ==
    ASSUME commands \in Seq(TunnelCommands), NEW new \in Targets,
           Send(CommandFor(new)), target' = new
    PROVE  Pursued(target)'
  <1> DEFINE last == Len(commands) + 1
  <1>1. /\ DOMAIN commands' = 1..last
        /\ commands'[last] = CommandFor(new)
    BY DEF Send
  <1>2. last \in DOMAIN commands' /\ \A j \in DOMAIN commands' : ~(j > last)
    BY <1>1
  <1> HIDE DEF last
  <1> QED
    BY <1>1, <1>2 DEF Pursued, CommandFor, Connect, Disconnect

(* Settings that are sent do not stand in the way of what was asked for.   *)
LEMMA SettingsKeepPursued ==
    ASSUME commands \in Seq(TunnelCommands), NEW version \in Versions,
           Send(SetTunnelSettings(version)), Pursued(target), UNCHANGED <<target, intent>>
    PROVE  Pursued(target)'
  <1> DEFINE last == Len(commands) + 1
  <1>1. /\ DOMAIN commands = 1..Len(commands)
        /\ DOMAIN commands' = 1..last
        /\ commands'[last] = SetTunnelSettings(version)
        /\ \A i \in DOMAIN commands : commands'[i] = commands[i]
    BY DEF Send
  <1>2. DOMAIN commands' = DOMAIN commands \cup {last}
    BY <1>1
  <1>3. /\ commands'[last].kind = "SetTunnelSettings"
        /\ \A i \in DOMAIN commands : commands'[i].kind = commands[i].kind
    BY <1>1, CommandKinds
  <1> HIDE DEF last
  <1>4. CASE intent = Wanted(target) /\ \A i \in DOMAIN commands : IsSettings(i)
    <2>1. \A i \in DOMAIN commands' : commands'[i].kind = "SetTunnelSettings"
      BY <1>2, <1>3, <1>4 DEF IsSettings
    <2> QED
      BY <1>4, <2>1 DEF Pursued, IsSettings, Wanted
  <1>5. ASSUME NEW i \in DOMAIN commands, commands[i] = CommandFor(target),
               \A j \in DOMAIN commands : j > i => IsSettings(j)
        PROVE  Pursued(target)'
    <2>1. commands'[i] = CommandFor(target)' /\ i \in DOMAIN commands'
      BY <1>1, <1>2, <1>5 DEF CommandFor, Connect, Disconnect
    <2>2. \A j \in DOMAIN commands' : j > i => commands'[j].kind = "SetTunnelSettings"
      BY <1>2, <1>3, <1>5 DEF IsSettings
    <2> QED
      BY <2>1, <2>2 DEF Pursued, IsSettings
  <1> QED
    BY <1>4, <1>5 DEF Pursued

(* Commands under way may be left alone.                                   *)
LEMMA IdleKeepsPursued ==
    ASSUME Pursued(target), UNCHANGED <<commands, target, intent>>
    PROVE  Pursued(target)'
  BY DEF Pursued, IsSettings, CommandFor, Connect, Disconnect, Wanted

(* The machine takes the oldest command and works for what it asks.        *)
LEMMA TakenIsPursued ==
    ASSUME commands \in Seq(TunnelCommands), target \in Targets,
           Pursued(target), TakeCommand
    PROVE  Pursued(target)'
  <1>1. /\ commands # <<>> /\ commands' = Tail(commands) /\ target' = target
        /\ \/ Head(commands) = Connect /\ intent' = "up"
           \/ Head(commands) = Disconnect /\ intent' = "down"
           \/ Head(commands).kind = "SetTunnelSettings" /\ intent' = intent
    BY DEF TakeCommand, serviceVars, lifecycleVars
  <1>2. /\ Head(commands) = commands[1]
        /\ DOMAIN commands = 1..Len(commands) /\ Len(commands) \in Nat /\ Len(commands) > 0
        /\ DOMAIN commands' = 1..(Len(commands) - 1)
        /\ \A i \in DOMAIN commands' : commands'[i] = commands[i + 1]
    BY <1>1
  <1>3. \A i \in DOMAIN commands' :
          i + 1 \in DOMAIN commands /\ IsSettings(i)' = IsSettings(i + 1)
    BY <1>2 DEF IsSettings
  <1>4. CASE intent = Wanted(target) /\ \A i \in DOMAIN commands : IsSettings(i)
    <2>1. commands[1].kind = "SetTunnelSettings"
      BY <1>2, <1>4 DEF IsSettings
    <2>2. intent' = intent
      BY <1>1, <1>2, <2>1, CommandKinds
    <2> QED
      BY <1>1, <1>3, <1>4, <2>2 DEF Pursued, Wanted
  <1>5. ASSUME NEW i \in DOMAIN commands, commands[i] = CommandFor(target),
               \A j \in DOMAIN commands : j > i => IsSettings(j)
        PROVE  Pursued(target)'
    <2>1. CASE i = 1
      <3>1. \A j \in DOMAIN commands' : IsSettings(j)'
        BY <1>2, <1>3, <1>5, <2>1
      <3>2. ~(Head(commands).kind = "SetTunnelSettings")
        BY <1>2, <1>5, <2>1, CommandKinds
      <3>3. /\ Head(commands) = Connect => target = "Secured"
            /\ Head(commands) = Disconnect => target = "Unsecured"
        BY <1>2, <1>5, <2>1, CommandKinds
      <3>4. intent' = Wanted(target)
        BY <1>1, <3>2, <3>3 DEF Wanted
      <3> QED
        BY <1>1, <3>1, <3>4 DEF Pursued, Wanted
    <2>2. CASE i # 1
      <3> DEFINE before == i - 1
      <3>1. before \in DOMAIN commands' /\ before + 1 = i
        BY <1>2, <1>5, <2>2
      <3>2. commands'[before] = CommandFor(target)'
        BY <1>1, <1>2, <1>5, <3>1 DEF CommandFor, Connect, Disconnect
      <3>3. \A j \in DOMAIN commands' : j > before => IsSettings(j)'
        BY <1>2, <1>3, <1>5, <3>1
      <3> HIDE DEF before
      <3> QED
        BY <3>1, <3>2, <3>3 DEF Pursued, IsSettings
    <2> QED
      BY <2>1, <2>2
  <1> QED
    BY <1>4, <1>5 DEF Pursued

-----------------------------------------------------------------------------
(* The chain from the machine to the clients.                              *)

LEMMA AdvanceIsTyped ==
    ASSUME LifecycleTypeOK, Advance, intent' \in {"up", "down"}
    PROVE  LifecycleTypeOK' /\ shutdown' = shutdown /\ ~ended
  BY DEF LifecycleTypeOK, Advance, Dial, Establish, Release, OpenNetwork, Hold, Ask, Tighten, End,
         Unchanged, ShownStates

(* A new state joins the end of the events.                                *)
LEMMA ShownFollows ==
    ASSUME events \in Seq(ShownStates), shown' \in ShownStates, EventsFollow, Show, told' = told
    PROVE  EventsFollow' /\ events' \in Seq(ShownStates)
  <1>1. CASE shown' = shown
    BY <1>1 DEF Show, EventsFollow
  <1>2. CASE shown' # shown
    <2>1. /\ events' = Append(events, shown') /\ events' # <<>>
          /\ Len(events') = Len(events) + 1
          /\ events'[Len(events) + 1] = shown'
      BY <1>2 DEF Show
    <2> QED
      BY <2>1 DEF EventsFollow
  <1> QED
    BY <1>1, <1>2

(* An event that is read leaves the end of the events, or was it.          *)
LEMMA ReadFollows ==
    ASSUME events \in Seq(ShownStates), EventsFollow, events # <<>>,
           told' = Head(events), events' = Tail(events), shown' = shown
    PROVE  EventsFollow' /\ events' \in Seq(ShownStates) /\ told' \in ShownStates
  <1>1. told' = events[1] /\ told' \in ShownStates /\ Len(events) \in Nat /\ Len(events) > 0
    OBVIOUS
  <1>2. events[Len(events)] = shown
    BY DEF EventsFollow
  <1>3. CASE Len(events) = 1
    BY <1>1, <1>2, <1>3 DEF EventsFollow
  <1>4. CASE Len(events) > 1
    <2>1. /\ events' \in Seq(ShownStates) /\ Len(events') = Len(events) - 1
          /\ \A i \in 1..Len(events') : events'[i] = events[i + 1]
      BY <1>1
    <2>2. Len(events') \in 1..Len(events') /\ Len(events') + 1 = Len(events)
      BY <1>1, <1>4, <2>1
    <2>3. events'[Len(events')] = events[Len(events)]
      BY <2>1, <2>2
    <2>4. events' # <<>>
      <3>1. Len(events') # 0
        BY <1>1, <1>4, <2>1
      <3>2. \A pending : pending = <<>> => Len(pending) = 0
        OBVIOUS
      <3> QED
        BY <3>1, <3>2
    <2> QED
      BY <1>1, <1>2, <2>1, <2>3, <2>4 DEF EventsFollow
  <1> QED
    BY <1>1, <1>3, <1>4

-----------------------------------------------------------------------------
(* The invariant.                                                          *)

LEMMA InitEstablishes == Init => Inv
  <1> SUFFICES ASSUME Init PROVE Inv
    OBVIOUS
  <1>1. commands \in Seq(TunnelCommands) /\ events \in Seq(ShownStates)
    BY DEF Init
  <1>2. LifecycleTypeOK
    BY DEF Init, LifecycleInit, LifecycleTypeOK, ShownStates
  <1>3. 0 \in Versions
    BY ServiceBounds DEF Versions
  <1>4. TypeOK
    BY <1>1, <1>2, <1>3 DEF Init, LifecycleInit, TypeOK, ShownStates, Targets
  <1>5. Pursued(target)
    BY DEF Init, LifecycleInit, Pursued, Wanted
  <1> QED
    BY <1>4, <1>5 DEF Init, LifecycleInit, Inv, EventsFollow, CopyFollows, KeysHoldTheActor,
                      ExitedAfterDraining

LEMMA StepPreserves == Inv /\ [Next]_vars => Inv'
  <1> SUFFICES ASSUME Inv, [Next]_vars PROVE Inv'
    OBVIOUS
  <1> USE DEF Inv
  <1>1. ASSUME NEW new \in Targets, SetTargetState(new) PROVE Inv'
    <2>1. Pursued(target)'
      BY <1>1, SentIsPursued DEF SetTargetState, TypeOK
    <2>2. commands' \in Seq(TunnelCommands)
      BY <1>1, CommandTypes DEF SetTargetState, TypeOK, Send
    <2> QED
      BY <1>1, <2>1, <2>2 DEF SetTargetState, lifecycleVars, TypeOK, LifecycleTypeOK, EventsFollow,
         CopyFollows, KeysHoldTheActor, ExitedAfterDraining
  <1>2. CASE ReconnectTunnel
    <2>1. Send(CommandFor("Secured")) /\ target' = "Secured" /\ "Secured" \in Targets
      BY <1>2 DEF ReconnectTunnel, serviceVars, CommandFor, Targets
    <2>2. Pursued(target)'
      BY <2>1, SentIsPursued DEF TypeOK
    <2>3. commands' \in Seq(TunnelCommands)
      BY <2>1, CommandTypes DEF TypeOK, Send
    <2> QED
      BY <1>2, <2>2, <2>3 DEF ReconnectTunnel, serviceVars, lifecycleVars, TypeOK, LifecycleTypeOK,
         EventsFollow, CopyFollows, KeysHoldTheActor, ExitedAfterDraining
  <1>3. CASE ChangeConfig
    <2>1. config' \in Versions /\ UNCHANGED <<lifecycleVars, target>>
      BY <1>3, ServiceBounds DEF ChangeConfig, TypeOK, Versions
    <2>2. UNCHANGED commands \/ Send(SetTunnelSettings(config'))
      BY <1>3 DEF ChangeConfig
    <2>3. Pursued(target)'
      BY <2>1, <2>2, IdleKeepsPursued, SettingsKeepPursued DEF TypeOK, lifecycleVars
    <2>4. commands' \in Seq(TunnelCommands)
      BY <2>1, <2>2, CommandTypes DEF TypeOK, Send
    <2>5. /\ timer' \in BOOLEAN
          /\ UNCHANGED <<stage, changingKeys, tunnelState, missed, told, joined, events, settings>>
      BY <1>3 DEF ChangeConfig, TypeOK
    <2> QED
      BY <2>1, <2>3, <2>4, <2>5 DEF lifecycleVars, TypeOK, LifecycleTypeOK, EventsFollow,
         CopyFollows, KeysHoldTheActor, ExitedAfterDraining
  <1>4. CASE UpdateTunnelSettings
    <2>1. Pursued(target)'
      BY <1>4, SettingsKeepPursued DEF UpdateTunnelSettings, TypeOK, lifecycleVars
    <2>2. commands' \in Seq(TunnelCommands)
      BY <1>4, CommandTypes DEF UpdateTunnelSettings, TypeOK, Send
    <2> QED
      BY <1>4, <2>1, <2>2 DEF UpdateTunnelSettings, lifecycleVars, TypeOK, LifecycleTypeOK,
         EventsFollow, CopyFollows, KeysHoldTheActor, ExitedAfterDraining
  <1>5. CASE ChangeKeys \/ KeysChanged
    <2>1. UNCHANGED <<lifecycleVars, target, commands, events, told>>
      BY <1>5 DEF ChangeKeys, KeysChanged, channels
    <2>2. Pursued(target)'
      BY <2>1, IdleKeepsPursued DEF lifecycleVars
    <2>3. /\ UNCHANGED <<stage, config, timer, tunnelState, missed, joined, settings>>
          /\ changingKeys' \in BOOLEAN
          /\ changingKeys' => stage = "running" /\ tunnelState = "Disconnected"
      BY <1>5 DEF ChangeKeys, KeysChanged, Serving
    <2> QED
      BY <2>1, <2>2, <2>3 DEF lifecycleVars, TypeOK, LifecycleTypeOK, EventsFollow, CopyFollows,
         KeysHoldTheActor, ExitedAfterDraining
  <1>6. CASE HandleTunnelEvent
    <2>1. UNCHANGED <<lifecycleVars, stage, target, config, timer, changingKeys, joined, commands,
                      settings>>
      BY <1>6 DEF HandleTunnelEvent
    <2>2. EventsFollow' /\ events' \in Seq(ShownStates) /\ told' \in ShownStates
      BY <1>6, <2>1, ReadFollows DEF HandleTunnelEvent, TypeOK, lifecycleVars
    <2>3. /\ missed' \in BOOLEAN /\ tunnelState' \in {tunnelState, told'}
          /\ ~missed' => tunnelState' = told'
      BY <1>6 DEF HandleTunnelEvent
    <2>4. ~changingKeys /\ stage # "exited"
      BY <1>6 DEF HandleTunnelEvent, Serving, KeysHoldTheActor
    <2>5. Pursued(target)'
      BY <2>1, IdleKeepsPursued DEF lifecycleVars
    <2> QED
      BY <2>1, <2>2, <2>3, <2>4, <2>5 DEF lifecycleVars, TypeOK, LifecycleTypeOK, CopyFollows,
         KeysHoldTheActor, ExitedAfterDraining
  <1>7. CASE Shutdown \/ MachineJoined \/ Exit
    <2>1. UNCHANGED <<shown, network, intent, ended, target, config, timer, changingKeys, tunnelState,
                      missed, told, commands, events, settings>>
      BY <1>7 DEF Shutdown, Cancel, MachineJoined, Exit, lifecycleVars, channels
    <2>2. Pursued(target)'
      BY <2>1, IdleKeepsPursued
    <2>3. ~changingKeys
      BY <1>7 DEF Shutdown, MachineJoined, Exit, Serving, KeysHoldTheActor
    <2>4. /\ shutdown' \in BOOLEAN /\ joined' \in BOOLEAN
          /\ stage' \in {"running", "joining", "exited"}
          /\ stage' = "running" <=> ~shutdown'
          /\ joined' => ended
          /\ stage' = "exited" => joined' /\ events = <<>>
      <3>1. CASE Shutdown
        BY <3>1 DEF Shutdown, Cancel, Serving, TypeOK
      <3>2. CASE MachineJoined \/ Exit
        BY <3>2 DEF MachineJoined, Exit, lifecycleVars, TypeOK, LifecycleTypeOK
      <3> QED
        BY <1>7, <3>1, <3>2
    <2> QED
      BY <2>1, <2>2, <2>3, <2>4 DEF TypeOK, LifecycleTypeOK, EventsFollow, CopyFollows,
         KeysHoldTheActor, ExitedAfterDraining
  <1>8. CASE TakeCommand
    <2>1. UNCHANGED serviceVars /\ Show
      BY <1>8 DEF TakeCommand
    <2>2. commands' \in Seq(TunnelCommands) /\ Head(commands) \in TunnelCommands
      BY <1>8 DEF TakeCommand, TypeOK
    <2>3. settings' \in Versions
      BY <1>8, <2>2 DEF TakeCommand, TypeOK, TunnelCommands, SetTunnelSettings, Connect, Disconnect
    <2>4. LifecycleTypeOK' /\ shutdown' = shutdown /\ ~ended
      BY <1>8, AdvanceIsTyped DEF TakeCommand, TypeOK, lifecycleVars, LifecycleTypeOK
    <2>5. EventsFollow' /\ events' \in Seq(ShownStates)
      BY <2>1, <2>4, ShownFollows DEF TypeOK, LifecycleTypeOK, serviceVars
    <2>6. Pursued(target)'
      BY <1>8, TakenIsPursued DEF TypeOK
    <2> QED
      BY <2>1, <2>2, <2>3, <2>4, <2>5, <2>6 DEF serviceVars, TypeOK, CopyFollows, KeysHoldTheActor,
         ExitedAfterDraining
  <1>9. CASE MachineStep
    <2>1. UNCHANGED <<serviceVars, commands, settings, intent>> /\ Show
      BY <1>9 DEF MachineStep
    <2>2. LifecycleTypeOK' /\ shutdown' = shutdown /\ ~ended
      BY <1>9, AdvanceIsTyped DEF MachineStep, TypeOK, LifecycleTypeOK
    <2>3. EventsFollow' /\ events' \in Seq(ShownStates)
      BY <2>1, <2>2, ShownFollows DEF TypeOK, LifecycleTypeOK, serviceVars
    <2>4. Pursued(target)'
      BY <2>1, IdleKeepsPursued DEF serviceVars
    <2> QED
      BY <2>1, <2>2, <2>3, <2>4 DEF serviceVars, TypeOK, CopyFollows, KeysHoldTheActor,
         ExitedAfterDraining
  <1>10. CASE UNCHANGED vars
    <2>1. UNCHANGED <<lifecycleVars, serviceVars, channels, settings>>
      BY <1>10 DEF vars
    <2>2. Pursued(target)'
      BY <2>1, IdleKeepsPursued DEF serviceVars, channels, lifecycleVars
    <2> QED
      BY <2>1, <2>2 DEF serviceVars, channels, lifecycleVars, TypeOK, LifecycleTypeOK, EventsFollow,
         CopyFollows, KeysHoldTheActor, ExitedAfterDraining
  <1> QED
    BY <1>1, <1>2, <1>3, <1>4, <1>5, <1>6, <1>7, <1>8, <1>9, <1>10 DEF Next

(* The invariant of the service, in every reachable state.                 *)
THEOREM ServiceInvariant == Spec => []Inv
  BY InitEstablishes, StepPreserves, PTL DEF Spec

-----------------------------------------------------------------------------

(* Every variable keeps its type, for any bounds.                          *)
THEOREM ServiceTypeCorrect == Spec => []TypeOK
  <1>1. Inv => TypeOK
    BY DEF Inv
  <1> QED
    BY <1>1, ServiceInvariant, PTL

(* A request that set_target_state turns down is pursued already, and keys *)
(* change under no tunnel the service could have known of, however many    *)
(* commands and events are under way.                                      *)
THEOREM DecisionsStayCurrent == Spec => []DecisionsAreCurrent
  <1>1. Inv => DecisionsAreCurrent
    <2> SUFFICES ASSUME Inv PROVE RefusedIsPursued /\ KeysChangeWhileDown
      BY DEF DecisionsAreCurrent
    <2>1. CaughtUp => tunnelState = shown
      BY DEF Inv, CaughtUp, EventsFollow, CopyFollows
    <2>2. KeysChangeWhileDown
      BY <2>1 DEF Inv, KeysChangeWhileDown, KeysHoldTheActor
    <2>3. RefusedIsPursued
      BY <2>1 DEF Inv, RefusedIsPursued, Accepts
    <2> QED
      BY <2>2, <2>3
  <1> QED
    BY <1>1, ServiceInvariant, PTL

(* The service never exits before the machine ended and its clients were   *)
(* told the last state of the tunnel: the safety half of ShutdownIsTold.   *)
THEOREM ExitIsTold == Spec => [](stage = "exited" => ended /\ told = shown)
  <1>1. Inv => (stage = "exited" => ended /\ told = shown)
    BY DEF Inv, TypeOK, EventsFollow, ExitedAfterDraining
  <1> QED
    BY <1>1, ServiceInvariant, PTL

-----------------------------------------------------------------------------
(* What the clients are told is a life cycle too: the events under way are *)
(* in the order of the life cycle, and follow what was told last.          *)

MayFollow(before, after) ==
    /\ after = "Connected" => before = "Connecting"
    /\ after = "Disconnecting" => before \in {"Connecting", "Connected"}
    /\ after = "Disconnected" => before # "Connected"

EventsInOrder ==
    /\ events # <<>> => MayFollow(told, events[1])
    /\ \A i \in 1..(Len(events) - 1) : MayFollow(events[i], events[i + 1])

LEMMA AdvanceInOrder ==
    ASSUME Advance
    PROVE  shown' = shown \/ MayFollow(shown, shown')
  BY DEF Advance, Dial, Establish, Release, OpenNetwork, Hold, Ask, Tighten, End, MayFollow

LEMMA ShownInOrder ==
    ASSUME events \in Seq(ShownStates), EventsFollow, EventsInOrder, Show,
           shown' = shown \/ MayFollow(shown, shown'), told' = told
    PROVE  EventsInOrder'
  <1>1. CASE shown' = shown
    BY <1>1 DEF Show, EventsInOrder
  <1>2. CASE shown' # shown
    <2>1. /\ Len(events) \in Nat /\ Len(events') = Len(events) + 1
          /\ \A i \in 1..Len(events) : events'[i] = events[i]
          /\ events'[Len(events) + 1] = shown'
      BY <1>2 DEF Show
    <2>2. MayFollow(shown, shown')
      BY <1>2
    <2>3. CASE events = <<>>
      BY <2>1, <2>2, <2>3 DEF EventsInOrder, EventsFollow
    <2>4. CASE events # <<>>
      <3>1. Len(events) > 0 /\ events[Len(events)] = shown
        BY <2>4 DEF EventsFollow
      <3>2. MayFollow(told', events'[1])
        BY <2>1, <2>4, <3>1 DEF EventsInOrder
      <3>3. ASSUME NEW i \in 1..(Len(events') - 1)
            PROVE  MayFollow(events'[i], events'[i + 1])
        <4>1. CASE i = Len(events)
          BY <2>1, <2>2, <3>1, <4>1
        <4>2. CASE i # Len(events)
          <5>1. i \in 1..(Len(events) - 1) /\ i \in 1..Len(events) /\ i + 1 \in 1..Len(events)
            BY <2>1, <4>2
          <5> QED
            BY <2>1, <5>1 DEF EventsInOrder
        <4> QED
          BY <4>1, <4>2
      <3> QED
        BY <3>2, <3>3 DEF EventsInOrder
    <2> QED
      BY <2>3, <2>4
  <1> QED
    BY <1>1, <1>2

LEMMA ReadInOrder ==
    ASSUME events \in Seq(ShownStates), EventsInOrder, events # <<>>,
           told' = Head(events), events' = Tail(events)
    PROVE  EventsInOrder' /\ MayFollow(told, told')
  <1>1. /\ Len(events) \in Nat \ {0} /\ told' = events[1]
        /\ Len(events') = Len(events) - 1
        /\ \A i \in 1..Len(events') : events'[i] = events[i + 1]
    OBVIOUS
  <1>2. events' # <<>> => Len(events') > 0
    BY <1>1
  <1>3. events' # <<>> => MayFollow(told', events'[1])
    BY <1>1, <1>2 DEF EventsInOrder
  <1>4. ASSUME NEW i \in 1..(Len(events') - 1)
        PROVE  MayFollow(events'[i], events'[i + 1])
    <2>1. i + 1 \in 1..(Len(events) - 1) /\ i \in 1..Len(events') /\ i + 1 \in 1..Len(events')
      BY <1>1
    <2>2. events'[i] = events[i + 1] /\ events'[i + 1] = events[(i + 1) + 1]
      BY <1>1, <2>1
    <2> QED
      BY <2>1, <2>2 DEF EventsInOrder
  <1> QED
    BY <1>1, <1>3, <1>4 DEF EventsInOrder

LEMMA StepInOrder ==
    Inv /\ EventsInOrder /\ [Next]_vars
        => EventsInOrder' /\ (told' = told \/ MayFollow(told, told'))
  <1> SUFFICES ASSUME Inv, EventsInOrder, [Next]_vars
               PROVE  EventsInOrder' /\ (told' = told \/ MayFollow(told, told'))
    OBVIOUS
  <1>1. events \in Seq(ShownStates) /\ EventsFollow
    BY DEF Inv, TypeOK
  <1>2. CASE HandleTunnelEvent
    BY <1>1, <1>2, ReadInOrder DEF HandleTunnelEvent
  <1>3. CASE TakeCommand \/ MachineStep
    <2>1. Show /\ told' = told
      BY <1>3 DEF TakeCommand, MachineStep, serviceVars
    <2>2. shown' = shown \/ MayFollow(shown, shown')
      BY <1>3, AdvanceInOrder DEF TakeCommand, MachineStep, lifecycleVars
    <2> QED
      BY <1>1, <2>1, <2>2, ShownInOrder
  <1>4. CASE UNCHANGED <<events, told>>
    BY <1>4 DEF EventsInOrder
  <1>5. \/ HandleTunnelEvent \/ TakeCommand \/ MachineStep
        \/ UNCHANGED <<events, told>>
    BY DEF Next, SetTargetState, ReconnectTunnel, ChangeConfig, UpdateTunnelSettings, ChangeKeys,
       KeysChanged, Shutdown, MachineJoined, Exit, vars, serviceVars, channels
  <1> QED
    BY <1>2, <1>3, <1>4, <1>5

(* However many events are under way, clients are told of Connected after  *)
(* Connecting only, of Disconnecting where there was something to take     *)
(* down, and never of Disconnected straight after Connected                *)
(* (handle_tunnel_event, and the drain of the events at shutdown).         *)
THEOREM ToldInOrder == Spec => [][told' = told \/ MayFollow(told, told')]_vars
  <1>1. Init => EventsInOrder
    BY DEF Init, EventsInOrder
  <1>2. Spec => []EventsInOrder
    BY <1>1, ServiceInvariant, StepInOrder, PTL DEF Spec
  <1> QED
    BY <1>2, ServiceInvariant, StepInOrder, PTL DEF Spec

=============================================================================
