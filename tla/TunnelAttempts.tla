---------------------------- MODULE TunnelAttempts ----------------------------
(***************************************************************************)
(* Proofs about an attempt to connect, in TunnelStateMachine: the monitor  *)
(* runs ahead of the state machine, which learns of it from the events that*)
(* are queued, and may give the attempt up in between.  Proved are NoPanic,*)
(* ConnectedIsComplete, FirewallBeforeDial, ProgressMonotone and           *)
(* SelectionStaysFresh.                                                    *)
(*                                                                         *)
(* The invariant is AInv, beside that of TunnelPolicies.  Every handler is *)
(* shown to do what Goes says: to keep AInv, not to take progress back, and*)
(* to hold no selection that was made for other settings.                  *)
(***************************************************************************)
EXTENDS TunnelPolicies

-----------------------------------------------------------------------------
(***************************************************************************)
(* The invariant of an attempt to connect.  What the machine knows of the  *)
(* monitor is in the events it has not handled yet: they come in the order *)
(* the stages send them, and what an event is to change (the selection, the*)
(* policy, the proxy) is as the monitor has it once no such event is left. *)
(***************************************************************************)

(* The place of an event, or of the progress it publishes, in an attempt.  *)
Order ==
    [ ResolvingApiAddresses |-> 0, AwaitingAccountReadiness |-> 1,
      RefreshingGateways |-> 2, SelectingGateways |-> 3, SelectedGateways |-> 4,
      RegisteringWithGateways |-> 5, RegisteredWithGateways |-> 6,
      ConnectingTunnel |-> 6, InterfaceUp |-> 7, Up |-> 8,
      ConnectionFailed |-> 9, Down |-> 10 ]

(* The last event that a stage can have been preceded by.                  *)
Level ==
    [ Idle |-> 0, Starting |-> 0, AwaitingAccount |-> 1, RefreshingGateways |-> 2,
      Selecting |-> 3, AwaitingSelectedReply |-> 4, Registering |-> 5,
      AwaitingRegisteredReply |-> 6, StartingTunnel |-> 6, RoutesSet |-> 6,
      AwaitingInterfaceReply |-> 7, Probing |-> 7, Up |-> 8, ShuttingDown |-> 9,
      AwaitingDownReply |-> 10, Done |-> 10 ]

Queued(kind) == \E i \in 1..Len(events) : events[i].kind = kind

(* The tunnel is on its way, past the events up to n, or was up before Up  *)
(* is handled.                                                             *)
Reached(n) ==
    \/ n <= Level[monitor.stage] /\ Level[monitor.stage] <= 8
    \/ Queued("Up")

(* Events are heard exactly where a handler waits for them.                *)
Heard ==
    /\ listening <=> In("Connecting") \/ In("Connected")
    /\ ~listening => events = <<>>
    /\ NoPanic

InOrder ==
    /\ \A i, j \in 1..Len(events) :
        i < j => Order[events[i].kind] < Order[events[j].kind]
    /\ \A i \in 1..Len(events) : Order[events[i].kind] <= Level[monitor.stage]

(* A selection that is still queued was made for the settings in force.    *)
SelectionQueued ==
    \A i \in 1..Len(events) :
        events[i].kind = "SelectedGateways" =>
            /\ events[i].gateways = monitor.gateways
            /\ events[i].gateways = shared.settings.point

(* The monitor waits for the reply to an event until it is handled.        *)
Answered ==
    \/ ReplyMayTimeOut
    \/ \A i \in 1..Len(events) :
        events[i].kind \in DOMAIN ReplyStage =>
            monitor.stage = ReplyStage[events[i].kind] /\ ~monitor.replied

(* What is published is behind what is queued and what is to come.         *)
Behind ==
    /\ published.name = "Connecting" <=> In("Connecting")
    /\ In("Connecting") =>
        /\ published.detail \in Steps
        /\ Order[published.detail] <= Level[monitor.stage]
        /\ \A i \in 1..Len(events) :
            Order[published.detail] < Order[events[i].kind]

(* What the handlers of the events that were handled have set up.          *)
Attempt ==
    In("Connecting") =>
        /\ ~HasHandle => shared.firewall.entry = state.gateways
        /\ HasHandle /\ ~Queued("SelectedGateways") =>
            /\ shared.firewall.entry = monitor.gateways
            /\ Reached(0) => state.gateways = monitor.gateways
        /\ Reached(4) => monitor.gateways # NoGateways
        /\ Reached(6) /\ ~Queued("RegisteredWithGateways") => shared.firewall.peer
        /\ Reached(7) \/ monitor.stage = "RoutesSet" => routes
        /\ Reached(7) /\ ~Queued("InterfaceUp") =>
            shared.firewall.tunnel /\ shared.socks5

Success ==
    In("Connected") =>
        /\ Level[monitor.stage] >= 8
        /\ shared.firewall.peer /\ shared.firewall.tunnel
        /\ ConnectedIsComplete

AInv ==
    Heard /\ InOrder /\ SelectionQueued /\ Answered /\ Behind /\ Attempt /\ Success

(* The values of Order and Level, and their range.                         *)
LEMMA Orders ==
    /\ Order["ResolvingApiAddresses"] = 0
    /\ Order["AwaitingAccountReadiness"] = 1
    /\ Order["RefreshingGateways"] = 2
    /\ Order["SelectingGateways"] = 3
    /\ Order["SelectedGateways"] = 4
    /\ Order["RegisteringWithGateways"] = 5
    /\ Order["RegisteredWithGateways"] = 6
    /\ Order["ConnectingTunnel"] = 6
    /\ Order["InterfaceUp"] = 7
    /\ Order["Up"] = 8
    /\ Order["ConnectionFailed"] = 9
    /\ Order["Down"] = 10
BY DEF Order

LEMMA Levels ==
    /\ Level["Idle"] = 0 /\ Level["Starting"] = 0
    /\ Level["AwaitingAccount"] = 1
    /\ Level["RefreshingGateways"] = 2
    /\ Level["Selecting"] = 3
    /\ Level["AwaitingSelectedReply"] = 4
    /\ Level["Registering"] = 5
    /\ Level["AwaitingRegisteredReply"] = 6
    /\ Level["StartingTunnel"] = 6 /\ Level["RoutesSet"] = 6
    /\ Level["AwaitingInterfaceReply"] = 7 /\ Level["Probing"] = 7
    /\ Level["Up"] = 8
    /\ Level["ShuttingDown"] = 9
    /\ Level["AwaitingDownReply"] = 10 /\ Level["Done"] = 10
BY DEF Level

LEMMA Numbers ==
    /\ \A kind \in EventKinds \cup Steps : Order[kind] \in Nat
    /\ \A stage \in Stages : Level[stage] \in Nat
<1>1. \A kind \in EventKinds \cup Steps : Order[kind] \in Nat
  BY Orders DEF EventKinds, Steps, ReplyStage
<1>2. \A stage \in Stages : Level[stage] \in Nat
  BY Levels DEF Stages
<1> QED BY <1>1, <1>2

(* The events in the queue.                                                *)
LEMMA QueueParts ==
    ASSUME Inv
    PROVE  /\ events \in Seq(Event) /\ Len(events) \in Nat
           /\ monitor \in Monitor
           /\ monitor.stage \in Stages /\ monitor.gateways \in MaybeGateways
           /\ monitor.replied \in BOOLEAN
           /\ Level[monitor.stage] \in Nat
           /\ \A i \in 1..Len(events) :
                /\ events[i] \in Event
                /\ events[i].kind \in EventKinds
                /\ Order[events[i].kind] \in Nat
<1>1. events \in Seq(Event) /\ monitor \in Monitor
  BY DEF Inv, TypeOK, MonitorTypeOK
<1>2. \A i \in 1..Len(events) : events[i] \in Event
  BY <1>1
<1>3. \A event \in Event : event.kind \in EventKinds /\ Order[event.kind] \in Nat
  BY Numbers DEF Event
<1>4. /\ monitor.stage \in Stages /\ monitor.gateways \in MaybeGateways
      /\ monitor.replied \in BOOLEAN
  BY <1>1 DEF Monitor
<1> QED BY <1>1, <1>2, <1>3, <1>4, Numbers

(* The same of the queue that a step leaves.                               *)
LEMMA NextQueueParts ==
    ASSUME Inv'
    PROVE  /\ events' \in Seq(Event) /\ Len(events') \in Nat
           /\ monitor' \in Monitor
           /\ monitor'.stage \in Stages /\ monitor'.gateways \in MaybeGateways
           /\ Level[monitor'.stage] \in Nat
           /\ \A i \in 1..Len(events') :
                /\ events'[i] \in Event
                /\ events'[i].kind \in EventKinds
                /\ Order[events'[i].kind] \in Nat
<1>1. events' \in Seq(Event) /\ monitor' \in Monitor
  BY DEF Inv, TypeOK, MonitorTypeOK
<1>2. \A i \in 1..Len(events') : events'[i] \in Event
  BY <1>1
<1>3. \A event \in Event : event.kind \in EventKinds /\ Order[event.kind] \in Nat
  BY Numbers DEF Event
<1>4. monitor'.stage \in Stages /\ monitor'.gateways \in MaybeGateways
  BY <1>1 DEF Monitor
<1> QED BY <1>1, <1>2, <1>3, <1>4, Numbers

(* An event that the order allows now is queued after the others, and it   *)
(* is the only one of its kind.                                            *)
LEMMA SendKeepsOrder ==
    ASSUME Inv, AInv, NEW event \in Event, Send(event),
           monitor' \in Monitor,
           Level[monitor.stage] < Order[event.kind],
           Order[event.kind] <= Level[monitor'.stage]
    PROVE  /\ InOrder'
           /\ \A kind : Queued(kind)' <=> Queued(kind) \/ (listening /\ kind = event.kind)
           /\ \A i \in 1..Len(events)' :
                \/ events'[i] = event /\ listening
                \/ i \in 1..Len(events) /\ events'[i] = events[i]
<1>1. events \in Seq(Event) /\ Len(events) \in Nat /\ InOrder
  BY QueueParts DEF AInv
<1>2. /\ Order[event.kind] \in Nat /\ Level[monitor.stage] \in Nat
      /\ Level[monitor'.stage] \in Nat
      /\ \A i \in 1..Len(events) : Order[events[i].kind] \in Nat
  <2>1. event.kind \in EventKinds /\ monitor'.stage \in Stages
    BY DEF Event, Monitor
  <2> QED BY <2>1, QueueParts, Numbers
<1>3. CASE ~listening
  <2>1. events = <<>> /\ events' = <<>>
    BY <1>3 DEF Send, AInv, Heard
  <2> QED BY <1>3, <2>1 DEF InOrder, Queued
<1>4. CASE listening
  <2>1. events' = Append(events, event)
    BY <1>4 DEF Send
  <2>2. /\ Len(events') = Len(events) + 1 /\ Len(events) \in Nat
        /\ events'[Len(events) + 1] = event
        /\ \A i \in 1..Len(events) : events'[i] = events[i]
    BY <1>1, <2>1
  <2>3. \A i \in 1..Len(events') :
            \/ events'[i] = event /\ i = Len(events) + 1
            \/ i \in 1..Len(events) /\ events'[i] = events[i]
    BY <2>2
  <2>4. InOrder'
    <3>1. ASSUME NEW i \in 1..Len(events'), NEW j \in 1..Len(events'), i < j
          PROVE  Order[events'[i].kind] < Order[events'[j].kind]
      <4>1. i \in 1..Len(events) /\ events'[i] = events[i]
        BY <2>2, <3>1
      <4>2. Order[events[i].kind] <= Level[monitor.stage]
        BY <1>1, <4>1 DEF InOrder
      <4>3. CASE j \in 1..Len(events)
        BY <1>1, <2>2, <3>1, <4>1, <4>3 DEF InOrder
      <4>4. CASE j = Len(events) + 1
        BY <1>2, <2>2, <4>1, <4>2, <4>4
      <4> QED BY <2>2, <4>3, <4>4
    <3>2. ASSUME NEW i \in 1..Len(events')
          PROVE  Order[events'[i].kind] <= Level[monitor'.stage]
      <4>1. CASE events'[i] = event
        BY <4>1
      <4>2. CASE i \in 1..Len(events) /\ events'[i] = events[i]
        <5>1. Order[events[i].kind] <= Level[monitor.stage]
          BY <1>1, <4>2 DEF InOrder
        <5> QED BY <1>2, <4>2, <5>1
      <4> QED BY <2>3, <4>1, <4>2
    <3> QED BY <3>1, <3>2 DEF InOrder
  <2>5. \A kind : Queued(kind)' <=> Queued(kind) \/ kind = event.kind
    BY <2>2, <2>3 DEF Queued
  <2> QED BY <1>4, <2>3, <2>4, <2>5
<1> QED BY <1>3, <1>4

-----------------------------------------------------------------------------
(* Steps of the monitor.                                                   *)

(* What a step of the monitor does to an attempt: it goes on, keeps what it*)
(* queued, and announces each stage that a handler has to know of.         *)
Announces ==
    /\ monitor' \in Monitor
    /\ UNCHANGED listening
    /\ Level[monitor.stage] <= Level[monitor'.stage]
    /\ routes => routes'
    /\ monitor'.stage = "RoutesSet" => routes'
    /\ \/ monitor'.gateways = monitor.gateways
       \/ /\ Level[monitor'.stage] = 4 /\ monitor'.gateways # NoGateways
          /\ listening => Queued("SelectedGateways")'
    /\ ~listening => events' = <<>>
    /\ \A kind : Queued(kind) => Queued(kind)'
    /\ \A i \in 1..Len(events') :
        \/ Level[monitor.stage] < Order[events'[i].kind]
        \/ i \in 1..Len(events) /\ events'[i] = events[i]
    /\ Level[monitor.stage] < 4 /\ 4 <= Level[monitor'.stage] =>
        Level[monitor'.stage] > 8 \/ monitor'.gateways # NoGateways
    /\ Level[monitor.stage] < 6 /\ 6 <= Level[monitor'.stage] =>
        \/ Level[monitor'.stage] > 8
        \/ ~listening \/ Queued("RegisteredWithGateways")'
    /\ Level[monitor.stage] < 7 /\ 7 <= Level[monitor'.stage] =>
        \/ Level[monitor'.stage] > 8
        \/ monitor.stage = "RoutesSet" /\ (~listening \/ Queued("InterfaceUp")')
    /\ Queued("Up")' =>
        \/ Queued("Up")
        \/ 7 <= Level[monitor.stage] /\ Level[monitor.stage] <= 8
    /\ InOrder' /\ SelectionQueued' /\ Answered'

(* Such a step keeps the invariant.                                        *)
LEMMA AnnouncesKeeps ==
    ASSUME Inv, AInv, Inv', Announces, UNCHANGED machineVars
    PROVE  AInv'
<1>1. /\ state' = state /\ shared' = shared /\ published' = published
      /\ listening' = listening
  BY DEF machineVars, Announces
<1> DEFINE level == Level[monitor.stage]
           next == Level[monitor'.stage]
<1>2. level \in Nat /\ next \in Nat /\ level <= next
  BY QueueParts, NextQueueParts DEF Announces
<1>3. Heard'
  BY <1>1 DEF AInv, Heard, NoPanic, In, Announces
<1>4. Behind'
  <2>1. ASSUME In("Connecting")
        PROVE  /\ Order[published.detail] \in Nat
               /\ Order[published.detail] <= level
               /\ \A i \in 1..Len(events') :
                    Order[published.detail] < Order[events'[i].kind]
    <3>1. Order[published.detail] \in Nat /\ Order[published.detail] <= level
      BY <2>1, Numbers DEF AInv, Behind
    <3>2. ASSUME NEW i \in 1..Len(events')
          PROVE  Order[published.detail] < Order[events'[i].kind]
      <4>1. CASE level < Order[events'[i].kind]
        BY <1>2, <3>1, <4>1, NextQueueParts
      <4>2. CASE i \in 1..Len(events) /\ events'[i] = events[i]
        BY <2>1, <4>2 DEF AInv, Behind
      <4> QED BY <4>1, <4>2 DEF Announces
    <3> QED BY <3>1, <3>2
  <2> HIDE DEF level, next
  <2>2. next = Level[monitor'.stage]
    BY DEF next
  <2> QED BY <1>1, <1>2, <2>1, <2>2 DEF AInv, Behind, In
<1>5. \A n \in 0..7 : Reached(n)' => Reached(n) \/ (level < n /\ n <= next /\ next <= 8)
  <2> SUFFICES ASSUME NEW n \in 0..7, Reached(n)'
               PROVE  Reached(n) \/ (level < n /\ n <= next /\ next <= 8)
    OBVIOUS
  <2>1. CASE Queued("Up")'
    BY <1>2, <2>1 DEF Announces, Reached
  <2>2. CASE n <= next /\ next <= 8
    BY <1>2, <2>2 DEF Reached
  <2> QED BY <2>1, <2>2 DEF Reached
<1>6. Attempt'
  <2> SUFFICES ASSUME In("Connecting")
               PROVE  Attempt'
    BY <1>1 DEF Attempt, In
  <2>1. /\ listening
        /\ HasHandle' <=> HasHandle
    BY <1>1 DEF AInv, Heard, HasHandle
  <2>2. Attempt!2
    BY DEF AInv, Attempt
  <2>3. ~HasHandle => shared.firewall.entry = state.gateways
    BY <2>2
  <2>4. HasHandle /\ ~Queued("SelectedGateways")' =>
            /\ shared.firewall.entry = monitor'.gateways
            /\ Reached(0)' => state.gateways = monitor'.gateways
    <3>1. Reached(0)' => Reached(0)
      BY <1>2, <1>5
    <3> QED BY <2>1, <2>2, <3>1 DEF Announces
  <2>5. Reached(4)' => monitor'.gateways # NoGateways
    BY <1>2, <1>5, <2>1, <2>2 DEF Announces
  <2>6. Reached(6)' /\ ~Queued("RegisteredWithGateways")' => shared.firewall.peer
    BY <1>2, <1>5, <2>1, <2>2 DEF Announces
  <2>7. Reached(7)' \/ monitor'.stage = "RoutesSet" => routes'
    <3>1. Reached(7)' => Reached(7) \/ monitor.stage = "RoutesSet"
      BY <1>2, <1>5 DEF Announces
    <3>2. Reached(7) \/ monitor.stage = "RoutesSet" => routes
      BY <2>2
    <3> QED BY <3>1, <3>2 DEF Announces
  <2>8. Reached(7)' /\ ~Queued("InterfaceUp")' => shared.firewall.tunnel /\ shared.socks5
    BY <1>2, <1>5, <2>1, <2>2 DEF Announces
  <2> QED BY <1>1, <2>1, <2>3, <2>4, <2>5, <2>6, <2>7, <2>8 DEF Attempt
<1>7. Success'
  BY <1>1, <1>2 DEF AInv, Success, ConnectedIsComplete, In, Announces
<1> QED BY <1>3, <1>4, <1>6, <1>7 DEF AInv, Announces

ReplyStages == {ReplyStage[kind] : kind \in DOMAIN ReplyStage}

(* A wait for a reply does not end before the event was handled.           *)
LEMMA NoneAwaited ==
    ASSUME AInv, monitor.stage \in ReplyStages => ReplyReceived
    PROVE  \/ ReplyMayTimeOut
           \/ \A i \in 1..Len(events) : events[i].kind \notin DOMAIN ReplyStage
<1> SUFFICES ASSUME ~ReplyMayTimeOut, NEW i \in 1..Len(events),
                    events[i].kind \in DOMAIN ReplyStage
             PROVE  FALSE
  OBVIOUS
<1>1. monitor.stage = ReplyStage[events[i].kind] /\ ~monitor.replied
  BY DEF AInv, Answered
<1> QED BY <1>1 DEF ReplyStages, ReplyReceived

(* The task goes on without an event.                                      *)
LEMMA QuietAnnounces ==
    ASSUME Inv, AInv, Inv', NEW to \in Stages, MonitorGoes(to),
           UNCHANGED <<events, listening, shared>>,
           monitor.stage \in ReplyStages => ReplyReceived,
           routes => routes', to = "RoutesSet" => routes',
           \/ Level[to] = Level[monitor.stage]
           \/ 7 <= Level[monitor.stage] /\ Level[monitor.stage] <= Level[to]
    PROVE  Announces
<1>1. /\ monitor' \in Monitor /\ monitor'.stage = to
      /\ monitor'.gateways = monitor.gateways
  BY QueueParts, NextQueueParts DEF MonitorGoes, Monitor
<1>2. Level[monitor.stage] \in Nat /\ Level[to] \in Nat
  BY QueueParts, Numbers
<1>3. \A kind : Queued(kind)' <=> Queued(kind)
  BY DEF Queued
<1>4. InOrder'
  <2>1. InOrder
    BY DEF AInv
  <2>2. \A i \in 1..Len(events) : Order[events[i].kind] \in Nat
    BY QueueParts
  <2> QED BY <1>1, <1>2, <2>1, <2>2 DEF InOrder
<1>5. Answered'
  BY NoneAwaited DEF Answered
<1>6. SelectionQueued'
  BY <1>1 DEF AInv, SelectionQueued
<1>7. ~listening => events' = <<>>
  BY DEF AInv, Heard
<1> QED BY <1>1, <1>2, <1>3, <1>4, <1>5, <1>6, <1>7 DEF Announces
(* An event comes after the stage left, and the stage it leads to after it.*)
Follows(event, to) ==
    /\ event \in Event /\ to \in Stages /\ to # "RoutesSet"
    /\ Level[monitor.stage] < Order[event.kind] /\ Order[event.kind] <= Level[to]
    /\ event.kind # "SelectedGateways"
    /\ event.kind \in DOMAIN ReplyStage => to = ReplyStage[event.kind]
    /\ event.kind = "Up" => 7 <= Level[monitor.stage]
    /\ \/ Level[to] > 8 \/ Level[to] < 4 \/ 4 <= Level[monitor.stage]
       \/ monitor.gateways # NoGateways
    /\ \/ Level[to] > 8 \/ Level[to] < 6 \/ 6 <= Level[monitor.stage]
       \/ event.kind = "RegisteredWithGateways"
    /\ \/ Level[to] > 8 \/ Level[to] < 7 \/ 7 <= Level[monitor.stage]
       \/ monitor.stage = "RoutesSet" /\ event.kind = "InterfaceUp"

(* The task goes on with an event.                                         *)
LEMMA ReportAnnounces ==
    ASSUME Inv, AInv, Inv', NEW event, NEW to, Follows(event, to),
           Send(event), MonitorGoes(to), UNCHANGED <<listening, shared>>,
           monitor.stage \in ReplyStages => ReplyReceived, routes => routes'
    PROVE  Announces
<1> USE DEF Follows
<1>1. /\ monitor' \in Monitor /\ monitor'.stage = to
      /\ monitor'.gateways = monitor.gateways /\ monitor'.replied = ~listening
  BY QueueParts, NextQueueParts DEF MonitorGoes, Monitor
<1>2. /\ Level[monitor.stage] \in Nat /\ Level[to] \in Nat /\ Order[event.kind] \in Nat
      /\ event.kind \in EventKinds
  BY QueueParts, Numbers DEF Event
<1>3. /\ InOrder'
      /\ \A kind : Queued(kind)' <=> Queued(kind) \/ (listening /\ kind = event.kind)
      /\ \A i \in 1..Len(events') :
            \/ events'[i] = event /\ listening
            \/ i \in 1..Len(events) /\ events'[i] = events[i]
  BY <1>1, SendKeepsOrder
<1>4. Answered'
  BY <1>1, <1>3, NoneAwaited DEF Answered
<1>5. SelectionQueued'
  BY <1>1, <1>3 DEF AInv, SelectionQueued
<1>6. ~listening => events' = <<>>
  BY DEF AInv, Heard, Send
<1>7. Level[monitor.stage] <= Level[to] /\ (event.kind = "Up" => Level[monitor.stage] <= 8)
  BY <1>2, Orders
<1> QED BY <1>1, <1>2, <1>3, <1>4, <1>5, <1>6, <1>7 DEF Announces

(* The gateways selected are announced, with the settings they are for.    *)
LEMMA SelectionAnnounces ==
    ASSUME Inv, AInv, Inv', UNCHANGED shared, GatewaysSelected(shared.settings.point)
    PROVE  Announces
<1> DEFINE point == shared.settings.point
           event == [Plain("SelectedGateways") EXCEPT !.gateways = point]
<1>1. point \in Points
  BY SharedParts DEF Inv, TypeOK, Settings
<1>2. point \in MaybeGateways /\ point # NoGateways
  BY <1>1, PointsAssumption DEF MaybeGateways
<1>3. event \in Event /\ event.kind = "SelectedGateways" /\ event.gateways = point
  BY <1>2, EventTypes DEF Plain
<1>4. /\ Send(event) /\ UNCHANGED <<listening, routes>> /\ monitor.stage = "Selecting"
      /\ monitor'.stage = "AwaitingSelectedReply" /\ monitor'.gateways = point
      /\ monitor'.replied = ~listening /\ monitor' \in Monitor
  BY QueueParts, NextQueueParts DEF GatewaysSelected, Monitor
<1> HIDE DEF event, point
<1>5. /\ Level[monitor.stage] = 3 /\ Level[monitor'.stage] = 4 /\ Order[event.kind] = 4
  BY <1>3, <1>4, Levels, Orders
<1>6. /\ InOrder'
      /\ \A kind : Queued(kind)' <=> Queued(kind) \/ (listening /\ kind = event.kind)
      /\ \A i \in 1..Len(events') :
            \/ events'[i] = event /\ listening
            \/ i \in 1..Len(events) /\ events'[i] = events[i]
  BY <1>3, <1>4, <1>5, SendKeepsOrder
<1>7. Answered'
  <2>1. monitor.stage \notin ReplyStages
    BY <1>4 DEF ReplyStages, ReplyStage
  <2>2. ReplyStage["SelectedGateways"] = "AwaitingSelectedReply"
    BY DEF ReplyStage
  <2> QED BY <1>3, <1>4, <1>6, <2>1, <2>2, NoneAwaited DEF Answered
<1>8. SelectionQueued'
  <2>1. \A i \in 1..Len(events) : events[i].kind # "SelectedGateways"
    BY <1>5, Orders DEF AInv, InOrder
  <2> QED BY <1>3, <1>4, <1>6, <2>1 DEF SelectionQueued, point
<1>9. ~listening => events' = <<>>
  BY <1>4 DEF AInv, Heard, Send
<1> QED BY <1>2, <1>3, <1>4, <1>5, <1>6, <1>7, <1>8, <1>9 DEF Announces

(* A stage that fails announces it.                                        *)
LEMMA FailAnnounces ==
    ASSUME Inv, AInv, Inv', UNCHANGED shared, NEW stage \in Stages, Level[stage] <= 9,
           stage \in ReplyStages => ReplyReceived,
           NEW withReason \in BOOLEAN, Fail(stage, withReason)
    PROVE  Announces
<1> DEFINE event == [Plain("Down") EXCEPT !.error = withReason]
<1>1. event \in Event /\ event.kind = "Down"
  BY EventTypes DEF Plain
<1>2. /\ monitor.stage = stage /\ Send(event) /\ MonitorGoes("AwaitingDownReply")
      /\ UNCHANGED <<listening, routes>>
  BY DEF Fail, Report
<1> HIDE DEF event
<1>3. /\ Order[event.kind] = 10 /\ Level["AwaitingDownReply"] = 10
      /\ Level[monitor.stage] \in Nat /\ Level[monitor.stage] < 10
  BY <1>1, <1>2, Orders, Levels, QueueParts
<1>4. /\ "AwaitingDownReply" \in Stages /\ "AwaitingDownReply" # "RoutesSet"
      /\ ReplyStage["Down"] = "AwaitingDownReply"
  BY DEF Stages, ReplyStage
<1>5. Follows(event, "AwaitingDownReply")
  BY <1>1, <1>3, <1>4 DEF Follows
<1> QED BY <1>2, <1>5, ReportAnnounces

(* A stage that waits for no reply can fail.                               *)
LEMMA CancellableFails ==
    ASSUME Inv, AInv, Inv', UNCHANGED shared,
           NEW stage \in CancellableStages
                \cup {"Starting", "RefreshingGateways", "StartingTunnel", "RoutesSet"},
           NEW withReason \in BOOLEAN, Fail(stage, withReason)
    PROVE  Announces
<1>1. stage \in Stages /\ Level[stage] <= 9 /\ stage \notin ReplyStages
  BY Levels DEF CancellableStages, Stages, ReplyStages, ReplyStage
<1> QED BY <1>1, FailAnnounces

(* The steps the task takes by itself.                                     *)
LEMMA ProgressAnnounces ==
    ASSUME Inv, AInv, Inv', UNCHANGED shared, MonitorProgress
    PROVE  Announces
<1> USE Orders, Levels
<1>1. CASE Ipv6Checked
  <2>1. Report("Starting", Plain("AwaitingAccountReadiness"), "AwaitingAccount")
    BY <1>1 DEF Ipv6Checked
  <2>2. Follows(Plain("AwaitingAccountReadiness"), "AwaitingAccount")
    BY <2>1, EventTypes DEF Report, Follows, Stages, ReplyStage, Plain
  <2> QED BY <1>1, <2>1, <2>2, ReportAnnounces DEF Report, ReplyStages, ReplyStage
<1>2. CASE GatewayClientReplaced
  <2>1. CASE monitor.gateways = NoGateways
    <3>1. Report("RefreshingGateways", Plain("SelectingGateways"), "Selecting")
      BY <1>2, <2>1 DEF GatewayClientReplaced
    <3>2. Follows(Plain("SelectingGateways"), "Selecting")
      BY <3>1, EventTypes DEF Report, Follows, Stages, ReplyStage, Plain
    <3> QED BY <3>1, <3>2, ReportAnnounces DEF Report, ReplyStages, ReplyStage
  <2>2. CASE monitor.gateways # NoGateways
    <3>1. Report("RefreshingGateways", Plain("RegisteringWithGateways"), "Registering")
      BY <1>2, <2>2 DEF GatewayClientReplaced
    <3>2. Follows(Plain("RegisteringWithGateways"), "Registering")
      BY <2>2, <3>1, EventTypes DEF Report, Follows, Stages, ReplyStage, Plain
    <3> QED BY <3>1, <3>2, ReportAnnounces DEF Report, ReplyStages, ReplyStage
  <2> QED BY <2>1, <2>2
<1>3. CASE SelectedReply
  <2>1. Report("AwaitingSelectedReply", Plain("RegisteringWithGateways"), "Registering")
    BY <1>3 DEF SelectedReply
  <2>2. Follows(Plain("RegisteringWithGateways"), "Registering")
    BY <2>1, EventTypes DEF Report, Follows, Stages, ReplyStage, Plain
  <2> QED BY <1>3, <2>1, <2>2, ReportAnnounces DEF SelectedReply, Report, ReplyStages, ReplyStage
<1>4. CASE RegisteredReply
  BY <1>4, QuietAnnounces DEF RegisteredReply, Stages
<1>5. CASE RoutesAdded
  BY <1>5, QuietAnnounces DEF RoutesAdded, Stages, ReplyStages, ReplyStage
<1>6. CASE TunnelStarted
  <2>1. Report("RoutesSet", Plain("InterfaceUp"), "AwaitingInterfaceReply")
    BY <1>6 DEF TunnelStarted
  <2>2. Follows(Plain("InterfaceUp"), "AwaitingInterfaceReply")
    BY <2>1, EventTypes DEF Report, Follows, Stages, ReplyStage, Plain
  <2> QED BY <1>6, <2>1, <2>2, ReportAnnounces DEF Report, ReplyStages, ReplyStage
<1>7. CASE InterfaceReply
  BY <1>7, QuietAnnounces DEF InterfaceReply, Stages
<1>8. CASE TunnelClosed
  <2>1. Report("ShuttingDown", Plain("Down"), "AwaitingDownReply")
    BY <1>8 DEF TunnelClosed
  <2>2. Follows(Plain("Down"), "AwaitingDownReply")
    BY <2>1, EventTypes DEF Report, Follows, Stages, ReplyStage, Plain
  <2> QED BY <1>8, <2>1, <2>2, ReportAnnounces DEF Report, ReplyStages, ReplyStage
<1>9. CASE DownReply
  BY <1>9, QuietAnnounces DEF DownReply, Stages
<1>10. CASE Cancelled
  <2>1. PICK stage \in CancellableStages : Fail(stage, FALSE)
    BY <1>10 DEF Cancelled
  <2> QED BY <2>1, CancellableFails
<1>11. CASE LoopLeft
  BY <1>11, QuietAnnounces DEF LoopLeft, Stages, ReplyStages, ReplyStage
<1> QED BY <1>1, <1>2, <1>3, <1>4, <1>5, <1>6, <1>7, <1>8, <1>9, <1>10, <1>11
        DEF MonitorProgress

(* The steps it takes with its surroundings.                               *)
LEMMA OutcomeAnnounces ==
    ASSUME Inv, AInv, Inv', UNCHANGED shared, MonitorOutcome(shared.settings.point)
    PROVE  Announces
<1> USE Orders, Levels
<1>1. CASE AccountReady
  <2>1. Report("AwaitingAccount", Plain("RefreshingGateways"), "RefreshingGateways")
    BY <1>1 DEF AccountReady
  <2>2. Follows(Plain("RefreshingGateways"), "RefreshingGateways")
    BY <2>1, EventTypes DEF Report, Follows, Stages, ReplyStage, Plain
  <2> QED BY <1>1, <2>1, <2>2, ReportAnnounces DEF Report, ReplyStages, ReplyStage
<1>2. CASE GatewaysSelected(shared.settings.point)
  BY <1>2, SelectionAnnounces
<1>3. CASE Registered
  <2>1. Report("Registering", Plain("RegisteredWithGateways"), "AwaitingRegisteredReply")
    BY <1>3 DEF Registered
  <2>2. Follows(Plain("RegisteredWithGateways"), "AwaitingRegisteredReply")
    BY <2>1, EventTypes DEF Report, Follows, Stages, ReplyStage, Plain
  <2> QED BY <1>3, <2>1, <2>2, ReportAnnounces DEF Report, ReplyStages, ReplyStage
<1>4. CASE ConnectionViable
  <2>1. Report("Probing", Plain("Up"), "Up")
    BY <1>4 DEF ConnectionViable
  <2>2. Follows(Plain("Up"), "Up")
    BY <2>1, EventTypes DEF Report, Follows, Stages, ReplyStage, Plain
  <2> QED BY <1>4, <2>1, <2>2, ReportAnnounces DEF Report, ReplyStages, ReplyStage
<1>5. CASE ConnectionLost
  <2>1. PICK stage \in {"Probing", "Up"} :
            Report(stage, Plain("ConnectionFailed"), "ShuttingDown")
    BY <1>5 DEF ConnectionLost
  <2>2. Follows(Plain("ConnectionFailed"), "ShuttingDown")
    BY <2>1, EventTypes DEF Report, Follows, Stages, ReplyStage, Plain
  <2> QED BY <2>1, <2>2, ReportAnnounces DEF Report, ReplyStages, ReplyStage
<1>6. CASE LoopLeft
  BY <1>6, QuietAnnounces DEF LoopLeft, Stages, ReplyStages, ReplyStage
<1>7. CASE StageFailed
  <2>1. PICK stage \in CancellableStages
                        \cup {"Starting", "RefreshingGateways", "StartingTunnel", "RoutesSet"},
             withReason \in BOOLEAN : Fail(stage, withReason)
    BY <1>7 DEF StageFailed
  <2> QED BY <2>1, CancellableFails
<1>8. CASE RoutesFailed
  <2> DEFINE event == [Plain("Down") EXCEPT !.error = TRUE]
  <2>1. event \in Event /\ event.kind = "Down"
    BY EventTypes DEF Plain
  <2>2. /\ monitor.stage = "StartingTunnel" /\ routes' = TRUE /\ UNCHANGED listening
        /\ Send(event) /\ MonitorGoes("AwaitingDownReply")
    BY <1>8 DEF RoutesFailed
  <2> HIDE DEF event
  <2>3. Follows(event, "AwaitingDownReply")
    BY <2>1, <2>2 DEF Follows, Stages, ReplyStage
  <2> QED BY <2>2, <2>3, ReportAnnounces DEF ReplyStages, ReplyStage
<1>9. CASE ProbeFailed
  <2>1. Fail("AwaitingInterfaceReply", TRUE) /\ ReplyReceived
    BY <1>9 DEF ProbeFailed
  <2>2. "AwaitingInterfaceReply" \in Stages /\ Level["AwaitingInterfaceReply"] <= 9
    BY DEF Stages
  <2> QED BY <2>1, <2>2, FailAnnounces
<1> QED BY <1>1, <1>2, <1>3, <1>4, <1>5, <1>6, <1>7, <1>8, <1>9 DEF MonitorOutcome

LEMMA MonitorTaskKeeps ==
    ASSUME Inv, AInv, Inv', MonitorTask
    PROVE  AInv'
<1>1. UNCHANGED <<machineVars, shared>> /\ MonitorStep(shared.settings.point)
  BY DEF MonitorTask, machineVars
<1>2. Announces
  BY <1>1, ProgressAnnounces, OutcomeAnnounces DEF MonitorStep
<1> QED BY <1>1, <1>2, AnnouncesKeeps

-----------------------------------------------------------------------------
(* What the `enter` functions leave of an attempt.                         *)

(* The selection a state holds: Selection of a single state.               *)
Chosen(st) ==
    CASE st.name \in {"Connecting", "Connected", "Offline"} -> st.gateways
      [] st.name = "Disconnecting" /\ st.after.kind = "Offline" -> st.after.gateways
      [] OTHER -> NoGateways

(* An outcome that begins no attempt, or one from its beginning, and that  *)
(* holds no other selection than `gateways`.                               *)
Fresh(r, settings, gateways) ==
    /\ r.state.name \in {"Disconnected", "Error", "Offline", "Connecting", "Disconnecting"}
    /\ r.state.name = "Connecting" =>
        r.state.phase = "Delay" /\ r.shared.firewall.entry = r.state.gateways
    /\ r.shared.settings = settings
    /\ Chosen(r.state) \in {NoGateways, gateways}

AllFresh(outcomes, settings, gateways) ==
    \A r \in outcomes : Fresh(r, settings, gateways)

(* The states built hold the selection they are given.                     *)
LEMMA ChosenStates ==
    /\ \A name \in {"Disconnected", "Error", "Finished"} : Chosen(Simple(name)) = NoGateways
    /\ \A reconnect, gateways : Chosen(OfflineState(reconnect, gateways)) = gateways
    /\ \A retry, gateways : Chosen(ConnectingState(retry, gateways)) = gateways
    /\ \A gateways : Chosen(ConnectedState(gateways)) = gateways
    /\ \A after : Chosen(DisconnectingState(after)) =
                    IF after.kind = "Offline" THEN after.gateways ELSE NoGateways
BY DEF Chosen, Simple, OfflineState, ConnectingState, ConnectedState, DisconnectingState

(* A firewall operation leaves the proxy and the blacklist alone.          *)
LEMMA FirewallLeaves ==
    ASSUME NEW p \in Policy, NEW s \in Shared, NEW t \in SetFirewall(p, s)
    PROVE  t.socks5 = s.socks5 /\ t.blacklist = s.blacklist /\ t.dns = s.dns
BY DEF SetFirewall, Shared

(* So does DNS; either its operation fails, or the servers are in force.   *)
LEMMA DnsLeaves ==
    ASSUME NEW servers \in {"Default", "Tunnel"}, NEW s \in Shared, NEW t \in SetDns(servers, s)
    PROVE  /\ t.socks5 = s.socks5 /\ t.blacklist = s.blacklist /\ t.firewall = s.firewall
           /\ ~DnsFault(t) => t.dns = servers
<1>1. \/ t = [s EXCEPT !.dns = servers, !.faults = @ \ {"dns"}]
      \/ t = [s EXCEPT !.faults = @ \cup {"dns"}]
  BY DEF SetDns
<1>2. CASE t = [s EXCEPT !.dns = servers, !.faults = @ \ {"dns"}]
  BY <1>2 DEF Shared
<1>3. CASE t = [s EXCEPT !.faults = @ \cup {"dns"}]
  <2>1. t.faults = s.faults \cup {"dns"}
    BY <1>3 DEF Shared
  <2> QED BY <1>3, <2>1 DEF Shared, DnsFault
<1> QED BY <1>1, <1>2, <1>3

LEMMA EnterDisconnectedFresh ==
    ASSUME NEW s \in Shared, NEW gateways
    PROVE  AllFresh(EnterDisconnected(s), s.settings, gateways)
<1> DEFINE Left(t) == [AllowNetworking(t) EXCEPT !.preresolve = FALSE, !.geo = TRUE,
                                                 !.socks5 = FALSE]
<1> SUFFICES ASSUME NEW r \in EnterDisconnected(s)
             PROVE  Fresh(r, s.settings, gateways)
  BY DEF AllFresh
<1>1. PICK d \in ResetDns(s) :
        \E t \in SetFirewall(NoPolicy, d) : r = Outcome(Simple("Disconnected"), Left(t))
  BY DEF EnterDisconnected
<1>2. PICK t \in SetFirewall(NoPolicy, d) : r = Outcome(Simple("Disconnected"), Left(t))
  BY <1>1
<1>3. t \in Shared /\ t.settings = s.settings
  BY ResetDnsEffect, FirewallEffect, PolicyTypes
<1>4. Left(t).settings = t.settings
  BY <1>3 DEF AllowNetworking, Shared
<1>5. r.state = Simple("Disconnected") /\ r.shared = Left(t)
  BY <1>2 DEF Outcome
<1> HIDE DEF Left
<1> QED BY <1>3, <1>4, <1>5, ChosenStates DEF Fresh, Simple

LEMMA EnterErrorFresh ==
    ASSUME NEW s \in Shared, NEW gateways
    PROVE  AllFresh(EnterError(s), s.settings, gateways)
<1> SUFFICES ASSUME NEW t \in SetFirewall(BlockedPolicy(s.settings.lan), DisallowNetworking(s))
             PROVE  Fresh(Outcome(Simple("Error"), [t EXCEPT !.socks5 = FALSE]),
                          s.settings, gateways)
  BY DEF EnterError, AllFresh
<1>1. t \in Shared /\ t.settings = s.settings
  BY DisallowEffect, FirewallEffect, PolicyTypes, SharedParts
<1>2. [t EXCEPT !.socks5 = FALSE].settings = s.settings
  BY <1>1 DEF Shared
<1> QED BY <1>2, ChosenStates DEF Fresh, Simple, Outcome

LEMMA EnterOfflineFresh ==
    ASSUME NEW s \in Shared, NEW reconnect, NEW chosen, NEW gateways \in {NoGateways, chosen}
    PROVE  AllFresh(EnterOffline(reconnect, gateways, s), s.settings, chosen)
<1> SUFFICES ASSUME NEW t \in SetFirewall(BlockedPolicy(s.settings.lan), DisallowNetworking(s))
             PROVE  Fresh(Outcome(OfflineState(reconnect, gateways), t), s.settings, chosen)
  BY DEF EnterOffline, AllFresh
<1>1. t.settings = s.settings
  BY DisallowEffect, FirewallEffect, PolicyTypes, SharedParts
<1>2. OfflineState(reconnect, gateways).name = "Offline"
  BY DEF OfflineState
<1> QED BY <1>1, <1>2, ChosenStates DEF Fresh, Outcome

(* Connecting begins with the policy for the gateways it is given.         *)
LEMMA EnterConnectingFresh ==
    ASSUME NEW s \in Shared, NEW retry, NEW chosen,
           NEW gateways \in MaybeGateways, gateways \in {NoGateways, chosen}
    PROVE  AllFresh(EnterConnecting(retry, gateways, s), s.settings, chosen)
<1> DEFINE d == DisallowNetworking(s)
           policy == ConnectingPolicy(s.settings.lan, gateways)
<1>1. d \in Shared /\ d.settings = s.settings
  BY DisallowEffect
<1>2. policy \in Policy /\ policy.entry = gateways
  BY PolicyTypes, SharedParts DEF ConnectingPolicy, NoPolicy
<1>3. AllFresh(EnterOffline(TRUE, gateways, d), s.settings, chosen)
  BY <1>1, EnterOfflineFresh
<1>4. ASSUME NEW t \in SetFirewall(policy, d)
      PROVE  AllFresh(IF FirewallFault(t)
                      THEN EnterError(t)
                      ELSE {Outcome(ConnectingState(retry, gateways), t)},
                      s.settings, chosen)
  <2> HIDE DEF d, policy
  <2>1. /\ t \in Shared /\ t.settings = s.settings
        /\ ~FirewallFault(t) => t.firewall.entry = gateways
    BY <1>1, <1>2, FirewallEffect
  <2>2. AllFresh(EnterError(t), s.settings, chosen)
    BY <2>1, EnterErrorFresh
  <2>3. /\ ConnectingState(retry, gateways).name = "Connecting"
        /\ ConnectingState(retry, gateways).phase = "Delay"
        /\ ConnectingState(retry, gateways).gateways = gateways
    BY DEF ConnectingState
  <2>4. ~FirewallFault(t) =>
            AllFresh({Outcome(ConnectingState(retry, gateways), t)}, s.settings, chosen)
    BY <2>1, <2>3, ChosenStates DEF AllFresh, Fresh, Outcome
  <2> QED BY <2>2, <2>4
<1> SUFFICES ASSUME NEW r \in EnterConnecting(retry, gateways, s)
             PROVE  Fresh(r, s.settings, chosen)
  BY DEF AllFresh
<1>5. CASE IsOffline
  BY <1>3, <1>5 DEF EnterConnecting, AllFresh
<1>6. CASE ~IsOffline
  <2>1. PICK t \in SetFirewall(policy, d) :
            r \in IF FirewallFault(t)
                  THEN EnterError(t)
                  ELSE {Outcome(ConnectingState(retry, gateways), t)}
    BY <1>6 DEF EnterConnecting
  <2> HIDE DEF d, policy
  <2> QED BY <1>4, <2>1 DEF AllFresh
<1> QED BY <1>5, <1>6

LEMMA OnDisconnectFresh ==
    ASSUME NEW s \in Shared, NEW after \in After, NEW chosen,
           after.kind = "Offline" => after.gateways \in {NoGateways, chosen}
    PROVE  AllFresh(OnDisconnect(after, s), s.settings, chosen)
<1>1. after.kind \in {"Nothing", "Exit", "Error", "Reconnect", "Offline"}
  BY DEF After
<1>2. NoGateways \in MaybeGateways
  BY DEF MaybeGateways
<1> QED
  BY <1>1, <1>2, EnterDisconnectedFresh, EnterErrorFresh, EnterConnectingFresh,
     EnterOfflineFresh DEF OnDisconnect

LEMMA EnterDisconnectingFresh ==
    ASSUME NEW s \in Shared, NEW after \in After, NEW hasMonitor \in BOOLEAN, NEW chosen,
           after.kind = "Offline" => after.gateways \in {NoGateways, chosen}
    PROVE  AllFresh(EnterDisconnecting(after, hasMonitor, s), s.settings, chosen)
<1> DEFINE d == DisallowNetworking(s)
<1>1. d \in Shared /\ d.settings = s.settings
  BY DisallowEffect
<1>2. AllFresh(OnDisconnect(after, d), s.settings, chosen)
  BY <1>1, OnDisconnectFresh
<1>3. DisconnectingState(after).name = "Disconnecting"
  BY DEF DisconnectingState
<1>4. AllFresh({Outcome(DisconnectingState(after), d)}, s.settings, chosen)
  BY <1>1, <1>3, ChosenStates DEF AllFresh, Fresh, Outcome
<1> QED BY <1>2, <1>4 DEF EnterDisconnecting, AllFresh

(* Connected is entered with its policy and its DNS servers, or not at all.*)
LEMMA EnterConnectedComplete ==
    ASSUME NEW s \in Shared, NEW gateways \in MaybeGateways, NEW r \in EnterConnected(gateways, s)
    PROVE  IF r.state.name = "Connected"
           THEN /\ r.state = ConnectedState(gateways)
                /\ r.shared.firewall = ConnectedPolicy(s.settings.lan, gateways)
                /\ r.shared.dns = "Tunnel"
                /\ r.shared.settings = s.settings
                /\ r.shared.socks5 = s.socks5
                /\ r.shared.blacklist = s.blacklist
           ELSE Fresh(r, s.settings, NoGateways)
<1> DEFINE policy == ConnectedPolicy(s.settings.lan, gateways)
<1>1. policy \in Policy
  BY PolicyTypes, SharedParts
<1> HIDE DEF policy
<1> DEFINE entered(t) == IF FirewallFault(t) \/ DnsFault(t)
                         THEN EnterDisconnecting(ToError, TRUE, t)
                         ELSE {Outcome(ConnectedState(gateways), t)}
           applied(f) == IF FirewallFault(f) THEN {f} ELSE SetDns("Tunnel", f)
<1> HIDE DEF entered, applied
<1>0. PICK f \in SetFirewall(policy, s) : \E t \in applied(f) : r \in entered(t)
  BY DEF EnterConnected, policy, entered, applied
<1>2. PICK t \in applied(f) : r \in entered(t)
  BY <1>0
<1> USE DEF entered, applied
<1>3. /\ f \in Shared /\ f.settings = s.settings
      /\ f.socks5 = s.socks5 /\ f.blacklist = s.blacklist
      /\ ~FirewallFault(f) => f.firewall = policy
  BY <1>1, FirewallEffect, FirewallLeaves
<1>4. t \in Shared /\ t.settings = s.settings
  BY <1>2, <1>3, DnsOutcome
<1>5. CASE FirewallFault(t) \/ DnsFault(t)
  <2>1. r \in EnterDisconnecting(ToError, TRUE, t)
    BY <1>2, <1>5
  <2>2. AllFresh(EnterDisconnecting(ToError, TRUE, t), s.settings, NoGateways)
    BY <1>4, EnterDisconnectingFresh, AfterMakers
  <2>3. Fresh(r, s.settings, NoGateways)
    BY <2>1, <2>2 DEF AllFresh
  <2> QED BY <2>3 DEF Fresh
<1>6. CASE ~FirewallFault(t) /\ ~DnsFault(t)
  <2>1. r.state = ConnectedState(gateways) /\ r.shared = t
    <3>1. entered(t) = {Outcome(ConnectedState(gateways), t)}
      BY <1>6
    <3>2. r = Outcome(ConnectedState(gateways), t)
      BY <1>2, <3>1
    <3> QED BY <3>2 DEF Outcome
  <2>2. ~FirewallFault(f) /\ t \in SetDns("Tunnel", f)
    BY <1>2, <1>6
  <2> HIDE DEF applied, entered
  <2>3. /\ t.firewall = f.firewall /\ t.dns = "Tunnel"
        /\ t.socks5 = f.socks5 /\ t.blacklist = f.blacklist
    BY <1>3, <1>6, <2>2, DnsLeaves
  <2>4. ConnectedState(gateways).name = "Connected"
    BY DEF ConnectedState
  <2> QED BY <1>3, <1>4, <2>1, <2>2, <2>3, <2>4 DEF policy
<1> QED BY <1>5, <1>6

-----------------------------------------------------------------------------
(* The ways a handler goes on with an attempt.                             *)

Forward ==
    published.name = "Connecting" /\ published'.name = "Connecting"
    /\ published'.detail # "ResolvingApiAddresses"
    => Rank[published.detail] <= Rank[published'.detail]

(* What a selection has to be fresh for, to stay so.                       *)
StillFresh == SelectionFresh /\ ~(In("Disconnecting") /\ shared'.settings # shared.settings)

(* What every step does: it keeps the invariant and the action properties. *)
Goes == AInv' /\ Forward /\ (StillFresh => SelectionFresh')

(* What the steps start from.                                              *)
QInv == PInv /\ AInv

LEMMA QInvParts ==
    ASSUME QInv
    PROVE  PInv /\ Inv /\ AInv /\ Selection = Chosen(state)
BY DEF QInv, PInv, Selection, Chosen, In

(* A state without an attempt, which nobody listens in.                    *)
LEMMA ElsewhereKeeps ==
    ASSUME state'.name \notin {"Connecting", "Connected", "Panicked"},
           published'.name # "Connecting", events' = <<>>, listening' = FALSE
    PROVE  AInv' /\ Forward
<1>1. Len(events') = 0
  OBVIOUS
<1> QED
  BY <1>1 DEF AInv, Heard, InOrder, SelectionQueued, Answered, Behind, Attempt, Success,
              ConnectedIsComplete, NoPanic, In, Forward

(* A state just entered.                                                   *)
LEMMA NewStateGoes ==
    ASSUME Inv', NEW outcomes, NEW m, NewState(outcomes, m), NEW settings, NEW chosen,
           AllFresh(outcomes, settings, chosen),
           StillFresh => chosen \in {NoGateways, settings.point}
    PROVE  Goes
<1>1. PICK r \in outcomes :
        /\ state' = r.state
        /\ shared' = r.shared
        /\ published' = Published(r.state)
        /\ monitor' = m
        /\ events' = <<>>
        /\ listening' = (r.state.name = "Connecting")
  BY DEF NewState
<1>2. Fresh(r, settings, chosen)
  BY DEF AllFresh
<1>3. /\ published'.name = state'.name
      /\ state'.name = "Connecting" => published'.detail = "ResolvingApiAddresses"
  BY <1>1 DEF Published
<1>4. Forward
  BY <1>3 DEF Forward
<1>5. AInv'
  <2>1. CASE state'.name # "Connecting"
    BY <1>1, <1>2, <1>3, <2>1, ElsewhereKeeps DEF Fresh
  <2>2. CASE state'.name = "Connecting"
    <3>1. state'.phase = "Delay" /\ shared'.firewall.entry = state'.gateways
      BY <1>1, <1>2, <2>2 DEF Fresh
    <3>2. monitor'.stage = "Idle"
      BY <2>2, <3>1 DEF Inv, MonitorRuns, Holds
    <3>3. /\ Level[monitor'.stage] = 0 /\ Order["ResolvingApiAddresses"] = 0
          /\ "ResolvingApiAddresses" \in Steps
      BY <3>2, Levels, Orders DEF Steps
    <3>4. Len(events') = 0 /\ events' = <<>> /\ listening' = TRUE
      BY <1>1, <2>2
    <3>5. \A n \in {4, 6, 7} : ~Reached(n)'
      BY <3>3, <3>4 DEF Reached, Queued
    <3>6. Heard' /\ InOrder' /\ SelectionQueued' /\ Answered' /\ Success'
      BY <2>2, <3>4 DEF Heard, InOrder, SelectionQueued, Answered, Success, NoPanic, In
    <3>7. Behind'
      BY <1>3, <2>2, <3>3, <3>4 DEF Behind, In
    <3>8. Attempt'
      BY <2>2, <3>1, <3>2, <3>5 DEF Attempt, HasHandle
    <3> QED BY <3>6, <3>7, <3>8 DEF AInv
  <2> QED BY <2>1, <2>2
<1>6. StillFresh => SelectionFresh'
  <2>1. Selection' = Chosen(state')
    BY DEF Selection, Chosen, In
  <2>2. shared'.settings = settings /\ Chosen(state') \in {NoGateways, chosen}
    BY <1>1, <1>2 DEF Fresh
  <2> QED BY <2>1, <2>2 DEF SelectionFresh
<1> QED BY <1>4, <1>5, <1>6 DEF Goes

(* Most handlers keep the settings, and at most the selection.             *)
LEMMA EnterGoes ==
    ASSUME QInv, Inv', NEW outcomes, NEW m, NewState(outcomes, m), NEW chosen,
           chosen \in {NoGateways, Selection},
           AllFresh(outcomes, shared.settings, chosen)
    PROVE  Goes
<1>1. StillFresh => chosen \in {NoGateways, shared.settings.point}
  BY DEF StillFresh, SelectionFresh
<1> QED BY <1>1, NewStateGoes

(* The machine and its monitor stay what they are, but for settings that do*)
(* not matter to the attempt.                                              *)
LEMMA KeptGoes ==
    ASSUME QInv, UNCHANGED <<published, monitorVars>>,
           state'.name = state.name, Chosen(state') = Chosen(state),
           In("Connecting") =>
            state'.gateways = state.gateways /\ (HasHandle' <=> HasHandle),
           In("Connected") => state'.gateways = state.gateways,
           shared'.firewall.entry = shared.firewall.entry,
           shared'.firewall.peer = shared.firewall.peer,
           shared'.firewall.tunnel = shared.firewall.tunnel,
           shared'.socks5 = shared.socks5, shared'.dns = shared.dns,
           shared'.blacklist = shared.blacklist,
           shared'.settings.point = shared.settings.point
    PROVE  Goes
<1>1. /\ published' = published /\ monitor' = monitor /\ events' = events
      /\ listening' = listening /\ routes' = routes
  BY DEF monitorVars
<1>2. Forward
  <2>1. ASSUME published.name = "Connecting"
        PROVE  Rank[published.detail] \in Nat
    <3>1. published.detail \in Steps
      BY <2>1 DEF QInv, AInv, Behind
    <3> QED BY <3>1 DEF Rank, Steps
  <2> QED BY <1>1, <2>1 DEF Forward
<1>3. StillFresh => SelectionFresh'
  <2>1. Selection' = Chosen(state') /\ Selection = Chosen(state)
    BY QInvParts DEF Selection, Chosen, In
  <2> QED BY <2>1 DEF StillFresh, SelectionFresh
<1>4. /\ \A kind : Queued(kind)' <=> Queued(kind)
      /\ \A n : Reached(n)' <=> Reached(n)
  BY <1>1 DEF Queued, Reached
<1>5. \A name : In(name)' <=> In(name)
  BY DEF In
<1>6. Heard' /\ InOrder' /\ SelectionQueued' /\ Answered' /\ Behind'
  BY <1>1, <1>5 DEF QInv, AInv, Heard, InOrder, SelectionQueued, Answered, Behind, NoPanic
<1>7. Attempt'
  BY <1>1, <1>4, <1>5 DEF QInv, AInv, Attempt
<1>8. Success'
  BY <1>1, <1>5 DEF QInv, AInv, Success, ConnectedIsComplete
<1> QED BY <1>2, <1>3, <1>6, <1>7, <1>8 DEF Goes, AInv

(* Nothing of the machine changes.                                         *)
LEMMA SameGoes ==
    ASSUME QInv, UNCHANGED <<state, shared, published, monitorVars>>
    PROVE  Goes
BY KeptGoes DEF HasHandle

(* Leaving Connecting and Connected.                                       *)
LEMMA ConnectingDisconnectGoes ==
    ASSUME QInv, Inv', NEW s \in Shared, NEW after \in After, NEW chosen,
           after.kind = "Offline" => after.gateways \in {NoGateways, chosen},
           StillFresh => chosen \in {NoGateways, s.settings.point},
           ConnectingDisconnect(after, s)
    PROVE  Goes
<1>1. HasHandle \in BOOLEAN
  BY QInvParts, PInvParts
<1>2. AllFresh(EnterDisconnecting(after, HasHandle, s), s.settings, chosen)
  BY <1>1, EnterDisconnectingFresh
<1> QED BY <1>2, NewStateGoes DEF ConnectingDisconnect

LEMMA ConnectedDisconnectGoes ==
    ASSUME QInv, Inv', NEW s \in Shared, NEW after \in After, NEW chosen,
           after.kind = "Offline" => after.gateways \in {NoGateways, chosen},
           StillFresh => chosen \in {NoGateways, s.settings.point},
           ConnectedDisconnect(after, s)
    PROVE  Goes
<1>1. \A t \in ResetDns(s) :
        AllFresh(EnterDisconnecting(after, TRUE, t), s.settings, chosen)
  BY ResetDnsEffect, EnterDisconnectingFresh
<1>2. AllFresh(UNION {EnterDisconnecting(after, TRUE, t) : t \in ResetDns(s)},
               s.settings, chosen)
  BY <1>1 DEF AllFresh
<1> QED BY <1>2, NewStateGoes DEF ConnectedDisconnect

(* What follows Disconnecting is changed in place; it keeps a selection, or*)
(* holds none.                                                             *)
LEMMA AfterwardsGoes ==
    ASSUME QInv, In("Disconnecting"), NEW after,
           after.kind = "Offline" => after.gateways = Selection,
           Afterwards(after)
    PROVE  Goes
<1>1. state \in [name : {"Disconnecting"}, after : After]
  BY QInvParts, PInvParts, StateParts DEF In
<1>2. state' = DisconnectingState(after) /\ UNCHANGED <<shared, published, monitorVars>>
  BY <1>1 DEF Afterwards, SameState, DisconnectingState
<1>3. AInv' /\ Forward
  <2>1. listening = FALSE /\ events = <<>> /\ published.name # "Connecting"
    BY QInvParts DEF AInv, Heard, Behind, In
  <2>2. state'.name = "Disconnecting"
    BY <1>2 DEF DisconnectingState
  <2> QED BY <1>2, <2>1, <2>2, ElsewhereKeeps DEF monitorVars
<1>4. StillFresh => SelectionFresh'
  <2>1. Selection' = Chosen(state')
    BY DEF Selection, Chosen, In
  <2>2. Selection' \in {NoGateways, Selection}
    BY <1>2, <2>1, ChosenStates
  <2> QED BY <1>2, <2>2 DEF StillFresh, SelectionFresh
<1> QED BY <1>3, <1>4 DEF Goes

(* Offline's flag is changed in place.                                     *)
LEMMA OfflineReconnectsGoes ==
    ASSUME QInv, In("Offline"), NEW reconnect, OfflineReconnects(reconnect)
    PROVE  Goes
<1>1. state \in [name : {"Offline"}, reconnect : BOOLEAN, gateways : MaybeGateways]
  BY QInvParts, PInvParts, StateParts DEF In
<1>2. /\ state' = OfflineState(reconnect, state.gateways)
      /\ UNCHANGED <<shared, monitorVars>>
      /\ published' = published \/ published'.name = "Offline"
  BY <1>1 DEF OfflineReconnects, OfflineState, Published
<1>3. AInv' /\ Forward
  <2>1. listening = FALSE /\ events = <<>> /\ published.name # "Connecting"
    BY QInvParts DEF AInv, Heard, Behind, In
  <2>2. state'.name = "Offline"
    BY <1>2 DEF OfflineState
  <2> QED BY <1>2, <2>1, <2>2, ElsewhereKeeps DEF monitorVars
<1>4. StillFresh => SelectionFresh'
  <2>1. Selection' = Chosen(state') /\ Selection = state.gateways
    BY DEF Selection, Chosen, In
  <2>2. Selection' = Selection
    BY <1>2, <2>1, ChosenStates
  <2> QED BY <1>2, <2>2 DEF StillFresh, SelectionFresh
<1> QED BY <1>3, <1>4 DEF Goes

(* The settings of a state without a tunnel are changed in place.          *)
LEMMA SettledGoes ==
    ASSUME QInv, NEW name \in {"Disconnected", "Disconnecting", "Error", "Offline"},
           In(name), In(name)', UNCHANGED <<published, monitorVars>>,
           StillFresh => SelectionFresh'
    PROVE  Goes
<1>1. listening = FALSE /\ events = <<>> /\ published.name # "Connecting"
  BY QInvParts DEF AInv, Heard, Behind, In
<1> QED BY <1>1, ElsewhereKeeps DEF Goes, In, monitorVars

-----------------------------------------------------------------------------
(* Commands, connectivity and shutdown.                                    *)

LEMMA SelectionParts ==
    ASSUME QInv
    PROVE  /\ In("Connecting") \/ In("Connected") \/ In("Offline") =>
                state.gateways = Selection /\ state.gateways \in MaybeGateways
           /\ In("Disconnecting") /\ state.after.kind = "Offline" =>
                state.after.gateways = Selection
           /\ StillFresh => Selection \in {NoGateways, shared.settings.point}
           /\ state \in State /\ shared \in Shared /\ NoGateways \in MaybeGateways
<1>1. PInv
  BY QInvParts
<1> QED BY <1>1, PInvParts DEF Selection, StillFresh, SelectionFresh, In

LEMMA ConnectGoes ==
    ASSUME QInv, Inv', Connect
    PROVE  Goes
<1> USE SelectionParts, AfterMakers
<1>1. CASE ConnectInDisconnected
  BY <1>1, EnterConnectingFresh, EnterGoes DEF ConnectInDisconnected, Enter
<1>2. CASE ConnectInConnecting
  <2>1. CASE HasHandle
    BY <1>2, <2>1, ConnectingDisconnectGoes DEF ConnectInConnecting
  <2>2. CASE ~HasHandle
    BY <1>2, <2>2, EnterConnectingFresh, EnterGoes DEF ConnectInConnecting, Enter
  <2> QED BY <2>1, <2>2
<1>3. CASE ConnectInConnected
  BY <1>3, ConnectedDisconnectGoes DEF ConnectInConnected
<1>4. CASE ConnectInDisconnecting
  <2> DEFINE after == IF state.after.kind = "Offline"
                      THEN [state.after EXCEPT !.reconnect = TRUE]
                      ELSE Reconnect
  <2>1. In("Disconnecting") /\ Afterwards(after)
    BY <1>4 DEF ConnectInDisconnecting
  <2>2. after.kind = "Offline" => after.gateways = Selection
    <3>1. state.after \in After
      BY <2>1, StateParts DEF In
    <3> QED BY <2>1, <3>1, AfterParts
  <2> HIDE DEF after
  <2> QED BY <2>1, <2>2, AfterwardsGoes
<1>5. CASE ConnectInError
  <2> DEFINE left(t) == IF IsOffline
                        THEN EnterOffline(TRUE, NoGateways, t)
                        ELSE EnterConnecting(0, NoGateways, t)
  <2>1. \A t \in ResetDns(shared) : AllFresh(left(t), shared.settings, NoGateways)
    BY ResetDnsEffect, EnterOfflineFresh, EnterConnectingFresh
  <2>2. Enter(UNION {left(t) : t \in ResetDns(shared)})
    BY <1>5 DEF ConnectInError
  <2> HIDE DEF left
  <2>3. AllFresh(UNION {left(t) : t \in ResetDns(shared)}, shared.settings, NoGateways)
    BY <2>1 DEF AllFresh
  <2> QED BY <2>2, <2>3, EnterGoes DEF Enter
<1>6. CASE ConnectInOffline
  BY <1>6, OfflineReconnectsGoes DEF ConnectInOffline
<1> QED BY <1>1, <1>2, <1>3, <1>4, <1>5, <1>6 DEF Connect

LEMMA DisconnectGoes ==
    ASSUME QInv, Inv', Disconnect
    PROVE  Goes
<1> USE SelectionParts, AfterMakers
<1>1. CASE DisconnectInDisconnected
  BY <1>1, SameGoes DEF DisconnectInDisconnected, SameState
<1>2. CASE DisconnectInConnecting
  BY <1>2, ConnectingDisconnectGoes DEF DisconnectInConnecting
<1>3. CASE DisconnectInConnected
  BY <1>3, ConnectedDisconnectGoes DEF DisconnectInConnected
<1>4. CASE DisconnectInDisconnecting
  <2> DEFINE after == IF state.after.kind = "Offline"
                      THEN [state.after EXCEPT !.reconnect = FALSE]
                      ELSE Nothing
  <2>1. In("Disconnecting") /\ Afterwards(after)
    BY <1>4 DEF DisconnectInDisconnecting
  <2>2. after.kind = "Offline" => after.gateways = Selection
    <3>1. state.after \in After
      BY <2>1, StateParts DEF In
    <3> QED BY <2>1, <3>1, AfterParts
  <2> HIDE DEF after
  <2> QED BY <2>1, <2>2, AfterwardsGoes
<1>5. CASE DisconnectInError
  <2> DEFINE left(t) == IF IsOffline
                        THEN EnterOffline(FALSE, NoGateways, t)
                        ELSE EnterDisconnected(t)
  <2>1. \A t \in ResetDns(shared) : AllFresh(left(t), shared.settings, NoGateways)
    BY ResetDnsEffect, EnterOfflineFresh, EnterDisconnectedFresh
  <2>2. Enter(UNION {left(t) : t \in ResetDns(shared)})
    BY <1>5 DEF DisconnectInError
  <2> HIDE DEF left
  <2>3. AllFresh(UNION {left(t) : t \in ResetDns(shared)}, shared.settings, NoGateways)
    BY <2>1 DEF AllFresh
  <2> QED BY <2>2, <2>3, EnterGoes DEF Enter
<1>6. CASE DisconnectInOffline
  BY <1>6, OfflineReconnectsGoes DEF DisconnectInOffline
<1> QED BY <1>1, <1>2, <1>3, <1>4, <1>5, <1>6 DEF Disconnect

LEMMA BlockGoes ==
    ASSUME QInv, Inv', Block
    PROVE  Goes
<1> USE SelectionParts, AfterMakers
<1>1. CASE BlockInDisconnected
  BY <1>1, SameGoes DEF BlockInDisconnected, SameState
<1>2. CASE BlockInConnecting
  BY <1>2, ConnectingDisconnectGoes DEF BlockInConnecting
<1>3. CASE BlockInConnected
  BY <1>3, ConnectedDisconnectGoes DEF BlockInConnected
<1>4. CASE BlockInDisconnecting
  BY <1>4, AfterwardsGoes DEF BlockInDisconnecting
<1>5. CASE BlockInError \/ BlockInOffline
  BY <1>5, EnterErrorFresh, EnterGoes DEF BlockInError, BlockInOffline, Enter
<1> QED BY <1>1, <1>2, <1>3, <1>4, <1>5 DEF Block

LEMMA ConnectivityGoes ==
    ASSUME QInv, Inv', NEW isOnline \in BOOLEAN, ConnectivityChanged(isOnline)
    PROVE  Goes
<1> USE SelectionParts, AfterMakers
<1>1. CASE OnlineUnchanged(isOnline) \/ OfflineStaysOffline(isOnline)
  BY <1>1, SameGoes DEF OnlineUnchanged, OfflineStaysOffline, SameState
<1>2. CASE OfflineGetsOnline(isOnline)
  <2> DEFINE left(t) == IF state.reconnect
                        THEN EnterConnecting(0, state.gateways, t)
                        ELSE EnterDisconnected(t)
  <2>1. /\ In("Offline")
        /\ Enter(UNION {left(t) : t \in ResetDns(shared)})
    BY <1>2 DEF OfflineGetsOnline
  <2>2. \A t \in ResetDns(shared) : AllFresh(left(t), shared.settings, Selection)
    BY <2>1, ResetDnsEffect, EnterConnectingFresh, EnterDisconnectedFresh
  <2> HIDE DEF left
  <2>3. AllFresh(UNION {left(t) : t \in ResetDns(shared)}, shared.settings, Selection)
    BY <2>2 DEF AllFresh
  <2> QED BY <2>1, <2>3, EnterGoes DEF Enter
<1>3. CASE DisconnectedGetsOffline(isOnline)
  BY <1>3, EnterOfflineFresh, EnterGoes DEF DisconnectedGetsOffline, Enter
<1>4. CASE ConnectingGetsOffline(isOnline)
  BY <1>4, ConnectingDisconnectGoes DEF ConnectingGetsOffline
<1>5. CASE ConnectedGetsOffline(isOnline)
  BY <1>5, ConnectedDisconnectGoes DEF ConnectedGetsOffline
<1> QED BY <1>1, <1>2, <1>3, <1>4, <1>5 DEF ConnectivityChanged

(* Once finished, the machine holds no selection and hears nobody.         *)
LEMMA FinishGoes ==
    ASSUME QInv, In("Disconnected") \/ In("Error") \/ In("Offline"),
           NEW outcomes, Finish(outcomes)
    PROVE  Goes
<1>1. listening = FALSE /\ events = <<>> /\ published.name # "Connecting"
  BY QInvParts DEF AInv, Heard, Behind, In
<1>2. state' = Simple("Finished") /\ UNCHANGED <<published, monitorVars>>
  BY DEF Finish
<1>3. SelectionFresh'
  <2>1. Selection' = Chosen(state')
    BY DEF Selection, Chosen, In
  <2> QED BY <1>2, <2>1, ChosenStates DEF SelectionFresh
<1> QED BY <1>1, <1>2, <1>3, ElsewhereKeeps DEF Goes, Simple, monitorVars

LEMMA ShutdownGoes ==
    ASSUME QInv, Inv', ShutdownCancelled
    PROVE  Goes
<1> USE SelectionParts, AfterMakers
<1>1. CASE ShutdownInDisconnected \/ ShutdownInError \/ ShutdownInOffline
  BY <1>1, FinishGoes DEF ShutdownInDisconnected, ShutdownInError, ShutdownInOffline
<1>2. CASE ShutdownInConnecting
  BY <1>2, ConnectingDisconnectGoes DEF ShutdownInConnecting
<1>3. CASE ShutdownInConnected
  BY <1>3, ConnectedDisconnectGoes DEF ShutdownInConnected
<1>4. CASE ShutdownInDisconnecting
  BY <1>4, AfterwardsGoes DEF ShutdownInDisconnecting
<1> QED BY <1>1, <1>2, <1>3, <1>4 DEF ShutdownCancelled

(* Amended settings in Connecting and Connected change allow_lan in the    *)
(* policy, if anything in it.                                              *)
LEMMA SettingsLeave ==
    ASSUME QInv, In("Connecting") \/ In("Connected"), NEW new \in Settings,
           NEW s \in IF [shared.firewall EXCEPT !.lan = new.lan] # shared.firewall
                     THEN SetFirewall([shared.firewall EXCEPT !.lan = new.lan],
                                      [shared EXCEPT !.settings = new])
                     ELSE {[shared EXCEPT !.settings = new]}
    PROVE  /\ s \in Shared /\ s.settings = new
           /\ s.socks5 = shared.socks5 /\ s.blacklist = shared.blacklist
           /\ s.dns = shared.dns
           /\ ~FirewallFault(s) =>
                /\ s.firewall.entry = shared.firewall.entry
                /\ s.firewall.peer = shared.firewall.peer
                /\ s.firewall.tunnel = shared.firewall.tunnel
<1> DEFINE applied == [shared EXCEPT !.settings = new]
           policy == [shared.firewall EXCEPT !.lan = new.lan]
<1>1. /\ applied \in Shared /\ policy \in Policy
      /\ applied.settings = new /\ applied.firewall = shared.firewall
  BY QInvParts, PInvParts, AppliedSettings
<1>2. /\ applied.socks5 = shared.socks5 /\ applied.blacklist = shared.blacklist
      /\ applied.dns = shared.dns
  BY QInvParts, PInvParts DEF Shared
<1>3. /\ policy.entry = shared.firewall.entry /\ policy.peer = shared.firewall.peer
      /\ policy.tunnel = shared.firewall.tunnel
  BY QInvParts, PInvParts, SharedParts DEF Policy
<1>4. s \in IF policy # shared.firewall THEN SetFirewall(policy, applied) ELSE {applied}
  OBVIOUS
<1> HIDE DEF applied, policy
<1>5. CASE policy # shared.firewall
  <2>1. s \in SetFirewall(policy, applied)
    BY <1>4, <1>5
  <2>2. s \in Shared /\ s.settings = new /\ (~FirewallFault(s) => s.firewall = policy)
    BY <1>1, <2>1, FirewallEffect
  <2>3. s.socks5 = applied.socks5 /\ s.blacklist = applied.blacklist /\ s.dns = applied.dns
    BY <1>1, <2>1, FirewallLeaves
  <2> QED BY <1>2, <1>3, <2>2, <2>3
<1>6. CASE policy = shared.firewall
  BY <1>1, <1>2, <1>3, <1>4, <1>6
<1> QED BY <1>5, <1>6

(* The settings of states without a policy to amend.                       *)
LEMMA BlockedSettingsKeep ==
    ASSUME QInv, NEW new \in Settings, NEW s \in BlockedSettings(new)
    PROVE  s.settings = new
<1> DEFINE applied == [shared EXCEPT !.settings = new]
<1>1. applied \in Shared /\ applied.settings = new
  BY QInvParts, PInvParts, AppliedSettings
<1>2. BlockedPolicy(new.lan) \in Policy
  BY PolicyTypes DEF Settings
<1>3. s = applied \/ s \in SetFirewall(BlockedPolicy(new.lan), applied)
  BY DEF BlockedSettings
<1> HIDE DEF applied
<1> QED BY <1>1, <1>2, <1>3, FirewallEffect

LEMMA SettingsGoes ==
    ASSUME QInv, Inv', NEW new \in Settings, NEW other \in BOOLEAN,
           SetTunnelSettings(new, other)
    PROVE  Goes
<1> USE SelectionParts, AfterMakers
<1> DEFINE pointChanged == new.point # shared.settings.point
           shouldReconnect == pointChanged \/ other
           policy == [shared.firewall EXCEPT !.lan = new.lan]
           applied == [shared EXCEPT !.settings = new]
           amended == IF policy # shared.firewall THEN SetFirewall(policy, applied) ELSE {applied}
<1>1. CASE SettingsInDisconnected(new)
  <2>1. /\ In("Disconnected") /\ state' = state
        /\ UNCHANGED <<published, monitorVars>>
    BY <1>1 DEF SettingsInDisconnected, SameState
  <2>2. Selection' = NoGateways
    BY <2>1 DEF Selection, In
  <2> QED BY <2>1, <2>2, SettledGoes DEF SelectionFresh, In
<1>2. CASE SettingsInDisconnecting(new)
  <2>1. /\ In("Disconnecting") /\ state' = state /\ shared' = applied
        /\ UNCHANGED <<published, monitorVars>>
    BY <1>2 DEF SettingsInDisconnecting, SameState
  <2>2. StillFresh => SelectionFresh'
    <3>1. StillFresh => shared'.settings = shared.settings /\ SelectionFresh
      BY <2>1 DEF StillFresh
    <3>2. Selection' = Selection
      BY <2>1 DEF Selection, In
    <3> QED BY <3>1, <3>2 DEF SelectionFresh
  <2> QED BY <2>1, <2>2, SettledGoes DEF In
<1>3. CASE SettingsInError(new)
  <2>1. /\ In("Error") /\ state' = state /\ UNCHANGED <<published, monitorVars>>
    BY <1>3 DEF SettingsInError, SameState
  <2>2. Selection' = NoGateways
    BY <2>1 DEF Selection, In
  <2> QED BY <2>1, <2>2, SettledGoes DEF SelectionFresh, In
<1>4. CASE SettingsInOffline(new, pointChanged)
  <2>1. /\ In("Offline") /\ UNCHANGED <<published, monitorVars>>
        /\ state' = [state EXCEPT !.gateways = KeptGateways(pointChanged)]
        /\ shared' \in BlockedSettings(new)
    BY <1>4 DEF SettingsInOffline, SameState
  <2>2. state'.name = "Offline" /\ state'.gateways = KeptGateways(pointChanged)
    <3>1. state \in [name : {"Offline"}, reconnect : BOOLEAN, gateways : MaybeGateways]
      BY <2>1, StateParts DEF In
    <3> QED BY <2>1, <3>1
  <2>3. shared'.settings = new
    BY <2>1, BlockedSettingsKeep
  <2>4. StillFresh => SelectionFresh'
    <3>1. Selection' = KeptGateways(pointChanged)
      BY <2>2 DEF Selection, In
    <3> QED BY <2>1, <2>3, <3>1 DEF SelectionFresh, KeptGateways
  <2> QED BY <2>1, <2>2, <2>4, SettledGoes DEF In
<1>5. CASE SettingsInConnecting(new, pointChanged, shouldReconnect)
  <2>1. PICK s \in amended :
            IF FirewallFault(s)
            THEN ConnectingDisconnect(ToError, s)
            ELSE IF ~shouldReconnect
            THEN SameState(state, s)
            ELSE IF HasHandle
            THEN ConnectingDisconnect(Reconnect, s)
            ELSE Enter(EnterConnecting(state.retry, KeptGateways(pointChanged), s))
    BY <1>5 DEF SettingsInConnecting
  <2>2. In("Connecting")
    BY <1>5 DEF SettingsInConnecting
  <2>3. /\ s \in Shared /\ s.settings = new
        /\ s.socks5 = shared.socks5 /\ s.blacklist = shared.blacklist
        /\ s.dns = shared.dns
        /\ ~FirewallFault(s) =>
             /\ s.firewall.entry = shared.firewall.entry
             /\ s.firewall.peer = shared.firewall.peer
             /\ s.firewall.tunnel = shared.firewall.tunnel
    BY <2>2, SettingsLeave
  <2>4. /\ KeptGateways(pointChanged) \in MaybeGateways
        /\ StillFresh => KeptGateways(pointChanged) \in {NoGateways, new.point}
    BY <2>2 DEF KeptGateways
  <2>5. ~shouldReconnect => new.point = shared.settings.point
    OBVIOUS
  <2> HIDE DEF shouldReconnect, pointChanged, amended
  <2>6. CASE FirewallFault(s)
    BY <2>1, <2>3, <2>6, ConnectingDisconnectGoes
  <2>7. CASE ~FirewallFault(s) /\ ~shouldReconnect
    <3>1. SameState(state, s)
      BY <2>1, <2>7
    <3> QED BY <2>3, <2>5, <2>7, <3>1, KeptGoes DEF SameState, HasHandle
  <2>8. CASE ~FirewallFault(s) /\ shouldReconnect /\ HasHandle
    BY <2>1, <2>3, <2>8, ConnectingDisconnectGoes
  <2>9. CASE ~FirewallFault(s) /\ shouldReconnect /\ ~HasHandle
    <3>1. Enter(EnterConnecting(state.retry, KeptGateways(pointChanged), s))
      BY <2>1, <2>9
    <3>2. AllFresh(EnterConnecting(state.retry, KeptGateways(pointChanged), s),
                   new, KeptGateways(pointChanged))
      BY <2>3, <2>4, EnterConnectingFresh
    <3> QED BY <2>4, <3>1, <3>2, NewStateGoes DEF Enter
  <2> QED BY <2>6, <2>7, <2>8, <2>9
<1>6. CASE SettingsInConnected(new, shouldReconnect)
  <2>1. PICK s \in amended :
            IF FirewallFault(s)
            THEN ConnectedDisconnect(ToError, s)
            ELSE IF shouldReconnect
            THEN ConnectedDisconnect(Reconnect, s)
            ELSE SameState(state, s)
    BY <1>6 DEF SettingsInConnected
  <2>2. In("Connected")
    BY <1>6 DEF SettingsInConnected
  <2>3. /\ s \in Shared /\ s.settings = new
        /\ s.socks5 = shared.socks5 /\ s.blacklist = shared.blacklist
        /\ s.dns = shared.dns
        /\ ~FirewallFault(s) =>
             /\ s.firewall.entry = shared.firewall.entry
             /\ s.firewall.peer = shared.firewall.peer
             /\ s.firewall.tunnel = shared.firewall.tunnel
    BY <2>2, SettingsLeave
  <2>4. ~shouldReconnect => new.point = shared.settings.point
    OBVIOUS
  <2> HIDE DEF shouldReconnect, amended
  <2>5. CASE FirewallFault(s)
    BY <2>1, <2>3, <2>5, ConnectedDisconnectGoes
  <2>6. CASE ~FirewallFault(s) /\ shouldReconnect
    BY <2>1, <2>3, <2>6, ConnectedDisconnectGoes
  <2>7. CASE ~FirewallFault(s) /\ ~shouldReconnect
    <3>1. SameState(state, s)
      BY <2>1, <2>7
    <3> QED BY <2>3, <2>4, <2>7, <3>1, KeptGoes DEF SameState, HasHandle
  <2> QED BY <2>5, <2>6, <2>7
<1> QED BY <1>1, <1>2, <1>3, <1>4, <1>5, <1>6 DEF SetTunnelSettings

-----------------------------------------------------------------------------
(* Futures.                                                                *)

LEMMA RetryGoes ==
    ASSUME QInv, Inv', In("Connecting"), NEW s \in Shared, s.settings = shared.settings,
           NEW m, NewState(ConnectingReconnect(s), m)
    PROVE  Goes
<1>1. PICK attempt \in 0..MaxRetry, gateways \in MaybeGateways :
        ConnectingReconnect(s) = EnterConnecting(attempt, gateways, s)
        /\ gateways \in {NoGateways, state.gateways}
  BY QInvParts, PInvParts, ReconnectAttempt
<1> QED BY <1>1, SelectionParts, EnterConnectingFresh, EnterGoes

(* The futures of Connecting, and the end of Disconnecting.                *)
LEMMA FutureGoes ==
    ASSUME QInv, Inv', ReconnectDelayElapsed \/ ResolveFailed \/ Resolved \/ TombstoneJoined
    PROVE  Goes
<1> USE SelectionParts
<1>1. CASE ReconnectDelayElapsed
  <2>1. /\ In("Connecting") /\ state.phase = "Delay"
        /\ state' = [state EXCEPT !.phase = "Resolving"]
        /\ UNCHANGED <<shared, published, monitorVars>>
    BY <1>1 DEF ReconnectDelayElapsed, SameState
  <2>2. /\ state'.name = state.name /\ state'.gateways = state.gateways
        /\ state'.phase = "Resolving"
    <3>1. state \in ConnectingStates
      BY <2>1, StateParts DEF In
    <3> QED BY <2>1, <3>1 DEF ConnectingStates
  <2>3. Chosen(state') = Chosen(state)
    BY <2>1, <2>2 DEF Chosen, In
  <2> QED BY <2>1, <2>2, <2>3, KeptGoes DEF HasHandle, In
<1>2. CASE ResolveFailed
  BY <1>2, RetryGoes DEF ResolveFailed, Enter
<1>3. CASE Resolved
  <2> DEFINE policy == [shared.firewall EXCEPT !.api = TRUE]
             overridden == [shared EXCEPT !.preresolve = TRUE]
  <2>1. PICK s \in SetFirewall(policy, overridden) :
            \/ FirewallFault(s) /\ Enter(EnterError(s))
            \/ /\ ~FirewallFault(s)
               /\ state' = [state EXCEPT !.phase = "Monitoring"]
               /\ shared' = AllowNetworking(s)
               /\ monitor' = StartedMonitor(state.gateways)
               /\ UNCHANGED <<published, events, listening, routes>>
    BY <1>3 DEF Resolved
  <2>2. In("Connecting") /\ state.phase = "Resolving"
    BY <1>3 DEF Resolved
  <2>3. /\ overridden \in Shared /\ policy \in Policy
        /\ overridden.settings = shared.settings /\ overridden.socks5 = shared.socks5
        /\ policy.entry = shared.firewall.entry
    BY SharedParts DEF Shared, Policy
  <2> HIDE DEF policy, overridden
  <2>4. /\ s \in Shared /\ s.settings = shared.settings
        /\ ~FirewallFault(s) => s.firewall = policy
    BY <2>1, <2>3, FirewallEffect
  <2>5. CASE FirewallFault(s) /\ Enter(EnterError(s))
    BY <2>4, <2>5, EnterErrorFresh, EnterGoes DEF Enter
  <2>6. CASE /\ ~FirewallFault(s)
             /\ state' = [state EXCEPT !.phase = "Monitoring"]
             /\ shared' = AllowNetworking(s)
             /\ monitor' = StartedMonitor(state.gateways)
             /\ UNCHANGED <<published, events, listening, routes>>
    <3>1. /\ state'.name = "Connecting" /\ state'.gateways = state.gateways
          /\ state'.phase = "Monitoring"
      <4>1. state \in ConnectingStates
        BY <2>2, StateParts DEF In
      <4> QED BY <2>6, <4>1 DEF ConnectingStates
    <3>2. /\ shared'.settings = shared.settings
          /\ shared'.firewall.entry = shared.firewall.entry
      BY <2>3, <2>4, <2>6 DEF AllowNetworking, Shared
    <3>3. /\ events' = <<>> /\ events = <<>> /\ listening' /\ monitor.stage = "Idle"
          /\ shared.firewall.entry = state.gateways
      BY <2>2, <2>6, QInvParts
         DEF Inv, MonitorRuns, EventsOwned, Holds, AInv, Heard, Attempt, HasHandle, In
    <3>4. monitor'.stage = "Starting" /\ monitor'.gateways = state.gateways
      BY <2>6 DEF StartedMonitor, IdleMonitor
    <3>5. Level[monitor.stage] = 0 /\ Level[monitor'.stage] = 0 /\ Len(events') = 0
      BY <3>3, <3>4, Levels
    <3>6. \A n \in {4, 6, 7} : ~Reached(n)'
      BY <3>5 DEF Reached, Queued
    <3>7. /\ published' = published /\ published.name = "Connecting"
          /\ published.detail \in Steps
          /\ Order[published.detail] <= 0
      BY <2>2, <2>6, <3>5, QInvParts DEF AInv, Behind
    <3>8. Heard' /\ InOrder' /\ SelectionQueued' /\ Answered' /\ Success'
      BY <3>1, <3>3, <3>5
         DEF Heard, InOrder, SelectionQueued, Answered, Success, NoPanic, In
    <3>9. Behind'
      BY <3>1, <3>5, <3>7 DEF Behind, In
    <3>10. Attempt'
      BY <3>1, <3>2, <3>3, <3>4, <3>6 DEF Attempt, HasHandle
    <3>11. Forward
      <4>1. Rank[published.detail] \in Nat
        BY <3>7 DEF Rank, Steps
      <4> QED BY <3>7, <4>1 DEF Forward
    <3>12. StillFresh => SelectionFresh'
      BY <2>2, <3>1, <3>2 DEF StillFresh, SelectionFresh, Selection, In
    <3> QED BY <3>8, <3>9, <3>10, <3>11, <3>12 DEF Goes, AInv
  <2> QED BY <2>1, <2>5, <2>6
<1>4. CASE TombstoneJoined
  <2>1. In("Disconnecting") /\ NewState(OnDisconnect(state.after, shared), IdleMonitor)
    BY <1>4 DEF TombstoneJoined
  <2>2. state.after \in After
    BY <2>1, StateParts DEF In
  <2>3. AllFresh(OnDisconnect(state.after, shared), shared.settings, Selection)
    BY <2>1, <2>2, OnDisconnectFresh
  <2> QED BY <2>1, <2>3, EnterGoes
<1> QED BY <1>1, <1>2, <1>3, <1>4

-----------------------------------------------------------------------------
(* Events of the monitor.                                                  *)

(* The head of the queue is taken: what is left comes after it, and waits  *)
(* for no other reply than before.                                         *)
LEMMA Taken ==
    ASSUME QInv, Inv', NEW kind, Receive(kind), Handled(kind)
    PROVE  /\ listening' = listening /\ routes' = routes
           /\ monitor'.stage = monitor.stage /\ monitor'.gateways = monitor.gateways
           /\ Head(events).kind = kind /\ Head(events) = events[1] /\ 1 \in 1..Len(events)
           /\ kind \in EventKinds /\ Order[kind] \in Nat
           /\ Order[kind] <= Level[monitor.stage]
           /\ \A i \in 1..Len(events') :
                /\ i + 1 \in 1..Len(events) /\ events'[i] = events[i + 1]
                /\ Order[kind] < Order[events'[i].kind]
           /\ \A other : Queued(other)' <=> Queued(other) /\ other # kind
           /\ \A other : Queued(other) => other = kind \/ Order[kind] < Order[other]
           /\ InOrder' /\ Answered'
           /\ Queued(kind)
<1>1. /\ Inv /\ AInv /\ InOrder /\ Answered
      /\ events \in Seq(Event) /\ events # <<>> /\ events' = Tail(events)
      /\ Head(events).kind = kind
  BY QInvParts, QueueParts DEF AInv, Receive, Handled
<1>2. /\ Len(events) \in Nat /\ 1 \in 1..Len(events) /\ Head(events) = events[1]
      /\ Len(events') = Len(events) - 1
      /\ \A i \in 1..Len(events') : i + 1 \in 1..Len(events) /\ events'[i] = events[i + 1]
      /\ \A i \in 1..Len(events) : i = 1 \/ (i - 1 \in 1..Len(events') /\ events'[i - 1] = events[i])
  BY <1>1
<1>3. /\ listening' = listening /\ routes' = routes
      /\ monitor'.stage = monitor.stage /\ monitor'.gateways = monitor.gateways
      /\ \/ monitor'.replied = monitor.replied
         \/ kind \in DOMAIN ReplyStage /\ monitor.stage = ReplyStage[kind]
  <2>1. \/ monitor' = monitor
        \/ /\ kind \in DOMAIN ReplyStage /\ monitor.stage = ReplyStage[kind]
           /\ monitor' = [monitor EXCEPT !.replied = TRUE]
    BY DEF Handled
  <2>2. monitor \in Monitor
    BY <1>1, QueueParts
  <2>3. [monitor EXCEPT !.replied = TRUE].stage = monitor.stage
        /\ [monitor EXCEPT !.replied = TRUE].gateways = monitor.gateways
    BY <2>2 DEF Monitor
  <2>4. UNCHANGED <<listening, routes>>
    BY DEF Handled
  <2>5. CASE monitor' = monitor
    BY <2>4, <2>5
  <2>6. CASE /\ kind \in DOMAIN ReplyStage /\ monitor.stage = ReplyStage[kind]
             /\ monitor' = [monitor EXCEPT !.replied = TRUE]
    BY <2>3, <2>4, <2>6
  <2> QED BY <2>1, <2>5, <2>6
<1>4. /\ kind \in EventKinds /\ Order[kind] \in Nat
      /\ Order[kind] <= Level[monitor.stage]
      /\ \A i \in 1..Len(events') : Order[kind] < Order[events'[i].kind]
  BY <1>1, <1>2, QueueParts DEF InOrder
<1>5. InOrder'
  <2>1. ASSUME NEW i \in 1..Len(events'), NEW j \in 1..Len(events'), i < j
        PROVE  Order[events'[i].kind] < Order[events'[j].kind]
    <3>1. /\ i + 1 \in 1..Len(events) /\ j + 1 \in 1..Len(events) /\ i + 1 < j + 1
          /\ events'[i] = events[i + 1] /\ events'[j] = events[j + 1]
      BY <1>2, <2>1
    <3> QED BY <1>1, <3>1 DEF InOrder
  <2>2. \A i \in 1..Len(events') : Order[events'[i].kind] <= Level[monitor'.stage]
    BY <1>1, <1>2, <1>3 DEF InOrder
  <2> QED BY <2>1, <2>2 DEF InOrder
<1>6. /\ \A other : Queued(other)' <=> Queued(other) /\ other # kind
      /\ \A other : Queued(other) => other = kind \/ Order[kind] < Order[other]
      /\ Queued(kind)
  <2>1. \A i \in 1..Len(events') : events'[i].kind # kind
    BY <1>4
  <2>2. \A i \in 1..Len(events) : \/ i = 1 /\ events[i].kind = kind
                                  \/ i - 1 \in 1..Len(events') /\ events'[i - 1] = events[i]
    BY <1>1, <1>2
  <2>3. ASSUME NEW other, Queued(other)
        PROVE  /\ other = kind \/ Order[kind] < Order[other]
               /\ other # kind => Queued(other)'
    <3>1. PICK i \in 1..Len(events) : events[i].kind = other
      BY <2>3 DEF Queued
    <3>2. other # kind =>
            i - 1 \in 1..Len(events') /\ events'[i - 1].kind = other
      BY <2>2, <3>1
    <3> QED BY <1>4, <3>2 DEF Queued
  <2>4. ASSUME NEW other, Queued(other)'
        PROVE  Queued(other) /\ other # kind
    <3>1. PICK i \in 1..Len(events') : events'[i].kind = other
      BY <2>4 DEF Queued
    <3> QED BY <1>2, <2>1, <3>1 DEF Queued
  <2>5. Queued(kind)
    BY <1>1, <1>2 DEF Queued
  <2> QED BY <2>3, <2>4, <2>5
<1>7. Answered'
  <2> SUFFICES ASSUME ~ReplyMayTimeOut, NEW i \in 1..Len(events'),
                      events'[i].kind \in DOMAIN ReplyStage
               PROVE  monitor'.stage = ReplyStage[events'[i].kind] /\ ~monitor'.replied
    BY DEF Answered
  <2>1. monitor.stage = ReplyStage[events'[i].kind] /\ ~monitor.replied
    BY <1>1, <1>2 DEF Answered
  <2>2. events'[i].kind # kind
    BY <1>4
  <2>3. ~(kind \in DOMAIN ReplyStage /\ monitor.stage = ReplyStage[kind])
    BY <2>1, <2>2 DEF ReplyStage
  <2> QED BY <1>3, <2>1, <2>3
<1> QED BY <1>1, <1>2, <1>3, <1>4, <1>5, <1>6, <1>7

(* A later event publishes a later progress.                               *)
LEMMA RanksFollowOrder ==
    /\ \A step \in Steps : Order[step] \in Nat /\ Order[step] <= 6 /\ Rank[step] \in Nat
    /\ \A a, b \in Steps : Order[a] <= Order[b] => Rank[a] <= Rank[b]
<1>1. /\ \A step \in Steps : Order[step] \in Nat /\ Order[step] <= 6
      /\ \A step \in Steps : \/ Rank[step] = Order[step] + 1
                             \/ Rank[step] = Order[step] /\ Order[step] \in {5, 6}
  BY Orders DEF Steps, Rank
<1>2. \A a, b \in Steps : Order[a] <= Order[b] => Rank[a] <= Rank[b]
  BY <1>1, Orders DEF Steps, Rank
<1> QED BY <1>1, <1>2

(* The progress a handler of the attempt publishes, if any, is that of the *)
(* event, or of an earlier one.                                            *)
Proceeds(kind) ==
    \/ published' = published
    \/ \E step \in Steps :
        /\ Publish(step)
        /\ Order[published.detail] <= Order[step] /\ Order[step] <= Order[kind]

(* An event of a monitor that Connecting goes on with: what is left to show*)
(* for Goes is what the handler did of Attempt, and the selection.         *)
LEMMA EventKeeps ==
    ASSUME QInv, Inv', In("Connecting"), NEW kind, Receive(kind), Handled(kind),
           state'.name = "Connecting", shared'.settings.point = shared.settings.point,
           Proceeds(kind)
    PROVE  /\ Heard' /\ InOrder' /\ SelectionQueued' /\ Answered' /\ Behind' /\ Success'
           /\ Forward
<1> USE QInvParts, Taken, QueueParts
<1>1. /\ published.name = "Connecting" /\ published.detail \in Steps
      /\ listening
      /\ Order[published.detail] <= Level[monitor.stage]
      /\ \A i \in 1..Len(events) : Order[published.detail] < Order[events[i].kind]
  BY DEF AInv, Behind, Heard, In
<1>2. Order[published.detail] < Order[kind]
  BY <1>1
<1>3. InOrder' /\ Answered'
  BY Taken
<1>4. Heard' /\ Success'
  BY <1>1 DEF Heard, Success, NoPanic, In
<1>5. SelectionQueued'
  BY DEF AInv, SelectionQueued
<1>6. /\ published'.name = "Connecting" /\ published'.detail \in Steps
      /\ Order[published.detail] <= Order[published'.detail]
      /\ Order[published'.detail] <= Order[kind]
  <2>1. Order[published.detail] \in Nat /\ Order[kind] \in Nat
    BY <1>1, Taken, RanksFollowOrder
  <2>2. CASE published' = published
    BY <1>1, <1>2, <2>1, <2>2
  <2>3. ASSUME NEW step \in Steps, Publish(step),
               Order[published.detail] <= Order[step], Order[step] <= Order[kind]
        PROVE  published'.name = "Connecting" /\ published'.detail = step
    BY <2>3 DEF Publish
  <2>4. CASE published' # published
    <3>1. PICK step \in Steps :
            /\ Publish(step)
            /\ Order[published.detail] <= Order[step] /\ Order[step] <= Order[kind]
      BY <2>4 DEF Proceeds
    <3> QED BY <2>3, <3>1
  <2> QED BY <2>2, <2>4
<1>7. Behind'
  <2>1. \A i \in 1..Len(events') : Order[published'.detail] < Order[events'[i].kind]
    <3>1. ASSUME NEW i \in 1..Len(events')
          PROVE  Order[published'.detail] < Order[events'[i].kind]
      <4>1. Order[kind] < Order[events'[i].kind]
        BY Taken
      <4>2. /\ Order[events'[i].kind] \in Nat /\ Order[kind] \in Nat
            /\ Order[published'.detail] \in Nat
        BY <1>6, Taken, NextQueueParts, RanksFollowOrder
      <4> QED BY <1>6, <4>1, <4>2
    <3> QED BY <3>1
  <2>2. Order[published'.detail] <= Level[monitor'.stage]
    BY <1>6, RanksFollowOrder
  <2> QED BY <1>6, <2>1, <2>2 DEF Behind, In
<1>8. Forward
  BY <1>1, <1>6, RanksFollowOrder DEF Forward
<1> QED BY <1>3, <1>4, <1>5, <1>7, <1>8

(* What Attempt says after an event, of what it said before.               *)
LEMMA EventAttempt ==
    ASSUME QInv, Inv', In("Connecting"), NEW kind, Receive(kind), Handled(kind)
    PROVE  /\ HasHandle /\ state \in ConnectingStates
           /\ \A n : Reached(n)' => Reached(n)
           /\ ~Queued("SelectedGateways") =>
                /\ shared.firewall.entry = monitor.gateways
                /\ Reached(0) => state.gateways = monitor.gateways
           /\ Reached(4) => monitor.gateways # NoGateways
           /\ Reached(6) /\ ~Queued("RegisteredWithGateways") => shared.firewall.peer
           /\ Reached(7) \/ monitor.stage = "RoutesSet" => routes
           /\ Reached(7) /\ ~Queued("InterfaceUp") =>
                shared.firewall.tunnel /\ shared.socks5
<1>1. HasHandle /\ state \in ConnectingStates
  BY QInvParts, EventParts DEF HasHandle
<1>2. \A n : Reached(n)' => Reached(n)
  BY Taken DEF Reached
<1>3. Attempt!2
  BY QInvParts DEF AInv, Attempt
<1> QED BY <1>1, <1>2, <1>3

LEMMA ProgressGoes ==
    ASSUME QInv, Inv', ConnectingProgress
    PROVE  Goes
<1>1. PICK step \in Steps :
        /\ In("Connecting") /\ Receive(step) /\ Publish(step) /\ Handled(step)
        /\ UNCHANGED <<state, shared>>
  BY DEF ConnectingProgress
<1>2. /\ Order[step] \in Nat /\ Order[published.detail] < Order[step]
      /\ published.detail \in Steps
  BY <1>1, Taken, QInvParts DEF AInv, Behind
<1>3. Proceeds(step)
  BY <1>1, <1>2, RanksFollowOrder DEF Proceeds
<1>4. /\ Heard' /\ InOrder' /\ SelectionQueued' /\ Answered' /\ Behind' /\ Success'
      /\ Forward
  BY <1>1, <1>3, EventKeeps DEF In
<1>5. step \notin {"SelectedGateways", "RegisteredWithGateways", "InterfaceUp"}
  BY DEF Steps
<1>6. Attempt'
  <2>1. \A kind \in {"SelectedGateways", "RegisteredWithGateways", "InterfaceUp"} :
            Queued(kind)' <=> Queued(kind)
    BY <1>1, <1>5, Taken
  <2> QED BY <1>1, <2>1, EventAttempt, Taken DEF Attempt, HasHandle
<1>7. StillFresh => SelectionFresh'
  BY <1>1 DEF StillFresh, SelectionFresh, Selection, In
<1> QED BY <1>4, <1>6, <1>7 DEF Goes, AInv

LEMMA SelectedGatewaysGoes ==
    ASSUME QInv, Inv', ConnectingSelectedGateways
    PROVE  Goes
<1> USE QInvParts, PInvParts
<1> DEFINE gateways == Head(events).gateways
           policy == [shared.firewall EXCEPT !.entry = gateways]
<1>1. In("Connecting") /\ Receive("SelectedGateways")
  BY DEF ConnectingSelectedGateways
<1>2. PICK s \in SetFirewall(policy, shared) :
        \/ /\ FirewallFault(s)
           /\ NewState(EnterDisconnecting(ToError, TRUE, s), CancelledMonitor)
        \/ /\ ~FirewallFault(s)
           /\ state' = [state EXCEPT !.gateways = gateways]
           /\ shared' = s
           /\ Handled("SelectedGateways")
           /\ published' = published
  BY DEF ConnectingSelectedGateways
<1>3. gateways \in MaybeGateways
  <2>1. Head(events) \in Event
    BY <1>1, QueueParts DEF Receive
  <2> QED BY <2>1 DEF Event
<1>4. shared.firewall \in Policy
  BY SharedParts
<1>5. /\ policy \in Policy /\ policy.entry = gateways
      /\ policy.peer = shared.firewall.peer /\ policy.tunnel = shared.firewall.tunnel
  <2> HIDE DEF gateways
  <2> QED BY <1>3, <1>4 DEF Policy
<1> HIDE DEF policy
<1>6. /\ s \in Shared /\ s.settings = shared.settings /\ s.socks5 = shared.socks5
      /\ ~FirewallFault(s) => s.firewall = policy
  BY <1>2, <1>5, FirewallEffect, FirewallLeaves
<1>7. CASE /\ FirewallFault(s)
           /\ NewState(EnterDisconnecting(ToError, TRUE, s), CancelledMonitor)
  BY <1>6, <1>7, EnterDisconnectingFresh, AfterMakers, EnterGoes
<1>8. CASE /\ ~FirewallFault(s)
           /\ state' = [state EXCEPT !.gateways = gateways]
           /\ shared' = s
           /\ Handled("SelectedGateways")
           /\ published' = published
  <2>1. /\ state'.name = "Connecting" /\ state'.phase = state.phase
        /\ state'.gateways = gateways
    <3> HIDE DEF gateways
    <3>1. state \in ConnectingStates /\ state.name = "Connecting"
      BY <1>1, <1>8, EventAttempt DEF In
    <3> QED BY <1>8, <3>1 DEF ConnectingStates
  <2>2. gateways = monitor.gateways /\ gateways = shared.settings.point
    <3>1. Head(events) = events[1] /\ 1 \in 1..Len(events)
          /\ events[1].kind = "SelectedGateways"
      BY <1>1, <1>8, Taken
    <3> QED BY <3>1 DEF AInv, SelectionQueued
  <2> HIDE DEF gateways
  <2>3. /\ Heard' /\ InOrder' /\ SelectionQueued' /\ Answered' /\ Behind' /\ Success'
        /\ Forward
    BY <1>1, <1>6, <1>8, <2>1, EventKeeps DEF Proceeds
  <2>4. Attempt'
    <3>1. \A kind \in {"RegisteredWithGateways", "InterfaceUp"} : Queued(kind)' <=> Queued(kind)
      BY <1>1, <1>8, Taken
    <3>2. shared'.firewall = policy /\ shared'.socks5 = shared.socks5
      BY <1>6, <1>8
    <3>3. /\ monitor'.gateways = monitor.gateways /\ monitor'.stage = monitor.stage
          /\ routes' = routes
      BY <1>1, <1>8, Taken
    <3>4. HasHandle'
      BY <1>1, <1>8, <2>1, EventAttempt DEF HasHandle
    <3> QED BY <1>1, <1>5, <1>8, <2>1, <2>2, <3>1, <3>2, <3>3, <3>4, EventAttempt DEF Attempt
  <2>5. SelectionFresh'
    BY <1>6, <1>8, <2>1, <2>2 DEF SelectionFresh, Selection, In
  <2> QED BY <2>3, <2>4, <2>5 DEF Goes, AInv
<1> QED BY <1>2, <1>7, <1>8

LEMMA RegisteredGoes ==
    ASSUME QInv, Inv', ConnectingRegistered
    PROVE  Goes
<1> USE QInvParts, PInvParts
<1> DEFINE policy == [shared.firewall EXCEPT !.peer = TRUE]
<1>1. In("Connecting") /\ Receive("RegisteredWithGateways")
  BY DEF ConnectingRegistered
<1>2. PICK s \in SetFirewall(policy, shared) :
        \/ /\ FirewallFault(s)
           /\ NewState(EnterDisconnecting(ToError, TRUE, s), CancelledMonitor)
        \/ /\ ~FirewallFault(s)
           /\ Publish("ConnectingTunnel")
           /\ shared' = s /\ state' = state
           /\ Handled("RegisteredWithGateways")
  BY DEF ConnectingRegistered
<1>3. shared.firewall \in Policy
  BY SharedParts
<1>4. /\ policy \in Policy /\ policy.peer
      /\ policy.entry = shared.firewall.entry /\ policy.tunnel = shared.firewall.tunnel
  BY <1>3 DEF Policy
<1> HIDE DEF policy
<1>5. /\ s \in Shared /\ s.settings = shared.settings /\ s.socks5 = shared.socks5
      /\ ~FirewallFault(s) => s.firewall = policy
  BY <1>2, <1>4, FirewallEffect, FirewallLeaves
<1>6. CASE /\ FirewallFault(s)
           /\ NewState(EnterDisconnecting(ToError, TRUE, s), CancelledMonitor)
  BY <1>5, <1>6, EnterDisconnectingFresh, AfterMakers, EnterGoes
<1>7. CASE /\ ~FirewallFault(s)
           /\ Publish("ConnectingTunnel")
           /\ shared' = s /\ state' = state
           /\ Handled("RegisteredWithGateways")
  <2>1. Proceeds("RegisteredWithGateways")
    <3>1. published.detail \in Steps /\ Order["ConnectingTunnel"] = 6
          /\ Order["RegisteredWithGateways"] = 6 /\ "ConnectingTunnel" \in Steps
      BY <1>1, Orders DEF AInv, Behind, Steps
    <3> QED BY <1>7, <3>1, RanksFollowOrder DEF Proceeds
  <2>2. /\ Heard' /\ InOrder' /\ SelectionQueued' /\ Answered' /\ Behind' /\ Success'
        /\ Forward
    BY <1>1, <1>5, <1>7, <2>1, EventKeeps DEF In
  <2>3. Attempt'
    <3>1. \A kind \in {"SelectedGateways", "InterfaceUp"} : Queued(kind)' <=> Queued(kind)
      BY <1>1, <1>7, Taken
    <3>2. shared'.firewall = policy /\ shared'.socks5 = shared.socks5
      BY <1>5, <1>7
    <3>3. /\ monitor'.gateways = monitor.gateways /\ monitor'.stage = monitor.stage
          /\ routes' = routes
      BY <1>1, <1>7, Taken
    <3> QED BY <1>1, <1>4, <1>7, <3>1, <3>2, <3>3, EventAttempt DEF Attempt, HasHandle
  <2>4. StillFresh => SelectionFresh'
    BY <1>5, <1>7 DEF StillFresh, SelectionFresh, Selection, In
  <2> QED BY <2>2, <2>3, <2>4 DEF Goes, AInv
<1> QED BY <1>2, <1>6, <1>7

LEMMA InterfaceUpGoes ==
    ASSUME QInv, Inv', ConnectingInterfaceUp
    PROVE  Goes
<1> USE QInvParts, PInvParts
<1> DEFINE policy == [shared.firewall EXCEPT !.tunnel = TRUE]
           proxied == [shared EXCEPT !.socks5 = TRUE]
<1>1. In("Connecting") /\ Receive("InterfaceUp")
  BY DEF ConnectingInterfaceUp
<1>2. PICK s \in SetFirewall(policy, proxied) :
        \/ FirewallFault(s) /\ ConnectingDisconnect(ToError, s)
        \/ /\ ~FirewallFault(s)
           /\ Publish("ConnectingTunnel")
           /\ shared' = s /\ state' = state
           /\ Handled("InterfaceUp")
  BY DEF ConnectingInterfaceUp
<1>3. shared.firewall \in Policy
  BY SharedParts
<1>4. /\ policy \in Policy /\ policy.tunnel
      /\ policy.entry = shared.firewall.entry /\ policy.peer = shared.firewall.peer
  BY <1>3 DEF Policy
<1>5. proxied \in Shared /\ proxied.socks5 /\ proxied.settings = shared.settings
  BY DEF Shared
<1> HIDE DEF policy, proxied
<1>6. /\ s \in Shared /\ s.settings = shared.settings /\ s.socks5
      /\ ~FirewallFault(s) => s.firewall = policy
  BY <1>2, <1>4, <1>5, FirewallEffect, FirewallLeaves
<1>7. CASE FirewallFault(s) /\ ConnectingDisconnect(ToError, s)
  <2>1. ToError \in After /\ ToError.kind # "Offline"
    BY AfterMakers
  <2>2. StillFresh => NoGateways \in {NoGateways, s.settings.point}
    OBVIOUS
  <2> QED BY <1>6, <1>7, <2>1, <2>2, ConnectingDisconnectGoes
<1>8. CASE /\ ~FirewallFault(s)
           /\ Publish("ConnectingTunnel")
           /\ shared' = s /\ state' = state
           /\ Handled("InterfaceUp")
  <2>1. Proceeds("InterfaceUp")
    <3>1. published.detail \in Steps /\ Order["ConnectingTunnel"] = 6
          /\ Order["InterfaceUp"] = 7 /\ "ConnectingTunnel" \in Steps
      BY <1>1, Orders DEF AInv, Behind, Steps
    <3> QED BY <1>8, <3>1, RanksFollowOrder DEF Proceeds
  <2>2. /\ Heard' /\ InOrder' /\ SelectionQueued' /\ Answered' /\ Behind' /\ Success'
        /\ Forward
    BY <1>1, <1>6, <1>8, <2>1, EventKeeps DEF In
  <2>3. Attempt'
    <3>1. \A kind \in {"SelectedGateways", "RegisteredWithGateways"} :
            Queued(kind)' <=> Queued(kind)
      BY <1>1, <1>8, Taken
    <3>2. shared'.firewall = policy /\ shared'.socks5
      BY <1>6, <1>8
    <3>3. /\ monitor'.gateways = monitor.gateways /\ monitor'.stage = monitor.stage
          /\ routes' = routes
      BY <1>1, <1>8, Taken
    <3> QED BY <1>1, <1>4, <1>8, <3>1, <3>2, <3>3, EventAttempt DEF Attempt, HasHandle
  <2>4. StillFresh => SelectionFresh'
    BY <1>6, <1>8 DEF StillFresh, SelectionFresh, Selection, In
  <2> QED BY <2>2, <2>3, <2>4 DEF Goes, AInv
<1> QED BY <1>2, <1>7, <1>8

(* Up finds every earlier event handled: nothing is missing.               *)
LEMMA UpGoes ==
    ASSUME QInv, Inv', ConnectingUp
    PROVE  Goes
<1> USE QInvParts, PInvParts
<1> DEFINE cleared == [shared EXCEPT !.blacklist = FALSE]
<1>1. In("Connecting") /\ Receive("Up")
  BY DEF ConnectingUp
<1>2. \A i \in 1..Len(events) : events[i].kind = "Up" \/ 8 < Order[events[i].kind]
  <2>1. events # <<>> /\ Head(events) = events[1] /\ 1 \in 1..Len(events)
        /\ events[1].kind = "Up"
    BY <1>1, QueueParts DEF Receive
  <2>2. \A i \in 1..Len(events) : i = 1 \/ Order[events[1].kind] < Order[events[i].kind]
    BY <2>1, QueueParts DEF AInv, InOrder
  <2> QED BY <2>1, <2>2, Orders
<1>3. Queued("Up")
  BY <1>1, QueueParts DEF Receive, Queued
<1>4. /\ Reached(0) /\ Reached(4) /\ Reached(6) /\ Reached(7)
      /\ ~Queued("SelectedGateways") /\ ~Queued("RegisteredWithGateways")
      /\ ~Queued("InterfaceUp")
  <2>1. Reached(0) /\ Reached(4) /\ Reached(6) /\ Reached(7)
    BY <1>3 DEF Reached
  <2>2. ASSUME NEW kind \in {"SelectedGateways", "RegisteredWithGateways", "InterfaceUp"},
               Queued(kind)
        PROVE  FALSE
    <3>1. PICK i \in 1..Len(events) : events[i].kind = kind
      BY <2>2 DEF Queued
    <3>2. 8 < Order[kind]
      BY <1>2, <3>1
    <3> QED BY <3>2, Orders
  <2> QED BY <2>1, <2>2
<1>5. Level[monitor.stage] >= 8
  <2>1. PICK i \in 1..Len(events) : events[i].kind = "Up"
    BY <1>3 DEF Queued
  <2>2. Order[events[i].kind] <= Level[monitor.stage]
    BY DEF AInv, InOrder
  <2> QED BY <2>1, <2>2, Orders, QueueParts
<1>6. /\ state.gateways = monitor.gateways /\ shared.firewall.entry = monitor.gateways
      /\ monitor.gateways # NoGateways
      /\ shared.firewall.peer /\ shared.firewall.tunnel /\ shared.socks5 /\ routes
  <2>1. HasHandle
    BY <1>1, EventParts DEF HasHandle
  <2>2. Attempt!2
    BY <1>1 DEF AInv, Attempt
  <2> QED BY <1>4, <2>1, <2>2
<1>7. PICK r \in EnterConnected(state.gateways, cleared) :
        \/ /\ r.state.name = "Connected"
           /\ state' = r.state /\ shared' = r.shared
           /\ published' = Published(r.state)
           /\ Handled("Up")
        \/ /\ r.state.name # "Connected"
           /\ NewState({r}, CancelledMonitor)
  BY <1>6 DEF ConnectingUp
<1>8. /\ cleared \in Shared /\ cleared.settings = shared.settings
      /\ cleared.socks5 = shared.socks5 /\ cleared.blacklist = FALSE
  BY DEF Shared
<1>9. state.gateways \in MaybeGateways
  BY <1>1
<1> HIDE DEF cleared
<1>10. CASE r.state.name # "Connected" /\ NewState({r}, CancelledMonitor)
  <2>1. Fresh(r, shared.settings, NoGateways)
    BY <1>8, <1>9, <1>10, EnterConnectedComplete
  <2>2. AllFresh({r}, shared.settings, NoGateways)
    BY <2>1 DEF AllFresh
  <2> QED BY <1>10, <2>2, EnterGoes
<1>11. CASE /\ r.state.name = "Connected"
            /\ state' = r.state /\ shared' = r.shared
            /\ published' = Published(r.state)
            /\ Handled("Up")
  <2>1. /\ state' = ConnectedState(state.gateways)
        /\ shared'.firewall = ConnectedPolicy(shared.settings.lan, state.gateways)
        /\ shared'.dns = "Tunnel" /\ shared'.settings = shared.settings
        /\ shared'.socks5 /\ ~shared'.blacklist
    BY <1>6, <1>8, <1>9, <1>11, EnterConnectedComplete
  <2>2. /\ state'.name = "Connected" /\ state'.gateways = state.gateways
        /\ published'.name = "Connected"
    BY <1>11, <2>1 DEF ConnectedState, Published
  <2>3. /\ shared'.firewall.peer /\ shared'.firewall.tunnel
        /\ shared'.firewall.entry = state.gateways
    <3>1. shared.settings.lan \in BOOLEAN
      BY SharedParts
    <3> QED BY <2>1, <3>1, <1>9 DEF ConnectedPolicy, NoPolicy
  <2>4. /\ listening' = listening /\ routes' = routes /\ monitor'.stage = monitor.stage
        /\ monitor'.gateways = monitor.gateways /\ InOrder' /\ Answered'
        /\ \A i \in 1..Len(events') :
            i + 1 \in 1..Len(events) /\ events'[i] = events[i + 1]
    BY <1>1, <1>11, Taken
  <2>5. Heard' /\ SelectionQueued'
    BY <1>1, <2>1, <2>2, <2>4 DEF AInv, Heard, SelectionQueued, NoPanic, In
  <2>6. Behind' /\ Attempt' /\ Forward
    BY <2>2 DEF Behind, Attempt, Forward, In
  <2>7. Success'
    BY <1>5, <1>6, <2>1, <2>2, <2>3, <2>4 DEF Success, ConnectedIsComplete, In
  <2>8. StillFresh => SelectionFresh'
    BY <1>1, <2>1, <2>2 DEF StillFresh, SelectionFresh, Selection, In
  <2> QED BY <2>4, <2>5, <2>6, <2>7, <2>8 DEF Goes, AInv
<1> QED BY <1>7, <1>10, <1>11

LEMMA DownGoes ==
    ASSUME QInv, Inv', ConnectingDown
    PROVE  Goes
<1> USE QInvParts, PInvParts
<1> DEFINE s == [shared EXCEPT !.socks5 = FALSE]
<1>1. In("Connecting")
  BY DEF ConnectingDown
<1>2. CASE NewState(EnterDisconnecting(ToError, TRUE, shared), CancelledMonitor)
  BY <1>2, EnterDisconnectingFresh, AfterMakers, EnterGoes
<1>3. CASE NewState(ConnectingReconnect(s), IdleMonitor)
  <2>1. s \in Shared /\ s.settings = shared.settings
    BY DEF Shared
  <2> HIDE DEF s
  <2> QED BY <1>1, <1>3, <2>1, RetryGoes
<1> QED BY <1>2, <1>3 DEF ConnectingDown

(* ConnectionFailed comes after the probes: the attempt is over.           *)
LEMMA ConnectionFailedGoes ==
    ASSUME QInv, Inv', ConnectingConnectionFailed
    PROVE  Goes
<1> USE QInvParts, PInvParts
<1>1. /\ In("Connecting") /\ Receive("ConnectionFailed") /\ Handled("ConnectionFailed")
      /\ shared' = [shared EXCEPT !.blacklist = @ \/ state.gateways # NoGateways]
      /\ state' = [state EXCEPT !.gateways = NoGateways]
      /\ published' = published
  BY DEF ConnectingConnectionFailed
<1>2. /\ state'.name = "Connecting" /\ state'.phase = "Monitoring"
      /\ state'.gateways = NoGateways
  BY <1>1, EventParts DEF ConnectingStates
<1>3. shared'.settings = shared.settings /\ shared'.firewall = shared.firewall
  BY <1>1 DEF Shared
<1>4. /\ Heard' /\ InOrder' /\ SelectionQueued' /\ Answered' /\ Behind' /\ Success'
      /\ Forward
  BY <1>1, <1>2, <1>3, EventKeeps DEF Proceeds
<1>5. \A n : ~Reached(n)'
  <2>1. Level[monitor.stage] >= 9 /\ ~Queued("Up")'
    BY <1>1, Taken, Orders, QueueParts
  <2>2. monitor'.stage = monitor.stage
    BY <1>1, Taken
  <2> QED BY <2>1, <2>2, QueueParts DEF Reached
<1>6. /\ shared.firewall.entry = monitor.gateways
      /\ monitor'.gateways = monitor.gateways /\ monitor'.stage # "RoutesSet"
  <2>1. ~Queued("SelectedGateways") /\ Order["ConnectionFailed"] <= Level[monitor.stage]
    BY <1>1, Taken, Orders
  <2> QED BY <1>1, <2>1, EventAttempt, Taken, Orders, Levels
<1>7. Attempt'
  BY <1>2, <1>3, <1>5, <1>6 DEF Attempt, HasHandle
<1>8. SelectionFresh'
  BY <1>2 DEF SelectionFresh, Selection, In
<1> QED BY <1>4, <1>7, <1>8 DEF Goes, AInv

LEMMA ConnectedDownGoes ==
    ASSUME QInv, Inv', ConnectedDown
    PROVE  Goes
<1> USE SelectionParts
<1> DEFINE left(t) == IF Head(events).error
                      THEN EnterError(t)
                      ELSE EnterConnecting(0, state.gateways, t)
<1>1. In("Connected") /\ NewState(UNION {left(t) : t \in ResetDns(shared)}, IdleMonitor)
  BY DEF ConnectedDown
<1>2. \A t \in ResetDns(shared) : AllFresh(left(t), shared.settings, Selection)
  BY <1>1, ResetDnsEffect, EnterErrorFresh, EnterConnectingFresh
<1> HIDE DEF left
<1>3. AllFresh(UNION {left(t) : t \in ResetDns(shared)}, shared.settings, Selection)
  BY <1>2 DEF AllFresh
<1> QED BY <1>1, <1>3, EnterGoes

LEMMA ConnectedIgnoresGoes ==
    ASSUME QInv, Inv', ConnectedIgnores
    PROVE  Goes
<1> USE QInvParts
<1> DEFINE kind == Head(events).kind
<1>1. /\ In("Connected") /\ Receive(kind) /\ Handled(kind)
      /\ state' = state /\ shared' = shared /\ published' = published
  BY DEF ConnectedIgnores, Receive
<1> HIDE DEF kind
<1>2. /\ listening' = listening /\ routes' = routes /\ monitor'.stage = monitor.stage
      /\ monitor'.gateways = monitor.gateways /\ InOrder' /\ Answered'
      /\ \A i \in 1..Len(events') : i + 1 \in 1..Len(events) /\ events'[i] = events[i + 1]
  BY <1>1, Taken
<1>3. Heard' /\ SelectionQueued'
  BY <1>1, <1>2 DEF AInv, Heard, SelectionQueued, NoPanic, In
<1>4. Behind' /\ Attempt' /\ Forward
  BY <1>1 DEF AInv, Behind, Attempt, Forward, In
<1>5. Success'
  BY <1>1, <1>2 DEF AInv, Success, ConnectedIsComplete, In
<1>6. StillFresh => SelectionFresh'
  BY <1>1 DEF StillFresh, SelectionFresh, Selection, In
<1> QED BY <1>2, <1>3, <1>4, <1>5, <1>6 DEF Goes, AInv

LEMMA MonitorEventGoes ==
    ASSUME QInv, Inv', MonitorEvent
    PROVE  Goes
BY ProgressGoes, SelectedGatewaysGoes, RegisteredGoes, InterfaceUpGoes, UpGoes, DownGoes,
   ConnectionFailedGoes, ConnectedDownGoes, ConnectedIgnoresGoes DEF MonitorEvent

-----------------------------------------------------------------------------
(* The theorems.                                                           *)

(* The machine starts in Disconnected or Offline, and hears nobody.        *)
LEMMA InitAttempt == Init => AInv
<1> SUFFICES ASSUME Init
             PROVE  AInv
  OBVIOUS
<1>1. /\ events = <<>> /\ listening = FALSE /\ Len(events) = 0
  BY DEF Init, MonitorInit
<1>2. published.name = "Disconnected"
  BY DEF Init, Published, Simple
<1>3. state.name \in {"Offline", "Disconnected"}
  <2>1. state \in {OfflineState(FALSE, NoGateways), Simple("Disconnected")}
    BY InitReaches
  <2> QED BY <2>1 DEF OfflineState, Simple
<1> QED
  BY <1>1, <1>2, <1>3
     DEF AInv, Heard, InOrder, SelectionQueued, Answered, Behind, Attempt, Success, NoPanic, In

(* Every step goes on from the invariant, and keeps it.                    *)
LEMMA NextAttempt == QInv /\ [Next]_vars => Goes
<1> SUFFICES ASSUME QInv, [Next]_vars
             PROVE  Goes
  OBVIOUS
<1>1. Inv'
  BY QInvParts, NextInv
<1>2. CASE HandleCommand
  BY <1>1, <1>2, ConnectGoes, DisconnectGoes, BlockGoes, SettingsGoes
     DEF HandleCommand, Command
<1>3. CASE HandleMonitorEvent
  BY <1>1, <1>3, MonitorEventGoes DEF HandleMonitorEvent
<1>4. CASE HandleFuture
  BY <1>1, <1>4, FutureGoes DEF HandleFuture
<1>5. CASE HandleConnectivity
  BY <1>1, <1>5, ConnectivityGoes DEF HandleConnectivity
<1>6. CASE HandleShutdown
  BY <1>1, <1>6, ShutdownGoes DEF HandleShutdown
<1>7. CASE MonitorTask
  <2>1. AInv' /\ UNCHANGED <<state, shared, published>>
    BY <1>1, <1>7, QInvParts, MonitorTaskKeeps DEF MonitorTask, machineVars
  <2>2. published.name = "Connecting" => Rank[published.detail] \in Nat
    BY QInvParts, RanksFollowOrder DEF AInv, Behind
  <2> QED BY <2>1, <2>2 DEF Goes, Forward, StillFresh, SelectionFresh, Selection, In
<1>8. CASE ShutdownRequested \/ OfflineMonitorTask \/ Host \/ UNCHANGED vars
  <2>1. UNCHANGED <<state, shared, published, monitorVars>>
    BY <1>8 DEF ShutdownRequested, OfflineMonitorTask, Host, vars, machineVars
  <2> QED BY <2>1, SameGoes
<1> QED BY <1>2, <1>3, <1>4, <1>5, <1>6, <1>7, <1>8 DEF Next

(* The invariant of attempts holds in every reachable state.               *)
THEOREM AttemptsHold == Spec => []QInv
<1>1. Init => AInv
  BY InitAttempt
<1>2. AInv /\ PInv /\ [Next]_vars => AInv'
  BY NextAttempt DEF QInv, Goes
<1>3. PInv /\ AInv => QInv
  BY DEF QInv
<1> QED BY <1>1, <1>2, <1>3, PoliciesHold, PTL DEF Spec

(* Up always finds the gateways that the monitor connected to selected, in *)
(* whatever order settings, failures and events came: the task never       *)
(* panics on `selected gateways must be set`.                              *)
THEOREM NeverPanics == Spec => []NoPanic
<1>1. QInv => NoPanic
  BY DEF QInv, AInv, Heard
<1> QED BY <1>1, AttemptsHold, PTL

(* In Connected the routes, the tunnel's DNS and the proxy are in place,   *)
(* and the policy lets through the gateways that the monitor connected to. *)
THEOREM ConnectedComplete == Spec => []ConnectedIsComplete
<1>1. QInv => ConnectedIsComplete
  BY DEF QInv, AInv, Success, ConnectedIsComplete
<1> QED BY <1>1, AttemptsHold, PTL

(* While replies come in time, the monitor, as far as it is heard, dials   *)
(* only what the firewall already lets through.                            *)
THEOREM FirewallIsFirst ==
    ASSUME ~ReplyMayTimeOut
    PROVE  Spec => []FirewallBeforeDial
<1>1. QInv => FirewallBeforeDial
  <2> SUFFICES ASSUME QInv, listening
               PROVE  FirewallBeforeDial
    BY DEF FirewallBeforeDial
  <2> USE QInvParts, Levels
  <2>1. \A i \in 1..Len(events) :
            /\ events[i].kind = "SelectedGateways" => monitor.stage = "AwaitingSelectedReply"
            /\ events[i].kind = "RegisteredWithGateways" =>
                monitor.stage = "AwaitingRegisteredReply"
            /\ events[i].kind = "InterfaceUp" => monitor.stage = "AwaitingInterfaceReply"
    BY DEF AInv, Answered, ReplyStage
  <2>2. CASE In("Connecting")
    <3>1. Attempt!2
      BY <2>2 DEF AInv, Attempt
    <3>2. monitor.stage \in DiallingStages => HasHandle
      BY <2>2 DEF Inv, MonitorRuns, Holds, DiallingStages, HasHandle, In
    <3>3. monitor.stage \in DiallingStages => ~Queued("SelectedGateways")
      BY <2>1 DEF Queued, DiallingStages
    <3>4. monitor.stage \in {"StartingTunnel", "RoutesSet", "AwaitingInterfaceReply",
                             "Probing", "Up"} =>
            Reached(6) /\ ~Queued("RegisteredWithGateways")
      BY <2>1 DEF Queued, Reached
    <3>5. monitor.stage \in {"Probing", "Up"} => Reached(7) /\ ~Queued("InterfaceUp")
      BY <2>1 DEF Queued, Reached
    <3> QED BY <3>1, <3>2, <3>3, <3>4, <3>5 DEF FirewallBeforeDial
  <2>3. CASE In("Connected")
    BY <2>3 DEF AInv, Success, ConnectedIsComplete, FirewallBeforeDial
  <2> QED BY <2>2, <2>3 DEF AInv, Heard
<1> QED BY <1>1, AttemptsHold, PTL

(* The progress of an attempt never goes back, though replies may time out *)
(* and the monitor be ahead of what is handled.                            *)
THEOREM ProgressIsMonotone == Spec => ProgressMonotone
<1>1. QInv /\ [Next]_vars => Forward
  BY NextAttempt DEF Goes
<1>2. Spec => [][Forward]_vars
  BY <1>1, AttemptsHold, PTL DEF Spec
<1> QED BY <1>2 DEF ProgressMonotone, Forward

(* A selection outlives no change of the settings it was made for, save in *)
(* Disconnecting.                                                          *)
THEOREM SelectionIsFresh == Spec => SelectionStaysFresh
<1>1. QInv /\ [Next]_vars => (StillFresh => SelectionFresh')
  BY NextAttempt DEF Goes
<1>2. Spec => [][StillFresh => SelectionFresh']_vars
  BY <1>1, AttemptsHold, PTL DEF Spec
<1> QED BY <1>2 DEF SelectionStaysFresh, StillFresh
=============================================================================
