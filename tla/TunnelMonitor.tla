---------------------------- MODULE TunnelMonitor ----------------------------
(***************************************************************************)
(* The tunnel monitor (tunnel_state_machine/tunnel_monitor.rs): the task   *)
(* the Connecting state starts to bring one tunnel up, watch over it and   *)
(* take it down.                                                           *)
(*                                                                         *)
(* The task reports to the state machine through an unbounded channel      *)
(* whose receiver belongs to the Connecting or Connected state: when that  *)
(* state is left the receiver is dropped, with the events still queued.    *)
(* Four events carry a reply channel the task waits on, for at most        *)
(* REPLY_TIMEOUT; the wait also ends when the event is dropped unhandled.  *)
(*                                                                         *)
(* Gateways are told apart by the entry/exit/QUIC settings (a "point") they*)
(* were selected for, which is all the state machine's handling depends on.*)
(***************************************************************************)
EXTENDS Naturals, Sequences

CONSTANTS
    Points,           \* values of the entry point, exit point and QUIC settings
    NoGateways,       \* the absence of a gateway selection
    ReplyMayTimeOut   \* whether the state machine can take over REPLY_TIMEOUT

ASSUME PointsAssumption == Points # {} /\ NoGateways \notin Points
ASSUME ReplyAssumption == ReplyMayTimeOut \in BOOLEAN

VARIABLES
    monitor,    \* the task: its stage, gateways, pending reply, shutdown token
    events,     \* the events queued in the channel
    listening,  \* whether the receiver of the channel exists
    routes      \* whether the tunnel's routes and routing rules are installed

monitorVars == <<monitor, events, listening, routes>>

MaybeGateways == Points \cup {NoGateways}

Stages ==
    { "Idle",              \* no task
      "Starting", "AwaitingAccount", "RefreshingGateways", "Selecting",
      "AwaitingSelectedReply",
      "Registering", "AwaitingRegisteredReply",
      "StartingTunnel", "RoutesSet", "AwaitingInterfaceReply",
      "Probing",           \* connection monitor runs, Up not sent
      "Up",                \* Up sent
      "ShuttingDown",      \* the loop was left, the tunnel is being closed
      "AwaitingDownReply",
      "Done" }             \* the tombstone can be joined

(* The stage that waits for the reply to an event.                         *)
ReplyStage ==
    [ SelectedGateways       |-> "AwaitingSelectedReply",
      RegisteredWithGateways |-> "AwaitingRegisteredReply",
      InterfaceUp            |-> "AwaitingInterfaceReply",
      Down                   |-> "AwaitingDownReply" ]

EventKinds ==
    { "AwaitingAccountReadiness", "RefreshingGateways", "SelectingGateways",
      "RegisteringWithGateways", "Up", "ConnectionFailed" }
        \cup DOMAIN ReplyStage

(* An event: the selection of SelectedGateways, and whether Down has an    *)
(* error state reason.                                                     *)
Event == [kind : EventKinds, gateways : MaybeGateways, error : BOOLEAN]

Plain(kind) == [kind |-> kind, gateways |-> NoGateways, error |-> FALSE]

Monitor ==
    [stage : Stages, gateways : MaybeGateways,
     replied : BOOLEAN, cancelled : BOOLEAN]

IdleMonitor ==
    [stage |-> "Idle", gateways |-> NoGateways,
     replied |-> FALSE, cancelled |-> FALSE]

(* TunnelMonitor::start with the gateways of the Connecting state.         *)
StartedMonitor(gateways) ==
    [IdleMonitor EXCEPT !.stage = "Starting", !.gateways = gateways]

MonitorTypeOK ==
    /\ monitor \in Monitor
    /\ events \in Seq(Event)
    /\ listening \in BOOLEAN
    /\ routes \in BOOLEAN

MonitorInit ==
    /\ monitor = IdleMonitor
    /\ events = <<>>
    /\ listening = FALSE
    /\ routes = FALSE

-----------------------------------------------------------------------------

(* Sending fails without the receiver, which the task ignores.             *)
Send(event) == events' = IF listening THEN Append(events, event) ELSE events

(* A reply is awaited; it comes at once when the event could not be sent.  *)
MonitorGoes(stage) ==
    monitor' = [monitor EXCEPT !.stage = stage, !.replied = ~listening]

(* From stage `from` the task sends an event and goes to stage `to`.       *)
Report(from, event, to) ==
    /\ monitor.stage = from
    /\ Send(event)
    /\ MonitorGoes(to)
    /\ UNCHANGED <<listening, routes>>

(* Waiting for a reply ends with it, or after REPLY_TIMEOUT.               *)
ReplyReceived == monitor.replied \/ ReplyMayTimeOut

Ipv6Checked ==
    Report("Starting", Plain("AwaitingAccountReadiness"), "AwaitingAccount")

AccountReady ==
    Report("AwaitingAccount", Plain("RefreshingGateways"), "RefreshingGateways")

GatewayClientReplaced ==
    IF monitor.gateways = NoGateways
    THEN Report("RefreshingGateways", Plain("SelectingGateways"), "Selecting")
    ELSE Report("RefreshingGateways", Plain("RegisteringWithGateways"),
                "Registering")

(* The gateway provider selects for the settings it has: the current ones. *)
GatewaysSelected(point) ==
    /\ monitor.stage = "Selecting"
    /\ monitor' = [monitor EXCEPT !.stage = "AwaitingSelectedReply",
                                  !.gateways = point,
                                  !.replied = ~listening]
    /\ Send([Plain("SelectedGateways") EXCEPT !.gateways = point])
    /\ UNCHANGED <<listening, routes>>

(* Mutant of SelectedReply: the reply is not awaited.                      *)
SelectedNoReply ==
    Report("AwaitingSelectedReply", Plain("RegisteringWithGateways"),
           "Registering")

SelectedReply ==
    /\ ReplyReceived
    /\ Report("AwaitingSelectedReply", Plain("RegisteringWithGateways"),
              "Registering")

Registered ==
    Report("Registering", Plain("RegisteredWithGateways"),
           "AwaitingRegisteredReply")

(* Mutant of RegisteredReply: the registration is announced afterwards.    *)
RegisteredReplyAnnounced ==
    /\ ReplyReceived
    /\ Report("AwaitingRegisteredReply", Plain("RegisteringWithGateways"),
              "StartingTunnel")

RegisteredReply ==
    /\ monitor.stage = "AwaitingRegisteredReply"
    /\ ReplyReceived
    /\ MonitorGoes("StartingTunnel")
    /\ UNCHANGED <<events, listening, routes>>

(* set_routes: nothing here looks at the shutdown token.                   *)
RoutesAdded ==
    /\ monitor.stage = "StartingTunnel"
    /\ routes' = TRUE
    /\ MonitorGoes("RoutesSet")
    /\ UNCHANGED <<events, listening>>

TunnelStarted ==
    Report("RoutesSet", Plain("InterfaceUp"), "AwaitingInterfaceReply")

InterfaceReply ==
    /\ monitor.stage = "AwaitingInterfaceReply"
    /\ ReplyReceived
    /\ MonitorGoes("Probing")
    /\ UNCHANGED <<events, listening, routes>>

(* The connection monitor finds the tunnel viable: Up is sent once.        *)
ConnectionViable == Report("Probing", Plain("Up"), "Up")

(* Mutant of ConnectionLost: the loop is not left.                         *)
ConnectionLostGoesOn == Report("Probing", Plain("ConnectionFailed"), "Probing")

(* The connection monitor gives up.                                        *)
ConnectionLost ==
    \E stage \in {"Probing", "Up"} :
        Report(stage, Plain("ConnectionFailed"), "ShuttingDown")

(* A bridge closed, the mixnet client exited or the token was cancelled.   *)
LoopLeft ==
    /\ monitor.stage \in {"Probing", "Up"}
    /\ MonitorGoes("ShuttingDown")
    /\ UNCHANGED <<events, listening, routes>>

TunnelClosed == Report("ShuttingDown", Plain("Down"), "AwaitingDownReply")

(***************************************************************************)
(* run_inner returns an error from stage `from`, and run sends Down with a *)
(* reason if the error has one.  A cancellation has none; it ends the three*)
(* stages that watch the token.                                            *)
(***************************************************************************)
Fail(stage, withReason) ==
    Report(stage, [Plain("Down") EXCEPT !.error = withReason],
           "AwaitingDownReply")

CancellableStages == {"AwaitingAccount", "Selecting", "Registering"}

(* Mutant of Cancelled: registration does not watch the token.             *)
CancelledBeforeRegistering ==
    /\ monitor.cancelled
    /\ \E stage \in {"AwaitingAccount", "Selecting"} : Fail(stage, FALSE)

Cancelled ==
    /\ monitor.cancelled
    /\ \E stage \in CancellableStages : Fail(stage, FALSE)

StageFailed ==
    \/ Fail("Starting", TRUE)
    \/ \E stage \in CancellableStages \cup {"StartingTunnel", "RoutesSet"},
          withReason \in BOOLEAN : Fail(stage, withReason)
    \/ Fail("RefreshingGateways", TRUE)

(* Adding the routes fails after the routing rules were created.           *)
RoutesFailed ==
    /\ monitor.stage = "StartingTunnel"
    /\ routes' = TRUE
    /\ Send([Plain("Down") EXCEPT !.error = TRUE])
    /\ MonitorGoes("AwaitingDownReply")
    /\ UNCHANGED listening

(* The probe of the connection monitor cannot be created.                  *)
ProbeFailed ==
    /\ ReplyReceived
    /\ Fail("AwaitingInterfaceReply", TRUE)

DownReply ==
    /\ monitor.stage = "AwaitingDownReply"
    /\ ReplyReceived
    /\ MonitorGoes("Done")
    /\ UNCHANGED <<events, listening, routes>>

-----------------------------------------------------------------------------

(* Steps the task takes by itself, whatever its peers do or answer.        *)
MonitorProgress ==
    \/ Ipv6Checked \/ GatewayClientReplaced \/ SelectedReply
    \/ RegisteredReply \/ RoutesAdded \/ TunnelStarted \/ InterfaceReply
    \/ TunnelClosed \/ DownReply \/ Cancelled
    \/ monitor.cancelled /\ LoopLeft

(* Steps that depend on the account, the directory, gateways or the tunnel.*)
MonitorOutcome(point) ==
    \/ AccountReady \/ GatewaysSelected(point) \/ Registered
    \/ ConnectionViable \/ ConnectionLost \/ LoopLeft
    \/ StageFailed \/ RoutesFailed \/ ProbeFailed

MonitorStep(point) == MonitorProgress \/ MonitorOutcome(point)

(* Whether a task exists.                                                  *)
MonitorRuns == monitor.stage # "Idle"

(* Stages with the gateways in use: the tunnel is dialled through them.    *)
DiallingStages ==
    {"Registering", "AwaitingRegisteredReply", "StartingTunnel", "RoutesSet",
     "AwaitingInterfaceReply", "Probing", "Up"}

=============================================================================
