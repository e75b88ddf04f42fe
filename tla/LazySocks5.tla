------------------------------ MODULE LazySocks5 ------------------------------
(***************************************************************************)
(* The lazily started SOCKS5 proxy (service/socks5/lazy_socks5.rs and      *)
(* mod.rs of nym-vpn-lib), from one enable to its disable: the accept loop,*)
(* one task per connection, and three monitors, all of which share a mixnet*)
(* client that the first connection starts and that any monitor may stop.  *)
(*                                                                         *)
(* `mixnet_client` is a readers-writer lock around an option.  Only        *)
(* shutdown_backend holds it over an await, while the client disconnects.  *)
(* A client is tasks of the SDK, which only its `disconnect` stops: to drop*)
(* it, or the wrapper with it, leaves them, and their port, as they are.   *)
(***************************************************************************)
EXTENDS Naturals, FiniteSets

CONSTANTS
    Connections,   \* tasks for connections of clients
    MaxRetries,    \* of ensure_backend_started_with_retry
    Nobody         \* holds no lock

VARIABLES
    service,               \* "enabled", "cleaning" up once cancelled, "disabled"
    tunnel,                \* what the shared TunnelState says
    task,                  \* where run and the monitors are
    connection,            \* where each connection's task is
    attempt,               \* its attempts to start the backend that failed
    activeConnections,
    mixnetClient,          \* whether a client is stored
    taken,                 \* what became of the client that a task took out
    clientLock,            \* who holds the lock while disconnecting
    initMutex,             \* who starts a client
    isMixnetRunning,
    lastConnectionClosed,  \* "none", or whether idle_timeout has "elapsed" since
    lastRotation,          \* the same for the rotation interval
    lastVpnState           \* the mode of the tunnel the state monitor saw last

wrapperVars == <<service, tunnel>>
clientVars == <<mixnetClient, taken, clientLock, isMixnetRunning>>
connectionVars == <<connection, attempt, activeConnections, initMutex>>
timerVars == <<lastConnectionClosed, lastRotation, lastVpnState>>
vars == <<wrapperVars, task, clientVars, connectionVars, timerVars>>

(* Connected in two modes, Disconnected or Error, and the states between.  *)
Modes == {"mixnet", "wireguard"}
TunnelStates == Modes \cup {"down", "changing"}
Timers == {"none", "recent", "elapsed"}
Monitors == {"idle", "state", "rotation"}
Tasks == Monitors \cup {"run"}

ASSUME SocksAssumption == Nobody \notin Connections \cup Tasks /\ MaxRetries \in Nat \ {0}

(* A connection's task, in the order of route_via_new_tunnel.  Those at    *)
(* Starting hold init_mutex.  "released": only the decrement is left.      *)
Starting == {"recheck", "start", "store", "settle"}
Serving == {"existing", "check", "wait", "connect", "proxy"} \cup Starting
Places == {"none", "accepted", "accepted_existing", "released"} \cup Serving

TypeOK ==
    /\ service \in {"enabled", "cleaning", "disabled"}
    /\ tunnel \in TunnelStates /\ lastVpnState \in Modes \cup {"none"}
    /\ task \in [Tasks -> {"loop", "rotate", "shutdown", "taken", "disconnect", "ended"}]
    /\ taken \in [Tasks -> {"none", "running", "stopping"}]
    /\ connection \in [Connections -> Places]
    /\ attempt \in [Connections -> 0..(MaxRetries - 1)]
    /\ mixnetClient \in BOOLEAN /\ isMixnetRunning \in BOOLEAN
    /\ lastConnectionClosed \in Timers /\ lastRotation \in Timers
    /\ initMutex \in Connections \cup {Nobody}
    /\ \A c \in Connections : initMutex = c <=> connection[c] \in Starting
    /\ clientLock \in Tasks \cup {Nobody}
    /\ \A t \in Tasks : clientLock = t <=> task[t] \in {"taken", "disconnect"}
    /\ activeConnections
           = Cardinality({c \in Connections : connection[c] \in Serving \cup {"released"}})

Init ==
    /\ service = "enabled"
    /\ tunnel \in TunnelStates
    /\ task = [t \in Tasks |-> "loop"]
    /\ connection = [c \in Connections |-> "none"]
    /\ attempt = [c \in Connections |-> 0]
    /\ activeConnections = 0
    /\ mixnetClient = FALSE /\ taken = [t \in Tasks |-> "none"]
    /\ clientLock = Nobody /\ initMutex = Nobody
    /\ isMixnetRunning = FALSE
    /\ lastConnectionClosed = "none" /\ lastRotation = "none"
    /\ lastVpnState = "none"

-----------------------------------------------------------------------------
(* The backend.                                                            *)

Free == clientLock = Nobody
Cancelled == service # "enabled"

Goto(t, place) == task' = [task EXCEPT ![t] = place]
Move(c, place) == connection' = [connection EXCEPT ![c] = place]

(* The loop of attempts, whose count goes with it, is left when a client is*)
(* there or the last attempt failed.                                       *)
Counts(c, n, place) ==
    attempt' = [attempt EXCEPT ![c] = IF place \in {"connect", "released"} THEN 0 ELSE n]

(* A monitor looks at the token at the end of a round.                     *)
Round(t) == Goto(t, IF Cancelled \/ t = "run" THEN "ended" ELSE "loop")

(* A client that is there may have its port, whoever knows of it.          *)
ClientThere ==
    \/ mixnetClient
    \/ \E c \in Connections : connection[c] = "store"
    \/ \E t \in Tasks : taken[t] # "none"

(* shutdown_backend: the client is taken out under the lock...             *)
TakeClient(t) ==
    /\ task[t] = "shutdown" /\ Free
    /\ IF mixnetClient
       THEN /\ mixnetClient' = FALSE
            /\ taken' = [taken EXCEPT ![t] = "running"]
            /\ clientLock' = t
            /\ Goto(t, "taken")
            /\ UNCHANGED <<isMixnetRunning, lastConnectionClosed>>
       ELSE /\ Round(t)
            /\ lastConnectionClosed' = IF t = "idle" THEN "none" ELSE lastConnectionClosed
            /\ UNCHANGED clientVars
    /\ UNCHANGED <<wrapperVars, connectionVars, lastRotation, lastVpnState>>

(* ...told to stop once the flag is reset, which waits for the flag...     *)
TellClient(t) ==
    /\ task[t] = "taken"
    /\ isMixnetRunning' = FALSE
    /\ taken' = [taken EXCEPT ![t] = "stopping"]
    /\ Goto(t, "disconnect")
    /\ UNCHANGED <<wrapperVars, mixnetClient, clientLock, connectionVars, timerVars>>

(* ...stops, whether or not somebody waits for it...                       *)
ClientStops(t) ==
    /\ taken[t] = "stopping"
    /\ taken' = [taken EXCEPT ![t] = "none"]
    /\ UNCHANGED <<wrapperVars, task, mixnetClient, clientLock, isMixnetRunning, connectionVars,
                   timerVars>>

(* ...and the lock is kept until then.                                     *)
Disconnected(t) ==
    /\ task[t] = "disconnect" /\ taken[t] = "none"
    /\ clientLock' = Nobody
    /\ lastConnectionClosed' = IF t = "idle" THEN "none" ELSE lastConnectionClosed
    /\ Round(t)
    /\ UNCHANGED <<wrapperVars, mixnetClient, taken, isMixnetRunning, connectionVars, lastRotation,
                   lastVpnState>>

-----------------------------------------------------------------------------
(* The tasks of connections.                                               *)

(* The state of the tunnel decides the route; between states, none.        *)
Accept(c) ==
    /\ task["run"] = "loop"
    /\ connection[c] = "none"
    /\ tunnel # "changing"
    /\ Move(c, IF tunnel = "mixnet" THEN "accepted_existing" ELSE "accepted")
    /\ UNCHANGED <<wrapperVars, task, clientVars, attempt, activeConnections, initMutex, timerVars>>

ConnectionGuard(c) ==
    /\ connection[c] \in {"accepted", "accepted_existing"}
    /\ Move(c, IF connection[c] = "accepted" THEN "check" ELSE "existing")
    /\ activeConnections' = activeConnections + 1
    /\ UNCHANGED <<wrapperVars, task, clientVars, attempt, initMutex, timerVars>>

(* The quick check, without the mutex.                                     *)
CheckClient(c) ==
    /\ connection[c] = "check" /\ Free
    /\ LET place == IF mixnetClient THEN "connect" ELSE "wait"
       IN  Move(c, place) /\ Counts(c, attempt[c], place)
    /\ UNCHANGED <<wrapperVars, task, clientVars, activeConnections, initMutex, timerVars>>

LockInit(c) ==
    /\ connection[c] = "wait" /\ initMutex = Nobody
    /\ Move(c, "recheck")
    /\ initMutex' = c
    /\ UNCHANGED <<wrapperVars, task, clientVars, attempt, activeConnections, timerVars>>

(* Mutant of RecheckClient: the client is not looked for again.            *)
RecheckNothing(c) ==
    /\ connection[c] = "recheck" /\ Free
    /\ Move(c, "start")
    /\ UNCHANGED <<wrapperVars, task, clientVars, attempt, activeConnections, initMutex, timerVars>>

RecheckClient(c) ==
    /\ connection[c] = "recheck" /\ Free
    /\ LET place == IF mixnetClient THEN "connect" ELSE "start"
       IN  Move(c, place) /\ Counts(c, attempt[c], place)
    /\ initMutex' = IF mixnetClient THEN Nobody ELSE initMutex
    /\ UNCHANGED <<wrapperVars, task, clientVars, activeConnections, timerVars>>

(* A requester is selected and a client connects, or one of them fails; a  *)
(* client that fails to connect is taken to stop by itself.                *)
ClientConnects(c) ==
    /\ connection[c] = "start"
    /\ Move(c, "store")
    /\ UNCHANGED <<wrapperVars, task, clientVars, attempt, activeConnections, initMutex, timerVars>>

(* Mutant of StartFails: the mutex is not released.                        *)
StartFailsLocked(c) ==
    /\ connection[c] = "start"
    /\ LET place == IF attempt[c] + 1 < MaxRetries THEN "check" ELSE "released"
       IN  Move(c, place) /\ Counts(c, attempt[c] + 1, place)
    /\ UNCHANGED <<wrapperVars, task, clientVars, activeConnections, initMutex, timerVars>>

StartFails(c) ==
    /\ connection[c] = "start"
    /\ initMutex' = Nobody
    /\ LET place == IF attempt[c] + 1 < MaxRetries THEN "check" ELSE "released"
       IN  Move(c, place) /\ Counts(c, attempt[c] + 1, place)
    /\ UNCHANGED <<wrapperVars, task, clientVars, activeConnections, timerVars>>

StoreClient(c) ==
    /\ connection[c] = "store" /\ Free
    /\ mixnetClient' = TRUE
    /\ Move(c, "settle")
    /\ UNCHANGED <<wrapperVars, task, taken, clientLock, isMixnetRunning, attempt,
                   activeConnections, initMutex, timerVars>>

(* The mutex is held while the internal server is given time to bind.      *)
Settled(c) ==
    /\ connection[c] = "settle"
    /\ initMutex' = Nobody
    /\ Move(c, "connect") /\ Counts(c, attempt[c], "connect")
    /\ UNCHANGED <<wrapperVars, task, clientVars, activeConnections, timerVars>>

(* The flag is set whatever became of the client meanwhile.                *)
ConnectInternal(c) ==
    /\ connection[c] = "connect" /\ ClientThere
    /\ isMixnetRunning' = TRUE
    /\ Move(c, "proxy")
    /\ UNCHANGED <<wrapperVars, task, mixnetClient, taken, clientLock, attempt,
                   activeConnections, initMutex, timerVars>>

(* The internal server is not there, an end closes, or the handshake fails.*)
ConnectionEnds(c) ==
    /\ connection[c] \in {"existing", "connect", "proxy"}
    /\ Move(c, "released")
    /\ UNCHANGED <<wrapperVars, task, clientVars, attempt, activeConnections, initMutex, timerVars>>

(* Dropping the guard spawns a task that decrements the counter.           *)
Decrement(c) ==
    /\ connection[c] = "released"
    /\ activeConnections' = IF activeConnections > 0 THEN activeConnections - 1 ELSE 0
    /\ Move(c, "none")
    /\ UNCHANGED <<wrapperVars, task, clientVars, attempt, initMutex, timerVars>>

-----------------------------------------------------------------------------
(* The monitors.                                                           *)

(* Mutant of MonitorIdleTimeout: every round without connections starts    *)
(* the timer over.                                                         *)
MonitorIdleRestarting ==
    /\ task["idle"] = "loop"
    /\ lastConnectionClosed' = IF activeConnections = 0 THEN "recent" ELSE "none"
    /\ Round("idle")
    /\ UNCHANGED <<wrapperVars, clientVars, connectionVars, lastRotation, lastVpnState>>

(* Every 5 s; the timer starts at the first round without connections.     *)
MonitorIdleTimeout ==
    /\ task["idle"] = "loop"
    /\ LET idle == activeConnections = 0 IN
       /\ lastConnectionClosed' =
              CASE ~idle -> "none"
                [] idle /\ lastConnectionClosed = "none" -> "recent"
                [] OTHER -> lastConnectionClosed
       /\ IF idle /\ lastConnectionClosed = "elapsed" THEN Goto("idle", "shutdown") ELSE Round("idle")
    /\ UNCHANGED <<wrapperVars, clientVars, connectionVars, lastRotation, lastVpnState>>

(* Every 2 s: a tunnel over the mixnet replaces the backend; one over      *)
(* WireGuard needs a backend with its entry gateway.                       *)
MonitorTunnelState ==
    /\ task["state"] = "loop"
    /\ IF /\ tunnel # lastVpnState
          /\ tunnel = "mixnet" \/ (tunnel = "wireguard" /\ isMixnetRunning)
       THEN Goto("state", "shutdown")
       ELSE Round("state")
    /\ lastVpnState' = IF tunnel \in Modes THEN tunnel ELSE "none"
    /\ UNCHANGED <<wrapperVars, clientVars, connectionVars, lastConnectionClosed, lastRotation>>

(* Every minute, if a rotation interval is configured.                     *)
MonitorRotation ==
    /\ task["rotation"] = "loop"
    /\ IF isMixnetRunning /\ tunnel = "wireguard" /\ lastRotation # "recent"
       THEN /\ lastRotation' = "recent"
            /\ IF lastRotation = "elapsed" THEN Goto("rotation", "rotate") ELSE Round("rotation")
       ELSE Round("rotation") /\ UNCHANGED lastRotation
    /\ UNCHANGED <<wrapperVars, clientVars, connectionVars, lastConnectionClosed, lastVpnState>>

(* The counter is read here; a connection may come before the lock does.   *)
RotateNetworkRequester ==
    /\ task["rotation"] = "rotate"
    /\ IF activeConnections > 0 THEN Round("rotation") ELSE Goto("rotation", "shutdown")
    /\ UNCHANGED <<wrapperVars, clientVars, connectionVars, timerVars>>

(* Time passes for the monitors that are there to see it.                  *)
IdleTimeoutElapses ==
    /\ lastConnectionClosed = "recent" /\ task["idle"] # "ended"
    /\ lastConnectionClosed' = "elapsed"
    /\ UNCHANGED <<wrapperVars, task, clientVars, connectionVars, lastRotation, lastVpnState>>

RotationIntervalElapses ==
    /\ lastRotation = "recent" /\ task["rotation"] # "ended"
    /\ lastRotation' = "elapsed"
    /\ UNCHANGED <<wrapperVars, task, clientVars, connectionVars, lastConnectionClosed, lastVpnState>>

-----------------------------------------------------------------------------
(* The end.  An aborted task drops what it holds: a lock is then free, but a*)
(* client is left as it is.                                                *)

Abort(tasks, next) ==
    /\ task' = [t \in Tasks |-> IF t = "run" /\ task[t] # "ended" THEN next
                                ELSE IF t \in tasks THEN "ended" ELSE task[t]]
    /\ clientLock' = IF clientLock \in tasks THEN Nobody ELSE clientLock

(* Disabled by the user, at shutdown, or because the tunnel went down.     *)
Disable ==
    /\ service = "enabled"
    /\ service' = "cleaning"
    /\ UNCHANGED <<tunnel, task, clientVars, connectionVars, timerVars>>

(* The accept loop sees the token, if it is not aborted first; what the    *)
(* monitors had in their own variables is gone with them.                  *)
StopAccepting ==
    /\ task["run"] = "loop" /\ Cancelled
    /\ Abort(Monitors, "shutdown")
    /\ lastVpnState' = "none"
    /\ UNCHANGED <<wrapperVars, mixnetClient, taken, isMixnetRunning, connectionVars,
                   lastConnectionClosed, lastRotation>>

AbortWrapper ==
    /\ service = "cleaning"
    /\ service' = "disabled"
    /\ Abort({"run"}, "ended")
    /\ UNCHANGED <<tunnel, mixnetClient, taken, isMixnetRunning, connectionVars, timerVars>>

TunnelChanges ==
    /\ task # [t \in Tasks |-> "ended"]
    /\ tunnel' \in TunnelStates \ {tunnel}
    /\ UNCHANGED <<service, task, clientVars, connectionVars, timerVars>>

-----------------------------------------------------------------------------

ConnectionStep(c) ==
    \/ Accept(c)
    \/ ConnectionGuard(c)
    \/ CheckClient(c)
    \/ LockInit(c)
    \/ RecheckClient(c)
    \/ ClientConnects(c)
    \/ StartFails(c)
    \/ StoreClient(c)
    \/ Settled(c)
    \/ ConnectInternal(c)
    \/ ConnectionEnds(c)
    \/ Decrement(c)

Next ==
    \/ \E c \in Connections : ConnectionStep(c)
    \/ \E t \in Tasks : TakeClient(t) \/ TellClient(t) \/ ClientStops(t) \/ Disconnected(t)
    \/ MonitorIdleTimeout
    \/ MonitorTunnelState
    \/ MonitorRotation
    \/ RotateNetworkRequester
    \/ IdleTimeoutElapses
    \/ RotationIntervalElapses
    \/ Disable
    \/ StopAccepting
    \/ AbortWrapper
    \/ TunnelChanges

Spec == Init /\ [][Next]_vars

(***************************************************************************)
(* Timers elapse, tasks that can run do, and the lock is fair to those that*)
(* wait for it.  Nothing is assumed of clients, nor of how long a client   *)
(* of the mixnet takes to connect; one that is told to does disconnect.    *)
(***************************************************************************)
Fairness ==
    /\ WF_vars(IdleTimeoutElapses)
    /\ WF_vars(MonitorIdleTimeout)
    /\ WF_vars(MonitorTunnelState)
    /\ WF_vars(MonitorRotation)
    /\ WF_vars(RotateNetworkRequester)
    /\ \A t \in Tasks :
           /\ SF_vars(TakeClient(t)) /\ WF_vars(TellClient(t))
           /\ WF_vars(ClientStops(t)) /\ WF_vars(Disconnected(t))
    /\ \A c \in Connections : WF_vars(Decrement(c))
    /\ WF_vars(AbortWrapper)

FairSpec == Spec /\ Fairness

-----------------------------------------------------------------------------
(* Properties.                                                             *)

(* Clients that a connection starts, the proxy has stored, or a task stops.*)
LookedAfter ==
    Cardinality({c \in Connections : connection[c] \in {"start", "store"}})
        + (IF mixnetClient THEN 1 ELSE 0)
        + Cardinality({t \in Tasks : taken[t] # "none" /\ task[t] # "ended"})

(* Clients that nobody stops any more: the task that took them was aborted.*)
Orphans == {t \in Tasks : taken[t] # "none" /\ task[t] = "ended"}

(***************************************************************************)
(* However connections, retries and monitors interleave, no second client  *)
(* connects while one is stored or still disconnecting: it would find the  *)
(* internal port taken, and replace one that is never stopped.  A client   *)
(* that is let go of, and may be beside another, there is only once the    *)
(* proxy is being disabled.                                                *)
(***************************************************************************)
OneBackend == LookedAfter <= 1 /\ (Orphans # {} => Cancelled)

InUse == \E c \in Connections : connection[c] \notin {"none", "released"}
Unstopped == mixnetClient \/ \E t \in Tasks : taken[t] # "none"

(***************************************************************************)
(* While the proxy is enabled, a client of the mixnet that nobody uses is  *)
(* stopped after idle_timeout, by whichever monitor takes it out.  Nothing *)
(* is said of one that is there when the proxy is disabled: that one may   *)
(* run on.                                                                 *)
(***************************************************************************)
UnusedIsStopped == Unstopped ~> (~Unstopped \/ InUse \/ Cancelled)

=============================================================================
