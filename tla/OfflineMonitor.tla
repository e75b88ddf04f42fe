--------------------------- MODULE OfflineMonitor ---------------------------
(***************************************************************************)
(* The offline monitor of crate nym-offline-monitor, Linux build.          *)
(*                                                                         *)
(* A task listens to the events of the route manager.  On each of them it  *)
(* asks whether a route to a public address exists, compares the answer    *)
(* with the one it got last, and sends it on a watch channel if it differs.*)
(* The tunnel state machine holds a receiver of that channel (`next`), and *)
(* it can also ask for the routes itself (`connectivity`), past the task.  *)
(*                                                                         *)
(* A connectivity is TRUE when the host is online, over IPv4 or IPv6.  The *)
(* task does tell the two apart: an online host whose IPv4 or IPv6 routes  *)
(* change is notified as online again.                                     *)
(***************************************************************************)

CONSTANT RoutesMayChange   \* whether the host's routes come and go

ASSUME RoutesAssumption == RoutesMayChange \in BOOLEAN

VARIABLES
    online,        \* whether the host has a route to the internet now
    routeChanged,  \* whether an event is queued in the task's route listener
    connectivity,  \* the task's last answer
    watch          \* the state machine's receiver: the value of the channel,
                   \* and whether it changed since the receiver last read it

offlineVars == <<online, routeChanged, connectivity, watch>>

(***************************************************************************)
(* The channel is created presuming the host online.  Between the start of *)
(* the task and that of the state machine the routes may have changed, in  *)
(* which case an event is queued.                                          *)
(***************************************************************************)
OfflineInit ==
    /\ online \in BOOLEAN
    /\ connectivity \in BOOLEAN
    /\ routeChanged \in BOOLEAN
    /\ online # connectivity => routeChanged
    /\ watch = [value |-> TRUE, changed |-> FALSE]

OfflineTypeOK ==
    /\ online \in BOOLEAN
    /\ routeChanged \in BOOLEAN
    /\ connectivity \in BOOLEAN
    /\ watch \in [value : BOOLEAN, changed : BOOLEAN]

-----------------------------------------------------------------------------

(* The environment: the host loses or regains its routes.  The events of   *)
(* several changes queue up; one flag stands for them, as the task's       *)
(* handling of an event does not depend on the event.                      *)
HostRouteChange ==
    /\ RoutesMayChange
    /\ online' = ~online
    /\ routeChanged' = TRUE
    /\ UNCHANGED <<connectivity, watch>>

(* Mutant of CheckConnectivity: only losses of connectivity are notified.  *)
CheckConnectivityOfLosses ==
    /\ routeChanged
    /\ routeChanged' = FALSE
    /\ connectivity' = online
    /\ watch' = IF online THEN watch ELSE [value |-> FALSE, changed |-> TRUE]
    /\ UNCHANGED online

(* The task handles a route event.  `families` tells whether IPv4 or IPv6  *)
(* came or went; offline, there is neither.                                *)
CheckConnectivity ==
    /\ routeChanged
    /\ routeChanged' = FALSE
    /\ connectivity' = online
    /\ \E families \in BOOLEAN :
        watch' = IF online = connectivity /\ ~(online /\ families)
                 THEN watch
                 ELSE [value |-> online, changed |-> TRUE]
    /\ UNCHANGED online

(* What the state machine gets from `connectivity()`: a check of its own.  *)
IsOffline == ~online

(* The state machine's `next()` returns, with the value isOnline.          *)
NextConnectivity(isOnline) ==
    /\ watch.changed
    /\ watch.value = isOnline
    /\ watch' = [watch EXCEPT !.changed = FALSE]
    /\ UNCHANGED <<online, routeChanged, connectivity>>

=============================================================================
