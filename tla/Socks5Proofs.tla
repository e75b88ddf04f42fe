----------------------------- MODULE Socks5Proofs -----------------------------
(***************************************************************************)
(* Proofs about the lazy SOCKS5 proxy, for every set of connections and    *)
(* number of retries.                                                      *)
(*                                                                         *)
(* OneBackend is no invariant by itself: that a client is not started      *)
(* beside another rests on the mutex of the starting connection, on the    *)
(* check made under it, and on who may store or take a client meanwhile.   *)
(***************************************************************************)
EXTENDS LazySocks5, FiniteSetTheorems, TLAPS

Counted == {c \in Connections : connection[c] \in Serving \cup {"released"}}
Storing == {c \in Connections : connection[c] \in {"start", "store"}}
Stopping == {t \in Tasks : taken[t] # "none" /\ task[t] # "ended"}
TaskPlaces == {"loop", "rotate", "shutdown", "taken", "disconnect", "ended"}

(* A client that disconnects has been taken: none is stored beside it.     *)
TakenIsNotStored == mixnetClient => clientLock = Nobody

(* While a connection starts a client there is no other: the check under   *)
(* the mutex found none, and only the holder of the mutex stores one.      *)
StartsAlone ==
    \A c \in Connections :
        connection[c] \in {"start", "store"} => ~mixnetClient /\ clientLock = Nobody

(* A client that was taken out is that of the task with the lock, or of one*)
(* that was aborted, which happens once the proxy is cancelled.            *)
TakenIsKnown ==
    \A t \in Tasks : taken[t] # "none" => clientLock = t \/ (task[t] = "ended" /\ Cancelled)

IInv ==
    /\ TypeOK
    /\ IsFiniteSet(Counted)
    /\ TakenIsNotStored
    /\ StartsAlone
    /\ TakenIsKnown

LEMMA IInvParts ==
    ASSUME IInv
    PROVE  /\ TypeOK /\ IsFiniteSet(Counted)
           /\ TakenIsNotStored /\ StartsAlone /\ TakenIsKnown
  BY DEF IInv

-----------------------------------------------------------------------------
(* What a move of one connection does to those that are counted.           *)

LEMMA CountStays ==
    ASSUME connection \in [Connections -> Places], NEW c \in Connections, NEW place \in Places,
           Move(c, place),
           place \in Serving \cup {"released"}
               <=> connection[c] \in Serving \cup {"released"}
    PROVE  Counted' = Counted
  BY DEF Move, Counted

LEMMA CountGrows ==
    ASSUME connection \in [Connections -> Places], NEW c \in Connections, NEW place \in Serving,
           Move(c, place), connection[c] \notin Serving \cup {"released"},
           IsFiniteSet(Counted)
    PROVE  /\ IsFiniteSet(Counted') /\ Cardinality(Counted) \in Nat
           /\ Cardinality(Counted') = Cardinality(Counted) + 1
<1>1. Counted' = Counted \cup {c} /\ c \notin Counted
  BY DEF Move, Counted
<1> QED BY <1>1, FS_AddElement, FS_CardinalityType

LEMMA CountShrinks ==
    ASSUME connection \in [Connections -> Places], NEW c \in Connections,
           Move(c, "none"), connection[c] = "released",
           IsFiniteSet(Counted)
    PROVE  /\ IsFiniteSet(Counted') /\ Cardinality(Counted) \in Nat \ {0}
           /\ Cardinality(Counted') = Cardinality(Counted) - 1
<1>1. Counted' = Counted \ {c} /\ c \in Counted
  BY DEF Move, Counted, Serving, Starting
<1>2. Cardinality(Counted) # 0
  BY <1>1, FS_EmptySet
<1> QED BY <1>1, <1>2, FS_RemoveElement, FS_CardinalityType

LEMMA InitIInv == Init => IInv
<1> SUFFICES ASSUME Init PROVE IInv
  OBVIOUS
<1>1. Counted = {}
  BY DEF Init, Counted, Serving, Starting
<1>2. activeConnections = Cardinality(Counted)
  BY <1>1, FS_EmptySet DEF Init
<1>3. /\ \A c \in Connections : initMutex = c <=> connection[c] \in Starting
      /\ \A t \in Tasks : clientLock = t <=> task[t] \in {"taken", "disconnect"}
  BY SocksAssumption DEF Init, Starting
<1>4. /\ connection \in [Connections -> Places]
      /\ attempt \in [Connections -> 0..(MaxRetries - 1)]
      /\ task \in [Tasks -> TaskPlaces]
      /\ taken \in [Tasks -> {"none", "running", "stopping"}]
  BY SocksAssumption DEF Init, Places, TaskPlaces
<1>5. TypeOK
  BY <1>2, <1>3, <1>4 DEF Init, TypeOK, Counted, TunnelStates, Timers, TaskPlaces
<1> QED
  BY <1>1, <1>5, FS_EmptySet, SocksAssumption
     DEF IInv, Init, TakenIsNotStored, StartsAlone, TakenIsKnown

-----------------------------------------------------------------------------
(* The steps of a connection.                                              *)

(* What a connection's step keeps that does not change the counter.        *)
LEMMA ConnectionMoves ==
    ASSUME IInv, NEW c \in Connections, NEW place \in Places, Move(c, place),
           place \in Serving \cup {"released"}
               <=> connection[c] \in Serving \cup {"released"},
           UNCHANGED <<wrapperVars, task, taken, clientLock, activeConnections, timerVars>>,
           mixnetClient' \in BOOLEAN, isMixnetRunning' \in BOOLEAN,
           attempt' \in [Connections -> 0..(MaxRetries - 1)],
           initMutex' \in Connections \cup {Nobody},
           \A d \in Connections : initMutex' = d <=> connection'[d] \in Starting,
           TakenIsNotStored', StartsAlone'
    PROVE  IInv'
<1> USE IInvParts
<1>1. Counted' = Counted
  BY CountStays DEF TypeOK
<1>2. connection' \in [Connections -> Places]
  BY DEF TypeOK, Move
<1>3. TypeOK'
  BY <1>1, <1>2 DEF TypeOK, Counted, wrapperVars, timerVars
<1>4. TakenIsKnown'
  BY DEF TakenIsKnown, Cancelled, wrapperVars
<1> QED BY <1>1, <1>3, <1>4 DEF IInv

(* The attempts never reach MaxRetries: the count goes with the last one.   *)
LEMMA CountsTyped ==
    ASSUME TypeOK, NEW c \in Connections, NEW n \in 0..MaxRetries, NEW place,
           place \in {"connect", "released"} \/ n < MaxRetries,
           Counts(c, n, place)
    PROVE  attempt' \in [Connections -> 0..(MaxRetries - 1)]
<1>1. (IF place \in {"connect", "released"} THEN 0 ELSE n) \in 0..(MaxRetries - 1)
  BY SocksAssumption
<1> QED BY <1>1 DEF Counts, TypeOK

LEMMA AcceptGoes ==
    ASSUME IInv, NEW c \in Connections, Accept(c)
    PROVE  IInv'
<1> USE IInvParts
<1>1. PICK place \in {"accepted", "accepted_existing"} : Move(c, place)
  BY DEF Accept
<1>2. connection' = [connection EXCEPT ![c] = place]
  BY <1>1 DEF Move
<1> QED
  BY <1>1, <1>2, ConnectionMoves
     DEF Accept, TypeOK, Places, Serving, Starting, clientVars, connectionVars,
         TakenIsNotStored, StartsAlone

LEMMA GuardGoes ==
    ASSUME IInv, NEW c \in Connections, ConnectionGuard(c)
    PROVE  IInv'
<1> USE IInvParts
<1>1. PICK place \in {"check", "existing"} : Move(c, place)
  BY DEF ConnectionGuard
<1>2. connection' = [connection EXCEPT ![c] = place]
  BY <1>1 DEF Move
<1>3. /\ IsFiniteSet(Counted') /\ Cardinality(Counted) \in Nat
      /\ Cardinality(Counted') = Cardinality(Counted) + 1
  BY <1>1, CountGrows DEF ConnectionGuard, TypeOK, Serving, Starting
<1>4. TypeOK'
  BY <1>1, <1>2, <1>3
     DEF ConnectionGuard, TypeOK, Counted, Places, Serving, Starting, wrapperVars, clientVars, timerVars
<1>5. TakenIsNotStored' /\ StartsAlone' /\ TakenIsKnown'
  BY <1>1, <1>2
     DEF ConnectionGuard, TypeOK, TakenIsNotStored, StartsAlone, TakenIsKnown, Cancelled, clientVars, wrapperVars
<1> QED BY <1>3, <1>4, <1>5 DEF IInv

LEMMA CheckGoes ==
    ASSUME IInv, NEW c \in Connections, CheckClient(c)
    PROVE  IInv'
<1> USE IInvParts
<1>1. PICK place \in {"connect", "wait"} : Move(c, place) /\ Counts(c, attempt[c], place)
  BY DEF CheckClient
<1>2. connection' = [connection EXCEPT ![c] = place]
  BY <1>1 DEF Move
<1>3. attempt' \in [Connections -> 0..(MaxRetries - 1)]
  BY <1>1, CountsTyped, SocksAssumption DEF TypeOK
<1> QED
  BY <1>1, <1>2, <1>3, ConnectionMoves
     DEF CheckClient, TypeOK, Places, Serving, Starting, clientVars,
         TakenIsNotStored, StartsAlone

LEMMA LockGoes ==
    ASSUME IInv, NEW c \in Connections, LockInit(c)
    PROVE  IInv'
<1> USE IInvParts
<1>1. Move(c, "recheck") /\ connection' = [connection EXCEPT ![c] = "recheck"]
  BY DEF LockInit, Move
<1>2. \A d \in Connections : initMutex' = d <=> connection'[d] \in Starting
  BY <1>1, SocksAssumption DEF LockInit, TypeOK, Starting
<1> QED
  BY <1>1, <1>2, ConnectionMoves
     DEF LockInit, TypeOK, Places, Serving, Starting, clientVars,
         TakenIsNotStored, StartsAlone

(* The check made under the mutex is what lets the start be alone.         *)
LEMMA RecheckGoes ==
    ASSUME IInv, NEW c \in Connections, RecheckClient(c)
    PROVE  IInv'
<1> USE IInvParts
<1>1. PICK place \in {"connect", "start"} :
        /\ Move(c, place) /\ Counts(c, attempt[c], place)
        /\ place = "connect" <=> mixnetClient
  BY DEF RecheckClient, TypeOK
<1>2. connection' = [connection EXCEPT ![c] = place]
  BY <1>1 DEF Move
<1>3. \A d \in Connections : initMutex' = d <=> connection'[d] \in Starting
  BY <1>1, <1>2, SocksAssumption DEF RecheckClient, TypeOK, Starting
<1>4. TakenIsNotStored' /\ StartsAlone'
  BY <1>1, <1>2
     DEF RecheckClient, TypeOK, Free, TakenIsNotStored, StartsAlone, clientVars
<1>5. attempt' \in [Connections -> 0..(MaxRetries - 1)]
  BY <1>1, CountsTyped, SocksAssumption DEF TypeOK
<1> QED
  BY <1>1, <1>2, <1>3, <1>4, <1>5, ConnectionMoves
     DEF RecheckClient, TypeOK, Places, Serving, Starting, clientVars

LEMMA ConnectsGoes ==
    ASSUME IInv, NEW c \in Connections, ClientConnects(c)
    PROVE  IInv'
<1> USE IInvParts
<1>1. Move(c, "store") /\ connection' = [connection EXCEPT ![c] = "store"]
  BY DEF ClientConnects, Move
<1> QED
  BY <1>1, ConnectionMoves
     DEF ClientConnects, TypeOK, Places, Serving, Starting, clientVars,
         TakenIsNotStored, StartsAlone

LEMMA FailsGoes ==
    ASSUME IInv, NEW c \in Connections, StartFails(c)
    PROVE  IInv'
<1> USE IInvParts
<1>1. attempt[c] + 1 \in 0..MaxRetries
  BY SocksAssumption DEF TypeOK
<1>2. PICK place \in {"check", "released"} :
        /\ Move(c, place) /\ Counts(c, attempt[c] + 1, place)
        /\ place = "check" => attempt[c] + 1 < MaxRetries
  BY DEF StartFails
<1>3. connection' = [connection EXCEPT ![c] = place]
  BY <1>2 DEF Move
<1>4. \A d \in Connections : initMutex' = d <=> connection'[d] \in Starting
  BY <1>2, <1>3, SocksAssumption DEF StartFails, TypeOK, Starting
<1>5. TakenIsNotStored' /\ StartsAlone'
  BY <1>1, <1>2, <1>3
     DEF StartFails, TypeOK, TakenIsNotStored, StartsAlone, clientVars
<1>6. attempt' \in [Connections -> 0..(MaxRetries - 1)]
  BY <1>1, <1>2, CountsTyped
<1> QED
  BY <1>2, <1>3, <1>4, <1>5, <1>6, ConnectionMoves
     DEF StartFails, TypeOK, Places, Serving, Starting, clientVars

(* Nobody else starts a client, as they would hold the mutex.              *)
LEMMA StoreGoes ==
    ASSUME IInv, NEW c \in Connections, StoreClient(c)
    PROVE  IInv'
<1> USE IInvParts
<1>1. Move(c, "settle") /\ connection' = [connection EXCEPT ![c] = "settle"]
  BY DEF StoreClient, Move
<1>2. \A d \in Connections : connection'[d] \notin {"start", "store"}
  BY <1>1 DEF StoreClient, TypeOK, Starting
<1> QED
  BY <1>1, <1>2, ConnectionMoves
     DEF StoreClient, TypeOK, Places, Serving, Starting, Free,
         TakenIsNotStored, StartsAlone

LEMMA SettledGoes ==
    ASSUME IInv, NEW c \in Connections, Settled(c)
    PROVE  IInv'
<1> USE IInvParts
<1>1. Move(c, "connect") /\ connection' = [connection EXCEPT ![c] = "connect"]
  BY DEF Settled, Move
<1>2. \A d \in Connections : initMutex' = d <=> connection'[d] \in Starting
  BY <1>1, SocksAssumption DEF Settled, TypeOK, Starting
<1>3. attempt' \in [Connections -> 0..(MaxRetries - 1)]
  BY CountsTyped, SocksAssumption DEF Settled, TypeOK
<1> QED
  BY <1>1, <1>2, <1>3, ConnectionMoves
     DEF Settled, TypeOK, Places, Serving, Starting, clientVars,
         TakenIsNotStored, StartsAlone

LEMMA InternalGoes ==
    ASSUME IInv, NEW c \in Connections, ConnectInternal(c)
    PROVE  IInv'
<1> USE IInvParts
<1>1. Move(c, "proxy") /\ connection' = [connection EXCEPT ![c] = "proxy"]
  BY DEF ConnectInternal, Move
<1> QED
  BY <1>1, ConnectionMoves
     DEF ConnectInternal, TypeOK, Places, Serving, Starting,
         TakenIsNotStored, StartsAlone

LEMMA EndsGoes ==
    ASSUME IInv, NEW c \in Connections, ConnectionEnds(c)
    PROVE  IInv'
<1> USE IInvParts
<1>1. Move(c, "released") /\ connection' = [connection EXCEPT ![c] = "released"]
  BY DEF ConnectionEnds, Move
<1> QED
  BY <1>1, ConnectionMoves
     DEF ConnectionEnds, TypeOK, Places, Serving, Starting, clientVars,
         TakenIsNotStored, StartsAlone

LEMMA DecrementGoes ==
    ASSUME IInv, NEW c \in Connections, Decrement(c)
    PROVE  IInv'
<1> USE IInvParts
<1>1. Move(c, "none") /\ connection' = [connection EXCEPT ![c] = "none"]
  BY DEF Decrement, Move
<1>2. /\ IsFiniteSet(Counted') /\ Cardinality(Counted) \in Nat \ {0}
      /\ Cardinality(Counted') = Cardinality(Counted) - 1
  BY <1>1, CountShrinks DEF Decrement, TypeOK
<1>3. attempt' \in [Connections -> 0..(MaxRetries - 1)]
  BY SocksAssumption DEF Decrement, TypeOK
<1>4. activeConnections' = Cardinality(Counted')
  BY <1>2 DEF Decrement, TypeOK, Counted
<1>5. TypeOK'
  BY <1>1, <1>3, <1>4
     DEF Decrement, TypeOK, Counted, Places, Serving, Starting, wrapperVars, clientVars, timerVars
<1>6. TakenIsNotStored' /\ StartsAlone' /\ TakenIsKnown'
  BY <1>1, SocksAssumption
     DEF Decrement, TypeOK, TakenIsNotStored, StartsAlone, TakenIsKnown, Cancelled, clientVars, wrapperVars
<1> QED BY <1>2, <1>5, <1>6 DEF IInv

-----------------------------------------------------------------------------
(* The steps of the other tasks.                                           *)

(* What a step keeps that leaves the connections alone.                    *)
LEMMA OthersMove ==
    ASSUME IInv, UNCHANGED connectionVars,
           service' \in {"enabled", "cleaning", "disabled"}, tunnel' \in TunnelStates,
           task' \in [Tasks -> TaskPlaces],
           taken' \in [Tasks -> {"none", "running", "stopping"}],
           mixnetClient' \in BOOLEAN, isMixnetRunning' \in BOOLEAN,
           lastConnectionClosed' \in Timers, lastRotation' \in Timers,
           lastVpnState' \in Modes \cup {"none"},
           clientLock' \in Tasks \cup {Nobody},
           \A t \in Tasks : clientLock' = t <=> task'[t] \in {"taken", "disconnect"},
           TakenIsNotStored', StartsAlone', TakenIsKnown'
    PROVE  IInv'
<1> USE IInvParts
<1>1. Counted' = Counted
  BY DEF Counted, connectionVars
<1>2. TypeOK'
  BY DEF TypeOK, connectionVars, TaskPlaces
<1> QED BY <1>1, <1>2 DEF IInv

(* The same of a step that leaves the client and its lock alone as well.   *)
LEMMA OthersIdle ==
    ASSUME IInv, UNCHANGED <<connectionVars, clientVars>>,
           service' \in {"enabled", "cleaning", "disabled"}, tunnel' \in TunnelStates,
           \/ task' = task
           \/ \E t \in Tasks, place \in {"loop", "rotate", "shutdown", "ended"} :
                 task[t] \notin {"taken", "disconnect", "ended"} /\ Goto(t, place),
           Cancelled => Cancelled',
           lastConnectionClosed' \in Timers, lastRotation' \in Timers,
           lastVpnState' \in Modes \cup {"none"}
    PROVE  IInv'
<1> USE IInvParts
<1>1. /\ task' \in [Tasks -> TaskPlaces]
      /\ \A t \in Tasks : clientLock' = t <=> task'[t] \in {"taken", "disconnect"}
      /\ \A t \in Tasks : task[t] = "ended" => task'[t] = "ended"
  <2>1. CASE task' = task
    BY <2>1 DEF TypeOK, clientVars, TaskPlaces
  <2>2. CASE \E t \in Tasks, place \in {"loop", "rotate", "shutdown", "ended"} :
                task[t] \notin {"taken", "disconnect", "ended"} /\ Goto(t, place)
    <3>1. PICK t \in Tasks, place \in {"loop", "rotate", "shutdown", "ended"} :
            task[t] \notin {"taken", "disconnect", "ended"} /\ Goto(t, place)
      BY <2>2
    <3> QED BY <3>1 DEF TypeOK, clientVars, Goto, TaskPlaces
  <2> QED BY <2>1, <2>2
<1>2. TakenIsNotStored' /\ StartsAlone' /\ TakenIsKnown'
  BY <1>1 DEF TakenIsNotStored, StartsAlone, TakenIsKnown, clientVars, connectionVars
<1> QED BY <1>1, <1>2, OthersMove DEF TypeOK, clientVars

LEMMA TakeGoes ==
    ASSUME IInv, NEW t \in Tasks, TakeClient(t)
    PROVE  IInv'
<1> USE IInvParts
<1>1. t # Nobody /\ clientLock = Nobody /\ task[t] = "shutdown"
  BY SocksAssumption DEF TakeClient, Free
<1>2. CASE mixnetClient
  <2>1. task' = [task EXCEPT ![t] = "taken"] /\ taken' = [taken EXCEPT ![t] = "running"]
    BY <1>2 DEF TakeClient, Goto
  <2>2. /\ task' \in [Tasks -> TaskPlaces]
        /\ taken' \in [Tasks -> {"none", "running", "stopping"}]
        /\ \A u \in Tasks : clientLock' = u <=> task'[u] \in {"taken", "disconnect"}
    BY <1>1, <1>2, <2>1, SocksAssumption DEF TakeClient, TypeOK, TaskPlaces
  <2>3. TakenIsNotStored' /\ StartsAlone'
    BY <1>2 DEF TakeClient, TakenIsNotStored, StartsAlone, connectionVars
  <2>4. TakenIsKnown'
    BY <1>1, <1>2, <2>1, SocksAssumption
       DEF TakeClient, TypeOK, TakenIsKnown, Cancelled, wrapperVars
  <2> QED
    BY <1>2, <2>2, <2>3, <2>4, OthersMove DEF TakeClient, TypeOK, wrapperVars
<1>3. CASE ~mixnetClient
  <2>1. \E place \in {"loop", "rotate", "shutdown", "ended"} :
          task[t] \notin {"taken", "disconnect", "ended"} /\ Goto(t, place)
    BY <1>1, <1>3 DEF TakeClient, Round
  <2>2. lastConnectionClosed' \in Timers
    BY <1>3 DEF TakeClient, TypeOK, Timers
  <2> QED
    BY <1>3, <2>1, <2>2, OthersIdle DEF TakeClient, TypeOK, Cancelled, wrapperVars
<1> QED BY <1>2, <1>3 DEF TypeOK

LEMMA TellGoes ==
    ASSUME IInv, NEW t \in Tasks, TellClient(t)
    PROVE  IInv'
<1> USE IInvParts
<1>1. /\ task' = [task EXCEPT ![t] = "disconnect"] /\ task[t] = "taken"
      /\ taken' = [taken EXCEPT ![t] = "stopping"]
  BY DEF TellClient, Goto
<1>2. clientLock = t
  BY <1>1 DEF TypeOK
<1>3. /\ task' \in [Tasks -> TaskPlaces]
      /\ taken' \in [Tasks -> {"none", "running", "stopping"}]
      /\ \A u \in Tasks : clientLock' = u <=> task'[u] \in {"taken", "disconnect"}
  BY <1>1 DEF TellClient, TypeOK, TaskPlaces
<1>4. TakenIsNotStored' /\ StartsAlone'
  BY DEF TellClient, TakenIsNotStored, StartsAlone, connectionVars
<1>5. TakenIsKnown'
  BY <1>1, <1>2 DEF TellClient, TypeOK, TakenIsKnown, Cancelled, wrapperVars
<1> QED
  BY <1>3, <1>4, <1>5, OthersMove DEF TellClient, TypeOK, wrapperVars, timerVars

LEMMA StopsGoes ==
    ASSUME IInv, NEW t \in Tasks, ClientStops(t)
    PROVE  IInv'
<1> USE IInvParts
<1>1. taken' = [taken EXCEPT ![t] = "none"]
  BY DEF ClientStops
<1>2. /\ task' \in [Tasks -> TaskPlaces]
      /\ taken' \in [Tasks -> {"none", "running", "stopping"}]
      /\ \A u \in Tasks : clientLock' = u <=> task'[u] \in {"taken", "disconnect"}
  BY <1>1 DEF ClientStops, TypeOK, TaskPlaces
<1>3. TakenIsNotStored' /\ StartsAlone' /\ TakenIsKnown'
  BY <1>1 DEF ClientStops, TypeOK, TakenIsNotStored, StartsAlone, TakenIsKnown, Cancelled,
              wrapperVars, connectionVars
<1> QED
  BY <1>2, <1>3, OthersMove DEF ClientStops, TypeOK, wrapperVars, timerVars

LEMMA DisconnectedGoes ==
    ASSUME IInv, NEW t \in Tasks, Disconnected(t)
    PROVE  IInv'
<1> USE IInvParts
<1>1. PICK place \in {"loop", "ended"} : task' = [task EXCEPT ![t] = place]
  BY DEF Disconnected, Round, Goto
<1>2. clientLock = t /\ t # Nobody
  BY SocksAssumption DEF Disconnected, TypeOK
<1>3. /\ task' \in [Tasks -> TaskPlaces]
      /\ \A u \in Tasks : clientLock' = u <=> task'[u] \in {"taken", "disconnect"}
  BY <1>1, SocksAssumption DEF Disconnected, TypeOK, TaskPlaces
<1>4. TakenIsNotStored' /\ StartsAlone'
  BY DEF Disconnected, TakenIsNotStored, StartsAlone, connectionVars
<1>5. TakenIsKnown'
  BY <1>1, <1>2 DEF Disconnected, TypeOK, TakenIsKnown, Cancelled, wrapperVars
<1>6. lastConnectionClosed' \in Timers
  BY DEF Disconnected, TypeOK, Timers
<1> QED
  BY <1>3, <1>4, <1>5, <1>6, OthersMove DEF Disconnected, TypeOK, wrapperVars

LEMMA MonitorsGo ==
    ASSUME IInv,
           \/ MonitorIdleTimeout \/ MonitorTunnelState
           \/ MonitorRotation \/ RotateNetworkRequester
    PROVE  IInv'
<1> USE IInvParts
<1>1. Monitors \subseteq Tasks
  BY DEF Tasks
<1>2. CASE MonitorIdleTimeout
  <2>1. task["idle"] \notin {"taken", "disconnect", "ended"}
        /\ \E place \in {"loop", "rotate", "shutdown", "ended"} : Goto("idle", place)
    BY <1>2 DEF MonitorIdleTimeout, Round
  <2>2. lastConnectionClosed' \in Timers
    BY <1>2 DEF MonitorIdleTimeout, TypeOK, Timers
  <2> QED
    BY <1>1, <1>2, <2>1, <2>2, OthersIdle
       DEF MonitorIdleTimeout, TypeOK, Cancelled, wrapperVars, Monitors
<1>3. CASE MonitorTunnelState
  <2>1. task["state"] \notin {"taken", "disconnect", "ended"}
        /\ \E place \in {"loop", "rotate", "shutdown", "ended"} : Goto("state", place)
    BY <1>3 DEF MonitorTunnelState, Round
  <2> QED
    BY <1>1, <1>3, <2>1, OthersIdle
       DEF MonitorTunnelState, TypeOK, Cancelled, wrapperVars, Monitors
<1>4. CASE MonitorRotation
  <2>1. task["rotation"] \notin {"taken", "disconnect", "ended"}
        /\ \E place \in {"loop", "rotate", "shutdown", "ended"} : Goto("rotation", place)
    BY <1>4 DEF MonitorRotation, Round
  <2>2. lastRotation' \in Timers
    BY <1>4 DEF MonitorRotation, TypeOK, Timers
  <2> QED
    BY <1>1, <1>4, <2>1, <2>2, OthersIdle
       DEF MonitorRotation, TypeOK, Cancelled, wrapperVars, Monitors
<1>5. CASE RotateNetworkRequester
  <2>1. task["rotation"] \notin {"taken", "disconnect", "ended"}
        /\ \E place \in {"loop", "rotate", "shutdown", "ended"} : Goto("rotation", place)
    BY <1>5 DEF RotateNetworkRequester, Round
  <2> QED
    BY <1>1, <1>5, <2>1, OthersIdle
       DEF RotateNetworkRequester, TypeOK, Cancelled, wrapperVars, timerVars, Monitors
<1> QED BY <1>2, <1>3, <1>4, <1>5

LEMMA SurroundingsGo ==
    ASSUME IInv,
           \/ IdleTimeoutElapses \/ RotationIntervalElapses
           \/ Disable \/ TunnelChanges \/ UNCHANGED vars
    PROVE  IInv'
<1> USE IInvParts
<1>1. /\ UNCHANGED <<connectionVars, clientVars>> /\ task' = task
      /\ service' \in {"enabled", "cleaning", "disabled"} /\ tunnel' \in TunnelStates
      /\ lastConnectionClosed' \in Timers /\ lastRotation' \in Timers
      /\ lastVpnState' \in Modes \cup {"none"} /\ (Cancelled => Cancelled')
  BY DEF IdleTimeoutElapses, RotationIntervalElapses, Disable, TunnelChanges, Cancelled, vars,
         wrapperVars, timerVars, TypeOK, Timers
<1> QED BY <1>1, OthersIdle

(* Aborting a task frees the lock, and leaves the client it took as it is. *)
LEMMA AbortsGo ==
    ASSUME IInv, StopAccepting \/ AbortWrapper
    PROVE  IInv'
<1> USE IInvParts
<1>1. PICK tasks \in {Monitors, {"run"}}, next \in {"shutdown", "ended"} :
        /\ Abort(tasks, next)
        /\ "run" \in tasks => next = "ended"
        /\ "run" \in tasks \/ task["run"] \notin {"taken", "disconnect"}
  BY DEF StopAccepting, AbortWrapper, Monitors
<1>2. /\ task' \in [Tasks -> TaskPlaces]
      /\ clientLock' \in Tasks \cup {Nobody}
  BY <1>1 DEF Abort, TypeOK, TaskPlaces
<1>3. \A t \in Tasks : clientLock' = t <=> task'[t] \in {"taken", "disconnect"}
  BY <1>1, SocksAssumption DEF Abort, TypeOK
<1>4. TakenIsNotStored' /\ StartsAlone'
  BY <1>1 DEF StopAccepting, AbortWrapper, Abort, TakenIsNotStored, StartsAlone, connectionVars
<1>5. Cancelled' /\ taken' = taken
  BY DEF StopAccepting, AbortWrapper, Cancelled, wrapperVars
<1>6. \A t \in Tasks : clientLock = t \/ task[t] = "ended" => clientLock' = t \/ task'[t] = "ended"
  BY <1>1 DEF Abort, TypeOK, Tasks
<1>7. TakenIsKnown'
  BY <1>5, <1>6 DEF TakenIsKnown
<1>8. lastVpnState' \in Modes \cup {"none"}
  BY DEF StopAccepting, AbortWrapper, TypeOK, timerVars
<1> QED
  BY <1>2, <1>3, <1>4, <1>5, <1>7, <1>8, OthersMove
     DEF StopAccepting, AbortWrapper, TypeOK, wrapperVars, timerVars

-----------------------------------------------------------------------------

LEMMA NextGoes == IInv /\ [Next]_vars => IInv'
<1> SUFFICES ASSUME IInv, [Next]_vars PROVE IInv'
  OBVIOUS
<1>1. CASE \E c \in Connections : ConnectionStep(c)
  <2>1. PICK c \in Connections : ConnectionStep(c)
    BY <1>1
  <2> QED
    BY <2>1, AcceptGoes, GuardGoes, CheckGoes, LockGoes, RecheckGoes, ConnectsGoes, FailsGoes,
       StoreGoes, SettledGoes, InternalGoes, EndsGoes, DecrementGoes
       DEF ConnectionStep
<1>2. CASE \E t \in Tasks :
            TakeClient(t) \/ TellClient(t) \/ ClientStops(t) \/ Disconnected(t)
  BY <1>2, TakeGoes, TellGoes, StopsGoes, DisconnectedGoes
<1>3. CASE MonitorIdleTimeout \/ MonitorTunnelState \/ MonitorRotation \/ RotateNetworkRequester
  BY <1>3, MonitorsGo
<1>4. CASE \/ IdleTimeoutElapses \/ RotationIntervalElapses
           \/ Disable \/ TunnelChanges \/ UNCHANGED vars
  BY <1>4, SurroundingsGo
<1>5. CASE StopAccepting \/ AbortWrapper
  BY <1>5, AbortsGo
<1> QED BY <1>1, <1>2, <1>3, <1>4, <1>5 DEF Next

(* The inductive invariant holds, for any set of connections, number of    *)
(* attempts and order of their steps with the monitors and the aborts.     *)
THEOREM SocksInvHolds == Spec => []IInv
  BY InitIInv, NextGoes, PTL DEF Spec

(* Types; the mutex is held by the connection that starts a client, the    *)
(* lock by the task that disconnects one, and the counter, which saturates *)
(* at zero, counts the connections exactly (ConnectionGuard, lazy_socks5). *)
THEOREM SocksTypes == Spec => []TypeOK
  BY SocksInvHolds, IInvParts, PTL

(* At most one connection starts a client: the one with the mutex; and at  *)
(* most one task stops one: the one with the lock.                         *)
LEMMA OneStores ==
    ASSUME IInv
    PROVE  /\ Storing = {} \/ \E c \in Connections : Storing = {c}
           /\ Storing # {} => ~mixnetClient /\ clientLock = Nobody
<1> USE IInvParts
<1>1. \A c \in Storing : c = initMutex /\ c \in Connections
  BY DEF Storing, TypeOK, Starting
<1>2. ASSUME Storing # {} PROVE Storing = {initMutex} /\ initMutex \in Connections
  <2>1. PICK c \in Storing : TRUE
    BY <1>2
  <2>2. \A x : x \in Storing <=> x \in {initMutex}
    BY <1>1, <2>1
  <2> QED BY <1>1, <2>1, <2>2
<1> QED BY <1>2 DEF Storing, StartsAlone

LEMMA OneStops ==
    ASSUME IInv
    PROVE  IF clientLock = Nobody THEN Stopping = {}
           ELSE Stopping \in SUBSET {clientLock} /\ ~mixnetClient
<1> USE IInvParts
<1>1. \A t \in Stopping : t \in Tasks /\ clientLock = t
  BY DEF Stopping, TakenIsKnown
<1>2. CASE clientLock = Nobody
  BY <1>1, <1>2, SocksAssumption
<1>3. CASE clientLock # Nobody
  BY <1>1, <1>3 DEF TakenIsNotStored
<1> QED BY <1>2, <1>3

(* However connections, retries and monitors interleave, there is never a  *)
(* second client of the mixnet that a task of the proxy looks after: none  *)
(* connects while one is stored or disconnecting; and a client is let go of*)
(* only by an abort (start_mixnet_backend, shutdown_backend, run).         *)
THEOREM NeverTwoBackends == Spec => []OneBackend
<1>1. IInv => OneBackend
  <2> SUFFICES ASSUME IInv PROVE OneBackend
    OBVIOUS
  <2> USE IInvParts
  <2>1. Cardinality({}) = 0 /\ \A c : Cardinality({c}) = 1
    BY FS_EmptySet, FS_Singleton
  <2>2. Orphans # {} => Cancelled
    BY SocksAssumption DEF Orphans, TakenIsKnown, TypeOK
  <2>3. LookedAfter = Cardinality(Storing) + (IF mixnetClient THEN 1 ELSE 0) + Cardinality(Stopping)
    BY DEF LookedAfter, Storing, Stopping
  <2>4. Cardinality(Storing) \in {0, 1} /\ (Cardinality(Storing) = 1 => Storing # {})
    <3>1. Storing = {} \/ \E c \in Connections : Storing = {c}
      BY OneStores
    <3>2. CASE Storing = {}
      BY <2>1, <3>2
    <3>3. CASE \E c \in Connections : Storing = {c}
      <4>1. PICK c \in Connections : Storing = {c}
        BY <3>3
      <4>2. Cardinality(Storing) = 1 /\ Storing # {}
        BY <2>1, <4>1
      <4> QED BY <4>2
    <3> QED BY <3>1, <3>2, <3>3
  <2>5. Cardinality(Stopping) \in {0, 1} /\ (Cardinality(Stopping) = 1 => Stopping # {})
    <3>1. Stopping = {} \/ Stopping = {clientLock}
      BY OneStops
    <3>2. CASE Stopping = {}
      BY <2>1, <3>2
    <3>3. CASE Stopping = {clientLock}
      BY <2>1, <3>3
    <3> QED BY <3>1, <3>2, <3>3
  <2>6. CASE clientLock = Nobody
    <3>1. Cardinality(Stopping) = 0
      BY <2>5, <2>6, OneStops
    <3> QED BY <2>2, <2>3, <2>4, <3>1, OneStores DEF OneBackend
  <2>7. CASE clientLock # Nobody
    <3>1. Cardinality(Storing) = 0 /\ ~mixnetClient
      BY <2>4, <2>7, OneStores, OneStops
    <3> QED BY <2>2, <2>3, <2>5, <3>1 DEF OneBackend
  <2> QED BY <2>6, <2>7
<1> QED BY <1>1, SocksInvHolds, PTL

=============================================================================
