----------------------------- MODULE AccountProofs -----------------------------
(***************************************************************************)
(* Proofs about AccountController: its types, that no zk-nyms are asked for*)
(* with a summary of another account, that only the firewall stalls a      *)
(* synchronisation, that ReadyToConnect is earned, and that memory and disk*)
(* agree on the account while the disk does its work.                      *)
(*                                                                         *)
(* The invariant IInv adds to the types what a state knows of the account  *)
(* (Held), and what the events of the synchronisation that are still queued*)
(* will tell it (Synced).                                                  *)
(***************************************************************************)
EXTENDS AccountProperties, TLAPS

-----------------------------------------------------------------------------
(* The inductive invariant.                                                *)

(* The account of a state that works for one is an API account whose device*)
(* is known, unless it was forgotten meanwhile, which only a failure to    *)
(* remove files does; the summary is its own once zk-nyms are asked for.   *)
Held ==
    /\ In("Syncing") /\ shared.account # NoAccount =>
        shared.account \in ApiAccounts /\ shared.device /\ sync.account = shared.account
    /\ In("UpgradeMode") /\ shared.account # NoAccount =>
        /\ shared.account \in ApiAccounts /\ shared.device
        /\ shared.summary = shared.account
    /\ In("RequestingZkNyms") =>
        /\ shared.account \in ApiAccounts /\ shared.device
        /\ shared.summary = shared.account

Sent(event) == \E i \in 1..Len(sync.events) : sync.events[i] = event

(* The summary is handled before the end of the synchronisation is, and the*)
(* task does not end without a last event, unless the firewall ends it.    *)
Synced ==
    /\ sync.stage = "Asking" => sync.events = <<>>
    /\ sync.stage = "Checking" \/ Sent("Finished") =>
        \/ ~In("Syncing") \/ shared.account = NoAccount
        \/ shared.summary = shared.account
        \/ sync.events # <<>> /\ Head(sync.events) = "Summary"
    /\ In("Syncing") /\ sync.stage = "Idle" =>
        \/ shared.firewall /\ told = "up"
        \/ sync.events # <<>> /\ sync.events[Len(sync.events)] # "Summary"

(* The part of the invariant that concerns the state and its tasks.        *)
Kept ==
    /\ state \in State /\ shared \in Shared /\ sync \in SyncTask
    /\ fetch \in {"None", "Running"} \cup FetchResults
    /\ strays \in 0..MaxStrays
    /\ sync # NoSync => In("Syncing")
    /\ fetch # "None" <=> In("RequestingZkNyms")
    /\ Held /\ Synced

IInv ==
    Kept /\ OfflineTypeOK /\ storage \in Storage /\ told \in {"up", "down"}

(* What every step does; ReadyToConnect follows RequestingZkNyms only.     *)
Goes ==
    /\ IInv'
    /\ state'.name = "ReadyToConnect" => In("ReadyToConnect") \/ In("RequestingZkNyms")

-----------------------------------------------------------------------------
(* States and what is entered.                                             *)

LEMMA Bounds ==
    /\ MaxStrays \in Nat /\ MaxAttempts \in Nat
    /\ NoAccount \notin Accounts
    /\ 0 \in Attempts /\ MaxAttempts + 1 \in Attempts
    /\ \A attempts \in Attempts : Bump(attempts) \in Attempts
BY BoundAssumption, AccountAssumption DEF Attempts, Bump

(* The fields of a state, and of one just made.                            *)
LEMMA StateParts ==
    /\ \A st \in State : st.name \in {"Syncing", "RequestingZkNyms"} => st.attempts \in Attempts
    /\ \A name \in {"LoggedOut", "Offline", "ReadyToConnect", "Decentralised", "UpgradeMode",
                    "PendingSubscription", "Error", "Finished"} :
        Simple(name) \in State /\ Simple(name).name = name
    /\ \A attempts \in Attempts :
        /\ Syncing(attempts) \in State /\ Syncing(attempts).name = "Syncing"
        /\ Requesting(attempts) \in State /\ Requesting(attempts).name = "RequestingZkNyms"
BY DEF State, Simple, Syncing, Requesting

LEMMA SharedParts ==
    \A s \in Shared :
        /\ s.account \in MaybeAccounts /\ s.summary \in MaybeAccounts
        /\ s.device \in BOOLEAN /\ s.firewall \in BOOLEAN
        /\ s.account # NoAccount /\ s.account \notin DecentralisedAccounts =>
            s.account \in ApiAccounts
        /\ [s EXCEPT !.firewall = TRUE] \in Shared
        /\ [s EXCEPT !.firewall = FALSE] \in Shared
BY DEF Shared, MaybeAccounts, Accounts

(* A state that may be entered with the shared state s.                    *)
Enterable(st, s) ==
    /\ st \in State /\ s \in Shared
    /\ st.name = "Syncing" => s.account \in ApiAccounts /\ s.device
    /\ st.name \in {"RequestingZkNyms", "UpgradeMode"} /\ s.account # NoAccount =>
        s.account \in ApiAccounts /\ s.device /\ s.summary = s.account
    /\ st.name = "RequestingZkNyms" => s.account # NoAccount

LEMMA EnterSyncingEnterable ==
    ASSUME NEW attempts \in Attempts, NEW s \in Shared
    PROVE  /\ Enterable(EnterSyncing(attempts, s), s)
           /\ EnterSyncing(attempts, s).name # "ReadyToConnect"
BY StateParts, SharedParts DEF EnterSyncing, Enterable

LEMMA EnterRequestingEnterable ==
    ASSUME NEW attempts \in Attempts, NEW s \in Shared,
           s.account # NoAccount => s.account \in ApiAccounts /\ s.summary = s.account
    PROVE  /\ Enterable(EnterRequesting(attempts, s), s)
           /\ EnterRequesting(attempts, s).name # "ReadyToConnect"
BY StateParts, SharedParts DEF EnterRequesting, Enterable

LEMMA SimpleEnterable ==
    \A s \in Shared :
        \A name \in {"LoggedOut", "Offline", "ReadyToConnect", "Decentralised",
                     "PendingSubscription", "Error", "Finished"} :
            Enterable(Simple(name), s)
BY StateParts DEF Enterable

(* A state just entered keeps the invariant: its synchronisation, if it has*)
(* one, starts from nothing.                                               *)
LEMMA NewStateKeeps ==
    ASSUME NEW st, NEW s, Enterable(st, s), NEW rest \in 0..MaxStrays, NewState(st, s, rest)
    PROVE  Kept' /\ state' = st
<1>1. /\ state' = st /\ shared' = s /\ strays' = rest
      /\ sync' = IF st.name = "Syncing" THEN SpawnedSync(s) ELSE NoSync
      /\ fetch' = IF st.name = "RequestingZkNyms" THEN "Running" ELSE "None"
  BY DEF NewState
<1>2. st \in State /\ s \in Shared /\ s.account \in MaybeAccounts
  BY SharedParts DEF Enterable
<1>3. /\ NoAccount \in MaybeAccounts /\ <<>> \in Seq(SyncEvents)
      /\ SpawnedSync(s) \in SyncTask /\ NoSync \in SyncTask
  BY <1>2 DEF SyncTask, SpawnedSync, NoSync, MaybeAccounts
<1>4. /\ SpawnedSync(s).stage = "Asking" /\ SpawnedSync(s).events = <<>>
      /\ SpawnedSync(s).account = s.account
      /\ NoSync.stage = "Idle" /\ NoSync.events = <<>>
  BY DEF SpawnedSync, NoSync
<1>5. sync'.events = <<>> /\ Len(sync'.events) = 0 /\ sync'.stage # "Checking"
  BY <1>1, <1>4
<1>6. Held'
  BY <1>1, <1>4 DEF Held, Enterable, In
<1>7. Synced'
  BY <1>1, <1>4, <1>5 DEF Synced, Sent, In
<1> QED BY <1>1, <1>2, <1>3, <1>6, <1>7 DEF Kept, In

LEMMA EnterKeeps ==
    ASSUME IInv, NEW st, NEW s, Enterable(st, s), Enter(st, s) \/ AbortAndEnter(st, s)
    PROVE  Kept' /\ state' = st
<1>1. strays \in 0..MaxStrays /\ Detached \in 0..MaxStrays
  BY Bounds DEF IInv, Kept, Detached
<1> QED BY <1>1, NewStateKeeps DEF Enter, AbortAndEnter

(* Nothing changes but the shared state, as little as to keep Held.        *)
LEMMA SameKeeps ==
    ASSUME IInv, NEW s, s \in Shared, SameState(s), UNCHANGED told,
           \/ s.account = NoAccount /\ ~In("RequestingZkNyms")
           \/ /\ s.account = shared.account /\ s.summary = shared.summary
              /\ s.device = shared.device
              /\ s.firewall = shared.firewall
           \/ ~In("Syncing") /\ ~In("RequestingZkNyms") /\ ~In("UpgradeMode"),
           In("Syncing") => s.firewall = shared.firewall
    PROVE  Kept' /\ state' = state
<1>1. /\ shared' = s /\ state' = state /\ sync' = sync /\ fetch' = fetch
      /\ strays' = strays /\ told' = told
  BY DEF SameState
<1>2. Held'
  BY <1>1 DEF IInv, Kept, Held, In
<1>3. Synced'
  <2>1. Sent("Finished")' <=> Sent("Finished")
    BY <1>1 DEF Sent
  <2> QED BY <1>1, <2>1 DEF IInv, Kept, Synced, In
<1> QED BY <1>1, <1>2, <1>3 DEF IInv, Kept, In

-----------------------------------------------------------------------------
(* Storage.                                                                *)

(* What forgetting leaves is a storage; the account is forgotten in memory *)
(* or nothing is.                                                          *)
LEMMA ForgetOutcomes ==
    ASSUME storage \in Storage, shared \in Shared, NEW o \in ForgetAccount
    PROVE  /\ o.storage \in Storage
           /\ o.ok => o.shared = Forgotten
           /\ \/ o.shared = shared
              \/ /\ o.shared = Forgotten
                 /\ o.storage.account = NoAccount /\ ~o.storage.keys
           /\ Forgotten \in Shared /\ Forgotten.account = NoAccount
           /\ Forgotten.firewall = shared.firewall /\ ~Forgotten.device
<1>1. /\ Forgotten \in Shared /\ Forgotten.account = NoAccount
      /\ Forgotten.firewall = shared.firewall /\ ~Forgotten.device
  BY DEF Forgotten, Shared, MaybeAccounts
<1>2. /\ CredentialsClosed \in Storage /\ CredentialsReset \in Storage
  BY DEF CredentialsClosed, CredentialsReset, Storage
<1>3. /\ PendingReset \in Storage
      /\ \A p \in {"closed", "gone"} : [CredentialsReset EXCEPT !.pending = p] \in Storage
  BY <1>2 DEF PendingReset, Storage
<1>4. FilesRemoved \in Storage
  BY <1>3 DEF FilesRemoved, Storage
<1>5. /\ AccountRemoved \in Storage /\ AccountRemoved.account = NoAccount
      /\ ~AccountRemoved.keys
  BY <1>4 DEF AccountRemoved, FilesRemoved, PendingReset, CredentialsReset, Storage, MaybeAccounts
<1>6. KeysOverwritten \in Storage
  BY <1>5 DEF KeysOverwritten, Storage
<1>7. \A operation \in DOMAIN LeftByForget : LeftByForget[operation] \subseteq Storage
  BY <1>2, <1>3, <1>4, <1>6 DEF LeftByForget
<1>8. FailingOperations \subseteq DOMAIN LeftByForget
  BY DEF FailingOperations
<1>9. CASE o \in {Outcome(shared, disk, FALSE) :
                    disk \in UNION {LeftByForget[operation] : operation \in FailingOperations}}
  BY <1>1, <1>7, <1>8, <1>9 DEF Outcome
<1>10. CASE o \in {Outcome(Forgotten, AccountRemoved, ok) :
                    ok \in {TRUE} \cup IF "files" \in Faults THEN {FALSE} ELSE {}}
  <2>1. PICK ok \in {TRUE} \cup IF "files" \in Faults THEN {FALSE} ELSE {} :
            o = Outcome(Forgotten, AccountRemoved, ok)
    BY <1>10
  <2>2. o.shared = Forgotten /\ o.storage = AccountRemoved
    BY <2>1 DEF Outcome
  <2> QED BY <1>1, <1>5, <2>2
<1> QED BY <1>9, <1>10 DEF ForgetAccount

LEMMA StoreOutcomes ==
    ASSUME storage \in Storage, shared \in Shared, NEW account \in Accounts,
           NEW o \in StoreAccount(account)
    PROVE  o.storage \in Storage /\ o.shared \in Shared
<1>1. /\ KeysStored \in Storage /\ AccountStored(account) \in Storage
      /\ [shared EXCEPT !.account = account, !.device = TRUE] \in Shared
  BY DEF KeysStored, AccountStored, Storage, Shared, MaybeAccounts
<1> QED BY <1>1 DEF StoreAccount, Outcome

LEMMA ResetOutcomes ==
    ASSUME storage \in Storage, shared \in Shared, NEW o \in ResetDeviceIdentity
    PROVE  /\ o.storage \in Storage
           /\ IF o.ok THEN o.shared = [shared EXCEPT !.device = TRUE] /\ o.storage = KeysStored
                      ELSE o.shared = shared /\ o.storage = storage
           /\ [shared EXCEPT !.device = TRUE] \in Shared
<1>1. KeysStored \in Storage /\ [shared EXCEPT !.device = TRUE] \in Shared
  BY DEF KeysStored, Storage, Shared
<1>2. CASE o = Outcome([shared EXCEPT !.device = TRUE], KeysStored, TRUE)
  BY <1>1, <1>2 DEF Outcome
<1>3. CASE o = Outcome(shared, storage, FALSE)
  BY <1>1, <1>3 DEF Outcome
<1> QED BY <1>2, <1>3 DEF ResetDeviceIdentity


-----------------------------------------------------------------------------
(* Commands.                                                               *)

LEMMA IInvParts ==
    ASSUME IInv
    PROVE  /\ Kept /\ state \in State /\ shared \in Shared /\ storage \in Storage
           /\ told \in {"up", "down"}
           /\ OfflineTypeOK
           /\ UNCHANGED offlineVars => OfflineTypeOK'
           /\ state.name \in {"Syncing", "RequestingZkNyms"} => state.attempts \in Attempts
           /\ In("RequestingZkNyms") =>
                /\ shared.account \in ApiAccounts /\ shared.device
                /\ shared.summary = shared.account
           /\ In("UpgradeMode") /\ shared.account # NoAccount =>
                shared.account \in ApiAccounts /\ shared.summary = shared.account
           /\ In("RequestingZkNyms") => shared.account # NoAccount
BY StateParts, AccountAssumption
   DEF IInv, Kept, Held, OfflineTypeOK, offlineVars, Accounts

LEMMA StoreGoes ==
    ASSUME IInv, Store
    PROVE  Goes
<1> USE IInvParts, Bounds, StateParts
<1>0. PICK account \in Accounts : \E o \in StoreAccount(account) :
        /\ storage' = o.storage
        /\ \/ In("Offline") /\ SameState(o.shared)
           \/ /\ In("LoggedOut")
              /\ IF o.ok THEN Enter(EnterSyncing(0, o.shared), o.shared)
                         ELSE SameState(o.shared)
  BY DEF Store
<1>1. PICK o \in StoreAccount(account) :
        /\ storage' = o.storage
        /\ \/ In("Offline") /\ SameState(o.shared)
           \/ /\ In("LoggedOut")
              /\ IF o.ok THEN Enter(EnterSyncing(0, o.shared), o.shared)
                         ELSE SameState(o.shared)
  BY <1>0
<1>2. UNCHANGED <<told, offlineVars>>
  BY DEF Store, Command
<1>3. o.storage \in Storage /\ o.shared \in Shared
  BY <1>1, StoreOutcomes
<1>4. Kept' /\ state'.name # "ReadyToConnect"
  <2>1. CASE SameState(o.shared) /\ (In("Offline") \/ In("LoggedOut"))
    BY <1>2, <1>3, <2>1, SameKeeps DEF In
  <2>2. CASE Enter(EnterSyncing(0, o.shared), o.shared)
    BY <1>3, <2>2, EnterSyncingEnterable, EnterKeeps
  <2> QED BY <1>1, <2>1, <2>2
<1> QED BY <1>1, <1>2, <1>3, <1>4 DEF Goes, IInv

LEMMA CreateGoes ==
    ASSUME IInv, Create
    PROVE  Goes
<1> USE IInvParts, Bounds, StateParts
<1>1. PICK account \in ApiAccounts : \E o \in StoreAccount(account) :
        storage' = o.storage /\ Enter(EnterSyncing(0, o.shared), o.shared)
  BY DEF Create
<1>2. PICK o \in StoreAccount(account) :
        storage' = o.storage /\ Enter(EnterSyncing(0, o.shared), o.shared)
  BY <1>1
<1>3. o.storage \in Storage /\ o.shared \in Shared
  BY StoreOutcomes DEF Accounts
<1>4. Kept' /\ state'.name # "ReadyToConnect"
  BY <1>2, <1>3, EnterSyncingEnterable, EnterKeeps
<1> QED BY <1>2, <1>3, <1>4 DEF Create, Command, Goes, IInv

(* Where forgetting the account fails, the state stays what it is, or is a *)
(* new synchronisation.                                                    *)
LEMMA ForgetGoes ==
    ASSUME IInv, Forget
    PROVE  Goes
<1> USE IInvParts, Bounds, StateParts
<1>1. PICK o \in ForgetAccount :
        /\ storage' = o.storage
        /\ \/ /\ state.name \in {"Syncing", "ReadyToConnect", "UpgradeMode", "Decentralised"}
              /\ IF o.ok THEN Enter(Simple("LoggedOut"), o.shared)
                         ELSE SameState(o.shared)
           \/ AbortAndEnter(IF o.ok THEN Simple("LoggedOut")
                                    ELSE EnterSyncing(0, o.shared), o.shared)
  BY DEF Forget
<1>2. UNCHANGED <<told, offlineVars>>
  BY DEF Forget, Command
<1>3. /\ o.storage \in Storage
      /\ o.shared \in {shared, Forgotten} /\ o.shared \in Shared
      /\ Forgotten.account = NoAccount /\ Forgotten.firewall = shared.firewall
  BY ForgetOutcomes
<1>4. Kept' /\ (state'.name = "ReadyToConnect" => In("ReadyToConnect"))
  <2>1. CASE /\ state.name \in {"Syncing", "ReadyToConnect", "UpgradeMode", "Decentralised"}
             /\ SameState(o.shared)
    BY <1>2, <1>3, <2>1, SameKeeps DEF In
  <2>2. CASE \/ Enter(Simple("LoggedOut"), o.shared)
             \/ AbortAndEnter(Simple("LoggedOut"), o.shared)
    BY <1>3, <2>2, SimpleEnterable, EnterKeeps
  <2>3. CASE AbortAndEnter(EnterSyncing(0, o.shared), o.shared)
    BY <1>3, <2>3, EnterSyncingEnterable, EnterKeeps
  <2> QED BY <1>1, <2>1, <2>2, <2>3
<1> QED BY <1>1, <1>2, <1>3, <1>4 DEF Goes, IInv

LEMMA ExitUpgradeModeGoes ==
    ASSUME IInv, NEW s \in Shared, NEW disk \in Storage, ExitUpgradeMode(s, disk),
           UNCHANGED <<told, offlineVars>>
    PROVE  Goes
<1> USE IInvParts, Bounds, StateParts
<1>1. CASE storage' = disk /\ Enter(Simple("Error"), s)
  BY <1>1, SimpleEnterable, EnterKeeps DEF Goes, IInv
<1>2. CASE storage' = [disk EXCEPT !.jwt = FALSE] /\ Enter(EnterSyncing(0, s), s)
  <2>1. storage' \in Storage
    BY <1>2 DEF Storage
  <2> QED BY <1>2, <2>1, EnterSyncingEnterable, EnterKeeps DEF Goes, IInv
<1> QED BY <1>1, <1>2 DEF ExitUpgradeMode

LEMMA ResetDeviceGoes ==
    ASSUME IInv, ResetDevice
    PROVE  Goes
<1> USE IInvParts, Bounds, StateParts
<1>1. PICK o \in ResetDeviceIdentity :
        \/ /\ storage' = o.storage
           /\ AbortAndEnter(EnterSyncing(0, o.shared), o.shared)
        \/ /\ state.name \in {"ReadyToConnect", "Error", "PendingSubscription"}
           /\ storage' = o.storage
           /\ IF o.ok THEN Enter(EnterSyncing(0, o.shared), o.shared)
                      ELSE SameState(o.shared)
        \/ /\ In("UpgradeMode")
           /\ IF o.ok THEN ExitUpgradeMode(o.shared, o.storage)
                      ELSE SameState(o.shared) /\ UNCHANGED storage
  BY DEF ResetDevice
<1>2. UNCHANGED <<told, offlineVars>>
  BY DEF ResetDevice, Command
<1>3. /\ o.storage \in Storage /\ o.shared \in Shared
      /\ ~o.ok => o.shared = shared
  BY ResetOutcomes
<1>4. CASE /\ storage' = o.storage
           /\ \/ AbortAndEnter(EnterSyncing(0, o.shared), o.shared)
              \/ Enter(EnterSyncing(0, o.shared), o.shared)
  BY <1>2, <1>3, <1>4, EnterSyncingEnterable, EnterKeeps DEF Goes, IInv
<1>5. CASE /\ storage' = o.storage \/ storage' = storage
           /\ SameState(o.shared) /\ ~o.ok
  <2>1. Kept' /\ state' = state
    BY <1>2, <1>3, <1>5, SameKeeps
  <2> QED BY <1>2, <1>3, <1>5, <2>1 DEF Goes, IInv, In
<1>6. CASE ExitUpgradeMode(o.shared, o.storage)
  BY <1>2, <1>3, <1>6, ExitUpgradeModeGoes
<1> QED BY <1>1, <1>4, <1>5, <1>6

LEMMA RefreshGoes ==
    ASSUME IInv, Refresh \/ DisableUpgradeMode
    PROVE  Goes
<1> USE IInvParts, Bounds, StateParts
<1>1. UNCHANGED <<told, offlineVars>>
  BY DEF Refresh, DisableUpgradeMode, Command
<1>2. CASE AbortAndEnter(EnterSyncing(0, shared), shared) /\ UNCHANGED storage
  BY <1>1, <1>2, EnterSyncingEnterable, EnterKeeps DEF Goes, IInv
<1>3. CASE ExitUpgradeMode(shared, storage)
  BY <1>1, <1>3, ExitUpgradeModeGoes
<1> QED BY <1>2, <1>3 DEF Refresh, DisableUpgradeMode

(* The firewall ends the tasks, and is remembered by every state that waits*)
(* for one.                                                                *)
LEMMA FirewallUpGoes ==
    ASSUME IInv, FirewallUp
    PROVE  Goes
<1> USE IInvParts, Bounds, StateParts
<1>1. /\ told' = "up" /\ state' = state /\ strays' = strays /\ storage' = storage
      /\ UNCHANGED offlineVars
      /\ shared' = IF In("Decentralised") THEN shared ELSE [shared EXCEPT !.firewall = TRUE]
      /\ sync' = [sync EXCEPT !.stage = "Idle"]
      /\ fetch' = IF fetch = "Running" THEN "Aborted" ELSE fetch
  BY DEF FirewallUp, Command
<1>2. /\ shared' \in Shared /\ shared'.account = shared.account
      /\ shared'.device = shared.device /\ shared'.summary = shared.summary
      /\ ~In("Decentralised") => shared'.firewall
  BY <1>1, SharedParts DEF Shared
<1>3. /\ sync \in SyncTask /\ sync' \in SyncTask /\ sync'.stage = "Idle"
      /\ sync'.events = sync.events /\ sync'.account = sync.account
      /\ sync' # NoSync => In("Syncing")
  <2>1. sync \in SyncTask
    BY DEF Kept
  <2>2. /\ sync' \in SyncTask /\ sync'.stage = "Idle"
        /\ sync'.events = sync.events /\ sync'.account = sync.account
    BY <1>1, <2>1 DEF SyncTask
  <2>3. sync = NoSync => sync' = NoSync
    BY <1>1 DEF NoSync
  <2> QED BY <2>1, <2>2, <2>3 DEF Kept
<1>4. Held'
  BY <1>1, <1>2, <1>3 DEF Kept, Held, In
<1>5. Synced'
  <2>1. Sent("Finished")' <=> Sent("Finished")
    BY <1>3 DEF Sent
  <2> QED BY <1>1, <1>2, <1>3, <2>1 DEF Kept, Synced, In
<1>6. Kept'
  BY <1>1, <1>2, <1>3, <1>4, <1>5 DEF Kept, In, FetchResults
<1> QED BY <1>1, <1>6 DEF Goes, IInv, In

LEMMA FirewallDownGoes ==
    ASSUME IInv, FirewallDown
    PROVE  Goes
<1> USE IInvParts, Bounds, StateParts
<1> DEFINE s == [shared EXCEPT !.firewall = FALSE]
<1>1. told' = "down" /\ storage' = storage /\ UNCHANGED offlineVars
  BY DEF FirewallDown, Command
<1>2. /\ s \in Shared /\ s.account = shared.account /\ s.device = shared.device
      /\ s.summary = shared.summary
  BY SharedParts DEF Shared
<1>3. CASE SameState(shared) /\ (In("Decentralised") \/ ~shared.firewall)
  <2>1. /\ shared' = shared /\ state' = state /\ sync' = sync /\ fetch' = fetch
        /\ strays' = strays
    BY <1>3 DEF SameState
  <2>2. Held'
    BY <2>1 DEF Kept, Held, In
  <2>3. Synced'
    <3>1. Sent("Finished")' <=> Sent("Finished")
      BY <2>1 DEF Sent
    <3> QED BY <1>3, <2>1, <3>1 DEF Kept, Synced, In
  <2> QED BY <1>1, <2>1, <2>2, <2>3 DEF Goes, IInv, Kept, In
<1> HIDE DEF s
<1>4. CASE In("Syncing") /\ Enter(EnterSyncing(state.attempts, s), s)
  BY <1>1, <1>2, <1>4, EnterSyncingEnterable, EnterKeeps DEF Goes, IInv, In
<1>5. CASE In("RequestingZkNyms") /\ Enter(EnterRequesting(state.attempts, s), s)
  <2>1. s.account \in ApiAccounts /\ s.summary = s.account /\ state.attempts \in Attempts
    BY <1>2, <1>5 DEF In
  <2>2. Enterable(EnterRequesting(state.attempts, s), s)
    BY <1>2, <2>1, EnterRequestingEnterable
  <2> QED BY <1>1, <1>5, <2>2, EnterKeeps DEF Goes, IInv
<1>6. CASE ~In("Syncing") /\ ~In("RequestingZkNyms") /\ SameState(s)
  <2>1. /\ shared' = s /\ state' = state /\ sync' = sync /\ fetch' = fetch
        /\ strays' = strays
    BY <1>6 DEF SameState
  <2>2. Held'
    BY <1>2, <1>6, <2>1 DEF Kept, Held, In
  <2>3. Synced'
    BY <1>6, <2>1 DEF Kept, Synced, In
  <2> QED BY <1>1, <1>2, <2>1, <2>2, <2>3 DEF Goes, IInv, Kept, In
<1> QED BY <1>3, <1>4, <1>5, <1>6 DEF FirewallDown, FirewallDownRestarts, s

-----------------------------------------------------------------------------
(* The tasks and what they send.                                           *)

(* A summary is sent first, an end last.                                   *)
LEMMA SyncStepGoes ==
    ASSUME IInv, SyncStep
    PROVE  Goes
<1> USE IInvParts
<1>1. /\ state' = state /\ shared' = shared /\ fetch' = fetch /\ strays' = strays
      /\ storage' = storage /\ told' = told /\ UNCHANGED offlineVars
  BY DEF SyncStep
<1>2. PICK stage \in {"Checking", "Idle"}, event \in SyncEvents :
        /\ SyncSends(stage, event)
        /\ \/ sync.stage = "Asking" /\ stage = "Checking" /\ event = "Summary"
           \/ sync.stage = "Asking" /\ stage = "Idle" /\ event \in {"Retryable", "Fatal"}
           \/ sync.stage = "Checking" /\ stage = "Idle" /\ event # "Summary"
  BY DEF SyncStep, SyncEvents
<1>3. sync \in SyncTask /\ sync.events \in Seq(SyncEvents)
  BY DEF Kept, SyncTask
<1>4. /\ sync' \in SyncTask /\ sync'.stage = stage /\ sync'.account = sync.account
      /\ sync'.events = Append(sync.events, event)
  <2>1. Append(sync.events, event) \in Seq(SyncEvents)
    BY <1>3
  <2> QED BY <1>2, <1>3, <2>1 DEF SyncSends, SyncTask
<1>5. In("Syncing")
  BY <1>2 DEF Kept, NoSync
<1>6. /\ Len(sync'.events) = Len(sync.events) + 1 /\ Len(sync.events) \in Nat
      /\ sync'.events # <<>> /\ sync'.events[Len(sync'.events)] = event
      /\ sync.events # <<>> => Head(sync'.events) = Head(sync.events)
      /\ sync.events = <<>> => Head(sync'.events) = event
      /\ \A i \in 1..Len(sync.events) : sync'.events[i] = sync.events[i]
  BY <1>3, <1>4
<1>7. Held'
  BY <1>1, <1>4, <1>5 DEF Kept, Held, In
<1>8. Synced'
  <2>1. Sent("Finished")' => Sent("Finished") \/ event = "Finished"
    BY <1>6 DEF Sent
  <2>2. CASE sync.stage = "Asking"
    <3>1. sync.events = <<>>
      BY <2>2 DEF Kept, Synced
    <3>2. ~Sent("Finished")
      BY <3>1 DEF Sent
    <3> QED BY <1>2, <1>4, <1>6, <2>1, <2>2, <3>1, <3>2 DEF Synced
  <2>3. CASE sync.stage = "Checking"
    <3>1. \/ shared.account = NoAccount \/ shared.summary = shared.account
          \/ sync.events # <<>> /\ Head(sync.events) = "Summary"
      BY <1>5, <2>3 DEF Kept, Synced
    <3> QED BY <1>1, <1>2, <1>4, <1>6, <2>3, <3>1 DEF Synced
  <2> QED BY <1>2, <2>2, <2>3
<1> QED BY <1>1, <1>4, <1>5, <1>7, <1>8 DEF Goes, IInv, Kept, In

(* What is last in a queue stays last when the first is taken.             *)
LEMMA LastOfTail ==
    ASSUME NEW S, NEW q \in Seq(S), q # <<>>, Len(q) # 1
    PROVE  Tail(q) # <<>> /\ Tail(q)[Len(Tail(q))] = q[Len(q)]
<1>1. Len(q) \in Nat /\ Len(q) # 0
  OBVIOUS
<1>2. PICK n \in Nat : Len(q) = n + 2
  <2>1. \A m \in Nat : m # 0 /\ m # 1 => m - 2 \in Nat /\ m = (m - 2) + 2
    OBVIOUS
  <2> QED BY <1>1, <2>1
<1>3. Len(Tail(q)) = n + 1
  BY <1>2
<1>4. Tail(q)[n + 1] = q[n + 2]
  BY <1>2
<1> QED BY <1>2, <1>3, <1>4

LEMMA HandleSyncEventGoes ==
    ASSUME IInv, HandleSyncEvent
    PROVE  Goes
<1> USE IInvParts, Bounds, StateParts
<1>1. /\ In("Syncing") /\ sync.events # <<>>
      /\ storage' = storage /\ told' = told /\ UNCHANGED offlineVars
  BY DEF HandleSyncEvent
<1>2. sync \in SyncTask /\ sync.events \in Seq(SyncEvents) /\ sync.account \in MaybeAccounts
  BY DEF Kept, SyncTask
<1>3. CASE Head(sync.events) = "Summary"
  <2>1. /\ shared' = [shared EXCEPT !.summary = sync.account]
        /\ sync' = [sync EXCEPT !.events = Tail(@)]
        /\ state' = state /\ fetch' = fetch /\ strays' = strays
    BY <1>3 DEF HandleSyncEvent
  <2>2. /\ shared' \in Shared /\ shared'.account = shared.account
        /\ shared'.device = shared.device /\ shared'.firewall = shared.firewall
        /\ shared'.summary = sync.account
    BY <1>2, <2>1 DEF Shared
  <2>3. /\ sync' \in SyncTask /\ sync'.stage = sync.stage
        /\ sync'.account = sync.account /\ sync'.events = Tail(sync.events)
    <3>1. Tail(sync.events) \in Seq(SyncEvents)
      BY <1>1, <1>2
    <3> QED BY <1>2, <2>1, <3>1 DEF SyncTask
  <2>4. Held'
    BY <1>1, <2>1, <2>2, <2>3 DEF Kept, Held, In
  <2>5. Synced'
    <3>1. sync.stage # "Asking"
      BY <1>1 DEF Kept, Synced
    <3>2. shared.account = NoAccount \/ shared'.summary = shared.account
      BY <1>1, <2>2 DEF Kept, Held
    <3>3. sync.events[Len(sync.events)] # "Summary" =>
            /\ sync'.events # <<>>
            /\ sync'.events[Len(sync'.events)] = sync.events[Len(sync.events)]
      <4>1. sync.events[Len(sync.events)] # "Summary" => Len(sync.events) # 1
        BY <1>1, <1>2, <1>3
      <4> QED BY <1>1, <1>2, <2>3, <4>1, LastOfTail
    <3> QED BY <1>1, <2>1, <2>2, <2>3, <3>1, <3>2, <3>3 DEF Kept, Synced, In
  <2> QED BY <1>1, <2>1, <2>2, <2>3, <2>4, <2>5 DEF Goes, IInv, Kept, In
<1>4. CASE Head(sync.events) # "Summary"
  <2> DEFINE event == Head(sync.events)
  <2>1. Enter(AfterSync(event), shared)
    BY <1>4 DEF HandleSyncEvent
  <2>2. event = "Finished" /\ shared.account # NoAccount =>
            shared.account \in ApiAccounts /\ shared.summary = shared.account
    <3>1. event = "Finished" => Sent("Finished")
      <4>1. event = sync.events[1] /\ 1 \in 1..Len(sync.events)
        BY <1>1, <1>2
      <4> QED BY <4>1 DEF Sent
    <3> QED BY <1>1, <1>4, <3>1 DEF Kept, Synced, Held
  <2>3. Enterable(AfterSync(event), shared) /\ AfterSync(event).name # "ReadyToConnect"
    <3>1. state.attempts \in Attempts /\ Bump(state.attempts) \in Attempts
      BY <1>1 DEF In
    <3> HIDE DEF event
    <3>2. CASE event = "Finished"
      BY <2>2, <3>1, <3>2, EnterRequestingEnterable DEF AfterSync
    <3>3. CASE event # "Finished"
      BY <3>1, <3>3, EnterSyncingEnterable, SimpleEnterable DEF AfterSync
    <3> QED BY <3>2, <3>3
  <2> HIDE DEF event
  <2> QED BY <1>1, <2>1, <2>3, EnterKeeps DEF Goes, IInv
<1> QED BY <1>3, <1>4

LEMMA JwtKept ==
    ASSUME storage \in Storage, NEW valid \in BOOLEAN
    PROVE  [storage EXCEPT !.jwt = valid] \in Storage
BY DEF Storage

LEMMA FetchEndsGoes ==
    ASSUME IInv, FetchEnds
    PROVE  Goes
<1> USE IInvParts
<1>1. /\ fetch = "Running" /\ fetch' \in FetchResults
      /\ storage' = [storage EXCEPT !.jwt = storage.jwt \/ fetch' = "UpgradeMode"]
      /\ state' = state /\ shared' = shared /\ sync' = sync /\ strays' = strays
      /\ told' = told /\ UNCHANGED offlineVars
  BY DEF FetchEnds, FetchResults, FetchErrors
<1>2. storage' \in Storage
  <2>1. (storage.jwt \/ fetch' = "UpgradeMode") \in BOOLEAN
    OBVIOUS
  <2> QED BY <1>1, <2>1, JwtKept
<1>3. Held'
  BY <1>1 DEF Kept, Held, In
<1>4. Synced'
  <2>1. Sent("Finished")' <=> Sent("Finished")
    BY <1>1 DEF Sent
  <2> QED BY <1>1, <2>1 DEF Kept, Synced, In
<1>5. fetch' # "None"
  BY <1>1 DEF FetchResults, FetchErrors
<1> QED BY <1>1, <1>2, <1>3, <1>4, <1>5 DEF Goes, IInv, Kept, In

LEMMA HandleFetchGoes ==
    ASSUME IInv, HandleFetch
    PROVE  Goes
<1> USE IInvParts, Bounds, StateParts
<1>1. /\ In("RequestingZkNyms") /\ storage' = storage /\ told' = told
      /\ UNCHANGED offlineVars /\ state.attempts \in Attempts
  BY DEF HandleFetch, In
<1>2. PICK st : Enter(st, shared)
                /\ \/ st = EnterSyncing(Bump(state.attempts), shared)
                   \/ st = Simple("ReadyToConnect")
                   \/ st \in EnterUpgradeMode(shared)
                   \/ \E error \in FetchErrors, enough, some \in BOOLEAN :
                        st = AfterFetchError(error, enough, some)
  BY DEF HandleFetch
<1>3. Enterable(st, shared)
  <2>1. CASE st = EnterSyncing(Bump(state.attempts), shared)
    BY <1>1, <2>1, EnterSyncingEnterable
  <2>2. CASE st = Simple("ReadyToConnect")
    BY <2>2, SimpleEnterable
  <2>3. CASE st \in EnterUpgradeMode(shared)
    <3>1. st \in {Simple("Error"), Simple("UpgradeMode"), EnterSyncing(0, shared)}
      BY <2>3 DEF EnterUpgradeMode
    <3>2. Enterable(Simple("UpgradeMode"), shared)
      BY <1>1 DEF Enterable
    <3> QED BY <3>1, <3>2, SimpleEnterable, EnterSyncingEnterable
  <2>4. CASE \E error \in FetchErrors, enough, some \in BOOLEAN :
                st = AfterFetchError(error, enough, some)
    <3>1. \A attempts \in Attempts : Enterable(EnterRequesting(attempts, shared), shared)
      BY <1>1, EnterRequestingEnterable
    <3>2. Enterable(Simple("Error"), shared) /\ Enterable(Simple("ReadyToConnect"), shared)
      BY SimpleEnterable
    <3> QED BY <1>1, <2>4, <3>1, <3>2 DEF AfterFetchError, FetchErrors
  <2> QED BY <1>2, <2>1, <2>2, <2>3, <2>4
<1> QED BY <1>1, <1>2, <1>3, EnterKeeps DEF Goes, IInv

(* Steps that leave the state and its tasks alone.                         *)
LEMMA AloneGoes ==
    ASSUME IInv, UNCHANGED <<state, shared, sync, fetch, told>>, OfflineTypeOK',
           strays' \in 0..MaxStrays, storage' \in Storage
    PROVE  Goes
<1>1. Held'
  BY DEF IInv, Kept, Held, In
<1>2. Synced'
  <2>1. Sent("Finished")' <=> Sent("Finished")
    BY DEF Sent
  <2> QED BY <2>1 DEF IInv, Kept, Synced, In
<1> QED BY <1>1, <1>2 DEF Goes, IInv, Kept, In

LEMMA StrayEndsGoes ==
    ASSUME IInv, StrayEnds
    PROVE  Goes
<1> USE IInvParts, Bounds
<1>1. PICK upgrade \in BOOLEAN : storage' = [storage EXCEPT !.jwt = storage.jwt \/ upgrade]
  BY DEF StrayEnds
<1>2. storage' \in Storage
  <2>1. (storage.jwt \/ upgrade) \in BOOLEAN
    OBVIOUS
  <2> QED BY <1>1, <2>1, JwtKept
<1>3. strays' \in 0..MaxStrays
  BY DEF StrayEnds, Kept
<1> QED BY <1>2, <1>3, AloneGoes DEF StrayEnds

LEMMA JwtExpiresGoes ==
    ASSUME IInv, JwtExpires
    PROVE  Goes
<1> USE IInvParts
<1>1. storage' \in Storage
  BY JwtKept DEF JwtExpires
<1>2. strays' \in 0..MaxStrays
  BY DEF JwtExpires, Kept
<1> QED BY <1>1, <1>2, AloneGoes DEF JwtExpires

-----------------------------------------------------------------------------
(* Timers, connectivity, the end and a new start.                          *)

LEMMA RefreshTimerGoes ==
    ASSUME IInv, RefreshTimer
    PROVE  Goes
<1> USE IInvParts, Bounds, StateParts
<1>1. storage' = storage /\ told' = told /\ UNCHANGED offlineVars
  BY DEF RefreshTimer
<1>2. CASE Enter(EnterSyncing(0, shared), shared)
  BY <1>1, <1>2, EnterSyncingEnterable, EnterKeeps DEF Goes, IInv
<1>3. CASE In("UpgradeMode") /\ Enter(EnterRequesting(0, shared), shared)
  <2>1. /\ Enterable(EnterRequesting(0, shared), shared)
        /\ EnterRequesting(0, shared).name # "ReadyToConnect"
    BY <1>3, EnterRequestingEnterable
  <2> QED BY <1>1, <1>3, <2>1, EnterKeeps DEF Goes, IInv
<1> QED BY <1>2, <1>3 DEF RefreshTimer

LEMMA ConnectivityGoes ==
    ASSUME IInv, HandleConnectivity
    PROVE  Goes
<1> USE IInvParts, Bounds, StateParts
<1>1. PICK isOnline \in BOOLEAN :
        /\ NextConnectivity(isOnline)
        /\ CASE isOnline /\ In("Offline") -> Enter(EnterSyncing(0, shared), shared)
             [] ~isOnline /\ ~In("Offline") -> AbortAndEnter(Simple("Offline"), shared)
             [] OTHER -> SameState(shared)
  BY DEF HandleConnectivity
<1>2. OfflineTypeOK' /\ storage' = storage /\ told' = told
  BY <1>1 DEF HandleConnectivity, NextConnectivity, OfflineTypeOK
<1>3. CASE Enter(EnterSyncing(0, shared), shared)
  BY <1>2, <1>3, EnterSyncingEnterable, EnterKeeps DEF Goes, IInv
<1>4. CASE AbortAndEnter(Simple("Offline"), shared)
  BY <1>2, <1>4, SimpleEnterable, EnterKeeps DEF Goes, IInv
<1>5. CASE SameState(shared)
  BY <1>2, <1>5, AloneGoes DEF SameState, Kept
<1> QED BY <1>1, <1>3, <1>4, <1>5

LEMMA ShutdownGoes ==
    ASSUME IInv, Shutdown
    PROVE  Goes
<1> USE IInvParts, Bounds, StateParts
<1>1. CredentialsClosed \in Storage
  BY DEF CredentialsClosed, Storage
<1> QED BY <1>1, SimpleEnterable, EnterKeeps DEF Shutdown, Goes, IInv

(* A start finds on disk what the process was killed over.                 *)
LEMMA RestartGoes ==
    ASSUME IInv, Restart
    PROVE  Goes
<1> USE IInvParts, Bounds, StateParts
<1>1. CrashDisks \subseteq Storage
  <2>1. /\ CredentialsReset \in Storage /\ KeysStored \in Storage
    BY DEF CredentialsReset, KeysStored, Storage
  <2>2. PendingReset \in Storage
    BY <2>1 DEF PendingReset, Storage
  <2>3. FilesRemoved \in Storage
    BY <2>2 DEF FilesRemoved, Storage
  <2>4. AccountRemoved \in Storage
    BY <2>3 DEF AccountRemoved, Storage, MaybeAccounts
  <2>5. KeysOverwritten \in Storage
    BY <2>4 DEF KeysOverwritten, Storage
  <2> QED BY <2>1, <2>3, <2>4, <2>5 DEF CrashDisks
<1>2. PICK disk \in Storage :
        /\ storage' = [disk EXCEPT !.credentials = "open", !.pending = "open"]
        /\ NewState(FirstState(disk), Memory(disk), 0)
  BY <1>1 DEF Restart
<1>3. storage' \in Storage
  BY <1>2 DEF Storage
<1>4. Memory(disk) \in Shared
  BY DEF Memory, Storage, Shared, MaybeAccounts
<1>5. Enterable(FirstState(disk), Memory(disk)) /\ FirstState(disk).name # "ReadyToConnect"
  BY <1>4, SimpleEnterable, EnterSyncingEnterable DEF FirstState
<1>6. Kept' /\ state' = FirstState(disk)
  <2>1. 0 \in 0..MaxStrays
    OBVIOUS
  <2> QED BY <1>2, <1>5, <2>1, NewStateKeeps
<1>7. OfflineTypeOK'
  BY DEF Restart, OfflineTypeOK
<1> QED BY <1>3, <1>5, <1>6, <1>7 DEF Restart, Goes, IInv

LEMMA HostGoes ==
    ASSUME IInv, HostRouteChange \/ CheckConnectivity, UNCHANGED accountVars
    PROVE  Goes
<1> USE IInvParts
<1>1. OfflineTypeOK'
  <2>1. CASE HostRouteChange
    BY <2>1 DEF HostRouteChange, OfflineTypeOK
  <2>2. CASE CheckConnectivity
    <3>1. watch' = watch \/ watch' = [value |-> online, changed |-> TRUE]
      BY <2>2 DEF CheckConnectivity
    <3>2. watch' \in [value : BOOLEAN, changed : BOOLEAN]
      <4>1. online \in BOOLEAN /\ watch \in [value : BOOLEAN, changed : BOOLEAN]
        BY DEF OfflineTypeOK
      <4>2. [value |-> online, changed |-> TRUE] \in [value : BOOLEAN, changed : BOOLEAN]
        BY <4>1, Zenon
      <4> QED BY <3>1, <4>1, <4>2, Zenon
    <3> QED BY <2>2, <3>2 DEF CheckConnectivity, OfflineTypeOK
  <2> QED BY <2>1, <2>2
<1> QED BY <1>1, AloneGoes DEF accountVars, Kept

-----------------------------------------------------------------------------
(* The invariant holds.                                                    *)

LEMMA InitIInv == Init => IInv
<1> SUFFICES ASSUME Init
             PROVE  IInv
  OBVIOUS
<1> USE Bounds, StateParts
<1>1. /\ storage \in Storage /\ shared = Memory(storage) /\ state = FirstState(storage)
      /\ sync = IF In("Syncing") THEN SpawnedSync(shared) ELSE NoSync
      /\ fetch = "None" /\ strays = 0 /\ told = "down"
  BY DEF Init, Storage
<1>2. shared \in Shared /\ shared.account \in MaybeAccounts
  BY <1>1 DEF Memory, Storage, Shared, MaybeAccounts
<1>3. /\ Enterable(state, shared)
      /\ state.name \notin {"RequestingZkNyms", "UpgradeMode"}
  <2>1. /\ Enterable(EnterSyncing(0, shared), shared)
        /\ EnterSyncing(0, shared).name \notin {"RequestingZkNyms", "UpgradeMode"}
    BY <1>2, EnterSyncingEnterable DEF EnterSyncing
  <2>2. /\ Enterable(Simple("Offline"), shared) /\ Simple("Offline").name = "Offline"
    BY <1>2, SimpleEnterable
  <2> QED BY <1>1, <2>1, <2>2 DEF FirstState
<1>4. /\ SpawnedSync(shared) \in SyncTask /\ NoSync \in SyncTask
      /\ SpawnedSync(shared).stage = "Asking" /\ SpawnedSync(shared).events = <<>>
      /\ SpawnedSync(shared).account = shared.account
      /\ NoSync.stage = "Idle" /\ NoSync.events = <<>>
  <2>1. NoAccount \in MaybeAccounts /\ <<>> \in Seq(SyncEvents)
    BY DEF MaybeAccounts
  <2> QED BY <1>2, <2>1 DEF SyncTask, SpawnedSync, NoSync
<1>5. Held
  BY <1>1, <1>3, <1>4 DEF Held, Enterable, In
<1>6. Synced
  <2>1. sync.events = <<>> /\ Len(sync.events) = 0 /\ sync.stage # "Checking"
    BY <1>1, <1>4
  <2> QED BY <1>1, <1>4, <2>1 DEF Synced, Sent
<1>7. OfflineTypeOK
  BY DEF Init, OfflineInit, OfflineTypeOK
<1> QED BY <1>1, <1>2, <1>3, <1>4, <1>5, <1>6, <1>7 DEF IInv, Kept, Enterable, In

LEMMA NextGoes == IInv /\ [Next]_vars => Goes
<1> SUFFICES ASSUME IInv, [Next]_vars
             PROVE  Goes
  OBVIOUS
<1>1. CASE HandleCommand
  BY <1>1, StoreGoes, CreateGoes, ForgetGoes, ResetDeviceGoes, RefreshGoes,
     FirewallUpGoes, FirewallDownGoes DEF HandleCommand
<1>2. CASE HandleEvent
  BY <1>2, HandleSyncEventGoes, HandleFetchGoes, ConnectivityGoes DEF HandleEvent
<1>3. CASE (HostRouteChange \/ CheckConnectivity) /\ UNCHANGED accountVars
  BY <1>3, HostGoes
<1>4. CASE UNCHANGED vars
  BY <1>4, IInvParts, AloneGoes DEF vars, accountVars, Kept
<1> QED
  BY <1>1, <1>2, <1>3, <1>4, RefreshTimerGoes, SyncStepGoes, FetchEndsGoes, StrayEndsGoes,
     JwtExpiresGoes, ShutdownGoes, RestartGoes DEF Next

THEOREM AccountInvHolds == Spec => []IInv
<1>1. IInv /\ [Next]_vars => IInv'
  BY NextGoes DEF Goes
<1> QED BY <1>1, InitIInv, PTL DEF Spec

-----------------------------------------------------------------------------
(* What follows from it.                                                   *)

(* Attempts are bounded and tasks are never without their state.           *)
THEOREM AccountTypes == Spec => []TypeOK
<1>1. IInv => TypeOK
  BY DEF IInv, Kept, TypeOK
<1> QED BY <1>1, AccountInvHolds, PTL

(* However late the summaries come and whichever accounts come and go      *)
(* meanwhile, no zk-nyms are asked for with the summary of another account.*)
THEOREM SummaryIsOfAccount == Spec => []SummaryOfAccount
<1>1. IInv => SummaryOfAccount
  BY DEF IInv, Kept, Held, SummaryOfAccount
<1> QED BY <1>1, AccountInvHolds, PTL

(* A synchronisation ends without a word only when the firewall ends it, so*)
(* that taking the firewall down starts it again.                          *)
THEOREM OnlyFirewallStalls == Spec => []StalledOnlyByFirewall
<1>1. IInv => StalledOnlyByFirewall
  BY DEF IInv, Kept, Synced, StalledOnlyByFirewall
<1> QED BY <1>1, AccountInvHolds, PTL

(* ReadyToConnect is reached for a known device of an API account only, on *)
(* a summary of that very account, whatever failed, crashed or was         *)
(* forgotten before.                                                       *)
THEOREM ReadyEarned == Spec => ReadyIsEarned
<1> DEFINE Earned == state' = Simple("ReadyToConnect") /\ ~In("ReadyToConnect")
                     => /\ shared.account \in ApiAccounts
                        /\ shared.device
                        /\ shared.summary = shared.account
<1>1. IInv /\ [Next]_vars => Earned
  BY NextGoes, IInvParts, StateParts DEF Goes
<1>2. Spec => [][Earned]_vars
  BY <1>1, AccountInvHolds, PTL DEF Spec
<1> QED BY <1>2 DEF ReadyIsEarned

-----------------------------------------------------------------------------
(* Memory and disk, while nothing fails that would leave the one behind the*)
(* other: no removal or storage of the account or its keys.                *)

DiskWorks == Faults \cap {"account", "keys", "store"} = {} /\ ~MayCrash

(* An account on disk has its device keys there, which Store relies on when*)
(* it refuses to store another.                                            *)
Matches(s, disk) ==
    /\ s.account = disk.account /\ s.device = disk.keys
    /\ disk.account # NoAccount => disk.keys

LEMMA ForgetMatches ==
    ASSUME DiskWorks, IInv, Matches(shared, storage), NEW o \in ForgetAccount
    PROVE  Matches(o.shared, o.storage)
<1> USE IInvParts
<1>1. /\ CredentialsClosed \in Storage /\ CredentialsReset \in Storage
      /\ CredentialsClosed.account = storage.account
      /\ CredentialsClosed.keys = storage.keys
      /\ CredentialsReset.account = storage.account
      /\ CredentialsReset.keys = storage.keys
  BY DEF CredentialsClosed, CredentialsReset, Storage
<1>2. /\ PendingReset.account = storage.account /\ PendingReset.keys = storage.keys
      /\ \A p \in {"closed", "gone"} :
            /\ [CredentialsReset EXCEPT !.pending = p].account = storage.account
            /\ [CredentialsReset EXCEPT !.pending = p].keys = storage.keys
  BY <1>1 DEF PendingReset, Storage
<1>3. \A operation \in FailingOperations :
        /\ operation \in {"credentials", "pending", "wireguard"}
        /\ \A disk \in LeftByForget[operation] :
            disk.account = storage.account /\ disk.keys = storage.keys
  <2>1. FailingOperations \subseteq {"credentials", "pending", "wireguard"}
    BY DEF FailingOperations, LeftByForget, DiskWorks
  <2>2. /\ LeftByForget["credentials"] = {CredentialsClosed}
        /\ LeftByForget["pending"] = {[CredentialsReset EXCEPT !.pending = p] : p \in {"closed", "gone"}}
        /\ LeftByForget["wireguard"] = {PendingReset}
    BY DEF LeftByForget
  <2>3. ASSUME NEW disk \in LeftByForget["pending"]
        PROVE  disk.account = storage.account /\ disk.keys = storage.keys
    <3>1. PICK p \in {"closed", "gone"} : disk = [CredentialsReset EXCEPT !.pending = p]
      BY <2>2
    <3> QED BY <1>2, <3>1
  <2>4. \A operation \in {"credentials", "pending", "wireguard"} :
          \A disk \in LeftByForget[operation] :
            disk.account = storage.account /\ disk.keys = storage.keys
    BY <1>1, <1>2, <2>2, <2>3
  <2> QED BY <2>1, <2>4
<1>4. \/ /\ o.shared = shared
         /\ o.storage.account = storage.account /\ o.storage.keys = storage.keys
      \/ /\ o.shared = Forgotten
         /\ o.storage.account = NoAccount /\ ~o.storage.keys
  <2>1. CASE o \in {Outcome(shared, disk, FALSE) :
                      disk \in UNION {LeftByForget[operation] : operation \in FailingOperations}}
    <3>1. PICK disk \in UNION {LeftByForget[operation] : operation \in FailingOperations} :
            o = Outcome(shared, disk, FALSE)
      BY <2>1
    <3>2. PICK operation \in FailingOperations : disk \in LeftByForget[operation]
      BY <3>1
    <3>3. disk.account = storage.account /\ disk.keys = storage.keys
      BY <1>3, <3>2
    <3> QED BY <3>1, <3>3 DEF Outcome
  <2>2. CASE o \in {Outcome(Forgotten, AccountRemoved, ok) :
                      ok \in {TRUE} \cup IF "files" \in Faults THEN {FALSE} ELSE {}}
    <3>1. PICK ok \in {TRUE} \cup IF "files" \in Faults THEN {FALSE} ELSE {} :
              o = Outcome(Forgotten, AccountRemoved, ok)
      BY <2>2
    <3>2. AccountRemoved.account = NoAccount /\ ~AccountRemoved.keys
      <4>1. PendingReset \in Storage
        BY <1>1 DEF PendingReset, Storage
      <4> QED BY <4>1 DEF AccountRemoved, FilesRemoved, Storage
    <3> QED BY <3>1, <3>2 DEF Outcome
  <2> QED BY <2>1, <2>2 DEF ForgetAccount
<1>5. Forgotten.account = NoAccount /\ ~Forgotten.device
  BY ForgetOutcomes
<1>6. storage.keys \in BOOLEAN /\ o.storage.keys \in BOOLEAN
  BY ForgetOutcomes DEF Storage
<1>7. Forgotten.device = FALSE
  BY DEF Forgotten, Shared
<1> QED BY <1>4, <1>5, <1>6, <1>7 DEF Matches

LEMMA StoreMatches ==
    ASSUME DiskWorks, IInv, Matches(shared, storage), NEW account \in Accounts,
           NEW o \in StoreAccount(account)
    PROVE  Matches(o.shared, o.storage)
<1> USE IInvParts
<1>1. CASE storage.account # NoAccount /\ o = Outcome(shared, KeysStored, FALSE)
  BY <1>1 DEF Outcome, Matches, KeysStored, Storage
<1>2. CASE o = Outcome([shared EXCEPT !.account = account, !.device = TRUE],
                       AccountStored(account), TRUE)
  BY <1>2 DEF Outcome, Matches, AccountStored, KeysStored, Storage, Shared
<1> QED BY <1>1, <1>2 DEF StoreAccount, DiskWorks

LEMMA ResetMatches ==
    ASSUME DiskWorks, IInv, Matches(shared, storage), NEW o \in ResetDeviceIdentity
    PROVE  Matches(o.shared, o.storage)
BY IInvParts, ResetOutcomes DEF Matches, KeysStored, Storage, Shared

(* Every step of the controller keeps the two together.                    *)
LEMMA NextMatches ==
    ASSUME DiskWorks, IInv, Matches(shared, storage), [Next]_vars
    PROVE  Matches(shared', storage')
<1> USE IInvParts
<1>1. \A s, disk : shared' = s /\ storage' = disk /\ Matches(s, disk)
                    => Matches(shared', storage')
  OBVIOUS
<1>2. ASSUME shared'.account = shared.account, shared'.device = shared.device,
             storage'.account = storage.account, storage'.keys = storage.keys
      PROVE  Matches(shared', storage')
  BY <1>2 DEF Matches
<1>3. CASE Store \/ Create
  <2>1. PICK account \in Accounts : \E o \in StoreAccount(account) :
            shared' = o.shared /\ storage' = o.storage
    BY <1>3 DEF Store, Create, SameState, Enter, NewState, Accounts
  <2> QED BY <2>1, StoreMatches
<1>4. CASE Forget
  <2>1. PICK o \in ForgetAccount : shared' = o.shared /\ storage' = o.storage
    BY <1>4 DEF Forget, SameState, Enter, AbortAndEnter, NewState
  <2> QED BY <2>1, ForgetMatches
<1>5. ASSUME NEW s, NEW disk \in Storage, ExitUpgradeMode(s, disk)
      PROVE  /\ shared' = s
             /\ storage'.account = disk.account /\ storage'.keys = disk.keys
  BY <1>5 DEF ExitUpgradeMode, Enter, NewState, Storage
<1>6. CASE ResetDevice
  <2>1. PICK o \in ResetDeviceIdentity :
            /\ shared' = o.shared
            /\ \/ storage' = o.storage
               \/ ExitUpgradeMode(o.shared, o.storage)
               \/ ~o.ok /\ storage' = storage
    BY <1>5, <1>6, ResetOutcomes DEF ResetDevice, SameState, Enter, AbortAndEnter, NewState
  <2>2. Matches(o.shared, o.storage) /\ o.storage \in Storage
        /\ (~o.ok => o.storage = storage)
    BY ResetMatches, ResetOutcomes
  <2> QED BY <1>5, <2>1, <2>2 DEF Matches
<1>7. CASE Refresh \/ DisableUpgradeMode
  BY <1>2, <1>5, <1>7 DEF Refresh, DisableUpgradeMode, AbortAndEnter, NewState
<1>8. CASE FirewallUp
  BY <1>2, <1>8 DEF FirewallUp, Shared
<1>9. CASE FirewallDown
  <2>1. shared' \in {shared, [shared EXCEPT !.firewall = FALSE]} /\ storage' = storage
    BY <1>9 DEF FirewallDown, FirewallDownRestarts, SameState, Enter, NewState
  <2> QED BY <1>2, <2>1 DEF Shared
<1>10. CASE HandleSyncEvent
  BY <1>2, <1>10 DEF HandleSyncEvent, Enter, NewState, Shared
<1>11. CASE SyncStep \/ FetchEnds \/ StrayEnds \/ JwtExpires
  <2>1. shared' = shared /\ (storage' = storage
                              \/ \E valid : storage' = [storage EXCEPT !.jwt = valid])
    BY <1>11 DEF SyncStep, FetchEnds, StrayEnds, JwtExpires
  <2> QED BY <1>2, <2>1 DEF Storage
<1>12. CASE HandleFetch \/ RefreshTimer \/ HandleConnectivity
  <2>1. shared' = shared /\ storage' = storage
    BY <1>12 DEF HandleFetch, RefreshTimer, HandleConnectivity, Enter, AbortAndEnter,
                 SameState, NewState
  <2> QED BY <1>2, <2>1
<1>13. CASE Shutdown
  <2>1. shared' = shared /\ storage' = CredentialsClosed
    BY <1>13 DEF Shutdown, AbortAndEnter, NewState
  <2> QED BY <1>2, <2>1 DEF CredentialsClosed, Storage
<1>14. CASE Restart
  <2>1. CrashDisks = {storage}
    BY <1>14 DEF Restart, DiskWorks, CrashDisks, In
  <2>2. /\ storage' = [storage EXCEPT !.credentials = "open", !.pending = "open"]
        /\ shared' = Memory(storage)
    BY <1>14, <2>1 DEF Restart, NewState
  <2> QED BY <1>2, <2>2 DEF Matches, Memory, Storage
<1>15. CASE UNCHANGED accountVars
  BY <1>15 DEF accountVars
<1> QED
  BY <1>3, <1>4, <1>6, <1>7, <1>8, <1>9, <1>10, <1>11, <1>12, <1>13, <1>14, <1>15
     DEF Next, HandleCommand, HandleEvent, vars

(* On a disk that removes and stores what it is told to, under a process   *)
(* that is not killed, memory holds the account and the device that a start*)
(* would find, though other operations of the reset fail.                  *)
THEOREM MemoryIsOnDisk ==
    ASSUME DiskWorks
    PROVE  Spec => []MemoryMatchesDisk
<1>1. Init => Matches(shared, storage)
  BY DEF Init, Memory, Matches
<1>2. IInv /\ Matches(shared, storage) /\ [Next]_vars => Matches(shared, storage)'
  BY NextMatches
<1>3. Matches(shared, storage) => MemoryMatchesDisk
  BY DEF Matches, MemoryMatchesDisk
<1> QED BY <1>1, <1>2, <1>3, AccountInvHolds, PTL DEF Spec
=============================================================================
