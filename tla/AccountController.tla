--------------------------- MODULE AccountController ---------------------------
(***************************************************************************)
(* The account controller (crate nym-vpn-account-controller): a state      *)
(* machine that finds out from the VPN API whether the stored account may  *)
(* connect, and gets it zk-nym tickets.                                    *)
(*                                                                         *)
(* An action is one run of `handle_event` of the current state, up to the  *)
(* state it returns, or a step of a task it spawned: the synchronisation   *)
(* with the API, cancelled when the Syncing state is dropped, and the fetch*)
(* of zk-nyms, which goes on unless its handle is aborted.  A handler runs *)
(* alone, but the process may be killed in the middle of one.  The order   *)
(* in which `biased` polls does not show: what a task sends may come right *)
(* after it was polled, and the command that is handled then was first.    *)
(***************************************************************************)
EXTENDS OfflineMonitor, Naturals, Sequences

CONSTANTS
    ApiAccounts,            \* accounts of the VPN API
    DecentralisedAccounts,  \* accounts that live on chain only
    NoAccount,
    MaxAttempts,            \* MAX_SYNCING_ATTEMPTS and ZK_NYM_MAX_FAILS
    MaxStrays,              \* how many fetches left alone are counted
    Commands,               \* the commands that clients send
    Faults,                 \* what may fail on disk
    MayCrash                \* whether the process may be killed

Accounts == ApiAccounts \cup DecentralisedAccounts

ASSUME AccountAssumption ==
    ApiAccounts \cap DecentralisedAccounts = {} /\ NoAccount \notin Accounts
ASSUME BoundAssumption == MaxAttempts \in Nat /\ MaxStrays \in Nat
ASSUME FaultAssumption ==
    /\ Faults \subseteq {"credentials", "pending", "wireguard", "files",
                         "account", "keys", "store", "expiry"}
    /\ Commands \subseteq {"Store", "Forget", "ResetDevice", "Refresh", "Firewall",
                           "DisableUpgradeMode"}
    /\ MayCrash \in BOOLEAN

VARIABLES
    state,    \* the current state handler
    shared,   \* the shared state
    sync,     \* the task of the Syncing state and the events it has sent
    fetch,    \* the task whose handle the RequestingZkNyms state holds
    strays,   \* how many fetches run though no state holds their handle
    storage,  \* what is on disk, and whether the databases are open
    told      \* the last of VpnApiFirewallUp and VpnApiFirewallDown taken

accountVars == <<state, shared, sync, fetch, strays, storage, told>>
vars == <<accountVars, offlineVars>>

MaybeAccounts == Accounts \cup {NoAccount}

(* Past MaxAttempts, attempts are not told apart.                          *)
Attempts == 0..(MaxAttempts + 1)

State ==
    [name : {"Syncing", "RequestingZkNyms"}, attempts : Attempts]
        \cup [name : {"LoggedOut", "Offline", "ReadyToConnect", "Decentralised",
                      "UpgradeMode", "PendingSubscription", "Error", "Finished"}]

(* summary: the account that the account summary is about.                 *)
Shared ==
    [account : MaybeAccounts, device : BOOLEAN, summary : MaybeAccounts,
     firewall : BOOLEAN]

SyncEvents == {"Summary", "Finished", "Retryable", "Fatal", "Pending"}

(* stage: before and after the answer of the API; Idle when it has ended,  *)
(* or was cancelled.                                                       *)
SyncTask ==
    [stage : {"Idle", "Asking", "Checking"}, account : MaybeAccounts,
     events : Seq(SyncEvents)]

FetchErrors == {"Local", "Api", "Exceeded"}
FetchResults == FetchErrors \cup {"Tickets", "UpgradeMode", "Aborted"}

(* pending: the database of pending requests is open, closed, or its file  *)
(* is gone.  jwt: an upgrade mode credential that is still valid.          *)
Storage ==
    [account : MaybeAccounts, keys : BOOLEAN, credentials : {"open", "closed"},
     pending : {"open", "closed", "gone"}, jwt : BOOLEAN]

NoSync == [stage |-> "Idle", account |-> NoAccount, events |-> <<>>]

Simple(name) == [name |-> name]

In(name) == state.name = name

-----------------------------------------------------------------------------
(* Entering a state.                                                       *)

Syncing(attempts) == [name |-> "Syncing", attempts |-> attempts]
Requesting(attempts) == [name |-> "RequestingZkNyms", attempts |-> attempts]

(* Mutant of EnterSyncing: an account whose summary is there is ready to   *)
(* request.                                                                *)
EnterSyncingSkips(attempts, s) ==
    IF s.account = NoAccount THEN Simple("LoggedOut")
    ELSE IF s.account \in DecentralisedAccounts THEN Simple("Decentralised")
    ELSE IF ~s.device THEN Simple("Error")
    ELSE IF s.summary # NoAccount THEN Requesting(attempts)
    ELSE Syncing(attempts)

EnterSyncing(attempts, s) ==
    IF s.account = NoAccount THEN Simple("LoggedOut")
    ELSE IF s.account \in DecentralisedAccounts THEN Simple("Decentralised")
    ELSE IF ~s.device THEN Simple("Error")
    ELSE Syncing(attempts)

(* Mutant of EnterRequesting: the account is taken for granted.            *)
EnterRequestingUnchecked(attempts, s) ==
    IF s.summary = NoAccount THEN Simple("Error") ELSE Requesting(attempts)

EnterRequesting(attempts, s) ==
    IF s.account = NoAccount THEN Simple("LoggedOut")
    ELSE IF ~s.device \/ s.summary = NoAccount THEN Simple("Error")
    ELSE Requesting(attempts)

(* The credential may expire right after it is read.                       *)
EnterUpgradeMode(s) ==
    IF storage.credentials = "closed" \/ ~storage.jwt
    THEN {Simple("Error")}
    ELSE {Simple("UpgradeMode")}
         \cup IF "expiry" \in Faults THEN {EnterSyncing(0, s)} ELSE {}

Bump(attempts) == IF attempts > MaxAttempts THEN attempts ELSE attempts + 1

SpawnedSync(s) == [stage |-> "Asking", account |-> s.account, events |-> <<>>]

(* A fetch whose handle is dropped goes on.                                *)
Detached ==
    IF fetch = "Running" /\ strays < MaxStrays THEN strays + 1 ELSE strays

(* Mutant of NewState: the sync task outlives its state.                   *)
NewStateKeepsSync(st, s, rest) ==
    /\ state' = st
    /\ shared' = s
    /\ sync' = IF st.name = "Syncing" THEN SpawnedSync(s) ELSE sync
    /\ fetch' = IF st.name = "RequestingZkNyms" THEN "Running" ELSE "None"
    /\ strays' = rest

(***************************************************************************)
(* NewState: the state left is dropped, and with it its sync task.  `rest` *)
(* is how many fetches are left that no state holds a handle of.           *)
(***************************************************************************)
NewState(st, s, rest) ==
    /\ state' = st
    /\ shared' = s
    /\ sync' = IF st.name = "Syncing" THEN SpawnedSync(s) ELSE NoSync
    /\ fetch' = IF st.name = "RequestingZkNyms" THEN "Running" ELSE "None"
    /\ strays' = rest

Enter(st, s) == NewState(st, s, Detached)
AbortAndEnter(st, s) == NewState(st, s, strays)

SameState(s) == shared' = s /\ UNCHANGED <<state, sync, fetch, strays>>

-----------------------------------------------------------------------------
(* Storage.                                                                *)

(* An outcome of a command handler.                                        *)
Outcome(s, disk, ok) == [shared |-> s, storage |-> disk, ok |-> ok]

(***************************************************************************)
(* handle_forget_account resets the storage step by step.  The files that  *)
(* it removes include the device keys.                                     *)
(***************************************************************************)
CredentialsClosed == [storage EXCEPT !.credentials = "closed"]
CredentialsReset == [storage EXCEPT !.credentials = "open", !.jwt = FALSE]
PendingReset == [CredentialsReset EXCEPT !.pending = "open"]
FilesRemoved == [PendingReset EXCEPT !.keys = FALSE]
(* Mutant of AccountRemoved: the device keys survive the account.          *)
AccountRemovedAlone == [PendingReset EXCEPT !.account = NoAccount]

AccountRemoved == [FilesRemoved EXCEPT !.account = NoAccount]

(* remove_keys overwrites the keys with fresh ones before it removes them. *)
KeysOverwritten == [AccountRemoved EXCEPT !.keys = TRUE]

(* What is on disk when an operation of handle_forget_account fails and    *)
(* ends it.  Once the database of requests is gone, its reset always fails.*)
LeftByForget ==
    [credentials |-> {CredentialsClosed},
     pending |-> {[CredentialsReset EXCEPT !.pending = p] : p \in {"closed", "gone"}},
     wireguard |-> {PendingReset},
     account |-> {FilesRemoved} \cup IF "files" \in Faults THEN {PendingReset} ELSE {},
     keys |-> {KeysOverwritten}]

FailingOperations ==
    DOMAIN LeftByForget
        \cap IF storage.pending = "gone"
             THEN {"pending"} \cup (Faults \cap {"credentials"})
             ELSE Faults

Forgotten ==
    [shared EXCEPT !.account = NoAccount, !.device = FALSE, !.summary = NoAccount]

(* A failure to remove files is reported once all the rest is done.        *)
ForgetAccount ==
    {Outcome(shared, disk, FALSE) :
        disk \in UNION {LeftByForget[operation] : operation \in FailingOperations}}
    \cup IF storage.pending = "gone" THEN {}
         ELSE {Outcome(Forgotten, AccountRemoved, ok) :
                  ok \in {TRUE} \cup IF "files" \in Faults THEN {FALSE} ELSE {}}

(***************************************************************************)
(* handle_store_account and handle_create_account: the keys are generated  *)
(* unless they exist, then the account is written, unless there is one.  A *)
(* failure may leave the file of the account behind.                       *)
(***************************************************************************)
KeysStored == [storage EXCEPT !.keys = TRUE]
AccountStored(account) == [KeysStored EXCEPT !.account = account]

StoreAccount(account) ==
    IF storage.account # NoAccount
    THEN {Outcome(shared, KeysStored, FALSE)}
    ELSE {Outcome([shared EXCEPT !.account = account, !.device = TRUE],
                  AccountStored(account), TRUE)}
         \cup IF "store" \in Faults
              THEN {Outcome(shared, disk, FALSE) :
                        disk \in {storage, KeysStored, AccountStored(account)}}
              ELSE {}

(* handle_reset_device_identity: the old keys are overwritten.             *)
ResetDeviceIdentity ==
    {Outcome([shared EXCEPT !.device = TRUE], KeysStored, TRUE)}
    \cup IF "keys" \in Faults THEN {Outcome(shared, storage, FALSE)} ELSE {}

-----------------------------------------------------------------------------
(* Commands.  Those that a state refuses or that change nothing are left   *)
(* out, and so are those that only ask the API or the disk.                *)

Command(name) == name \in Commands /\ UNCHANGED offlineVars

(* In Offline the account is stored but the state is not left.             *)
Store ==
    /\ Command("Store")
    /\ \E account \in Accounts : \E o \in StoreAccount(account) :
        /\ storage' = o.storage
        /\ \/ In("Offline") /\ SameState(o.shared)
           \/ /\ In("LoggedOut")
              /\ IF o.ok THEN Enter(EnterSyncing(0, o.shared), o.shared)
                         ELSE SameState(o.shared)
    /\ UNCHANGED told

(* An account that is created is an API account; a failure goes on too.    *)
Create ==
    /\ Command("Store")
    /\ In("LoggedOut")
    /\ \E account \in ApiAccounts : \E o \in StoreAccount(account) :
        /\ storage' = o.storage
        /\ Enter(EnterSyncing(0, o.shared), o.shared)
    /\ UNCHANGED told

Forget ==
    /\ Command("Forget")
    /\ \E o \in ForgetAccount :
        /\ storage' = o.storage
        /\ \/ /\ state.name \in {"Syncing", "ReadyToConnect", "UpgradeMode",
                                 "Decentralised"}
              /\ IF o.ok THEN Enter(Simple("LoggedOut"), o.shared)
                         ELSE SameState(o.shared)
           \/ /\ state.name \in {"RequestingZkNyms", "Error", "PendingSubscription"}
              /\ AbortAndEnter(IF o.ok THEN Simple("LoggedOut")
                                       ELSE EnterSyncing(0, o.shared), o.shared)
    /\ UNCHANGED told

(* on_exit purges the upgrade mode credentials.                            *)
ExitUpgradeMode(s, disk) ==
    IF disk.credentials = "closed"
    THEN storage' = disk /\ Enter(Simple("Error"), s)
    ELSE /\ storage' = [disk EXCEPT !.jwt = FALSE]
         /\ Enter(EnterSyncing(0, s), s)

ResetDevice ==
    /\ Command("ResetDevice")
    /\ \E o \in ResetDeviceIdentity :
        \/ /\ state.name \in {"Syncing", "RequestingZkNyms"}
           /\ storage' = o.storage
           /\ AbortAndEnter(EnterSyncing(0, o.shared), o.shared)
        \/ /\ state.name \in {"ReadyToConnect", "Error", "PendingSubscription"}
           /\ storage' = o.storage
           /\ IF o.ok THEN Enter(EnterSyncing(0, o.shared), o.shared)
                      ELSE SameState(o.shared)
        \/ /\ In("UpgradeMode")
           /\ IF o.ok THEN ExitUpgradeMode(o.shared, o.storage)
                      ELSE SameState(o.shared) /\ UNCHANGED storage
    /\ UNCHANGED told

Refresh ==
    /\ Command("Refresh")
    /\ ~shared.firewall
    /\ \/ /\ state.name \in {"Syncing", "RequestingZkNyms", "ReadyToConnect", "Error",
                             "PendingSubscription"}
          /\ AbortAndEnter(EnterSyncing(0, shared), shared)
          /\ UNCHANGED storage
       \/ In("UpgradeMode") /\ ExitUpgradeMode(shared, storage)
    /\ UNCHANGED told

DisableUpgradeMode ==
    /\ Command("DisableUpgradeMode")
    /\ In("UpgradeMode")
    /\ ExitUpgradeMode(shared, storage)
    /\ UNCHANGED told

(* The Decentralised state refuses both commands of the firewall.          *)
FirewallUp ==
    /\ Command("Firewall")
    /\ ~In("Finished")
    /\ told' = "up"
    /\ shared' = IF In("Decentralised") THEN shared
                 ELSE [shared EXCEPT !.firewall = TRUE]
    /\ sync' = [sync EXCEPT !.stage = "Idle"]
    /\ fetch' = IF fetch = "Running" THEN "Aborted" ELSE fetch
    /\ UNCHANGED <<state, strays, storage>>

(* Mutant of FirewallDownRestarts: the sync is not started again.          *)
FirewallDownNoted(s) == SameState(s)

(* A state that does its work in a task is entered again, to restart it.   *)
FirewallDownRestarts(s) ==
    CASE In("Syncing") -> Enter(EnterSyncing(state.attempts, s), s)
      [] In("RequestingZkNyms") -> Enter(EnterRequesting(state.attempts, s), s)
      [] OTHER -> SameState(s)

FirewallDown ==
    /\ Command("Firewall")
    /\ ~In("Finished")
    /\ told' = "down"
    /\ IF In("Decentralised") \/ ~shared.firewall
       THEN SameState(shared)
       ELSE FirewallDownRestarts([shared EXCEPT !.firewall = FALSE])
    /\ UNCHANGED storage

-----------------------------------------------------------------------------
(* The task of the Syncing state: it sends the account summary when the API*)
(* answers, then whether the account may connect.                          *)

SyncSends(stage, event) ==
    sync' = [sync EXCEPT !.stage = stage, !.events = Append(@, event)]

SyncStep ==
    /\ \/ /\ sync.stage = "Asking"
          /\ \/ SyncSends("Checking", "Summary")
             \/ \E failure \in {"Retryable", "Fatal"} : SyncSends("Idle", failure)
       \/ /\ sync.stage = "Checking"
          /\ \E last \in SyncEvents \ {"Summary"} : SyncSends("Idle", last)
    /\ UNCHANGED <<state, shared, fetch, strays, storage, told, offlineVars>>

(* Mutant of AfterSync: the attempts start over.                           *)
AfterSyncForgetful(event) ==
    CASE event = "Pending" -> Simple("PendingSubscription")
      [] event = "Retryable" -> EnterSyncing(0, shared)
      [] event = "Finished" -> EnterRequesting(state.attempts, shared)
      [] OTHER -> Simple("Error")

(* The state that an event other than the summary leads to.                *)
AfterSync(event) ==
    CASE event = "Pending" -> Simple("PendingSubscription")
      [] event = "Retryable" /\ state.attempts <= MaxAttempts ->
            EnterSyncing(Bump(state.attempts), shared)
      [] event = "Finished" -> EnterRequesting(state.attempts, shared)
      [] OTHER -> Simple("Error")

HandleSyncEvent ==
    /\ In("Syncing")
    /\ sync.events # <<>>
    /\ IF Head(sync.events) = "Summary"
       THEN /\ shared' = [shared EXCEPT !.summary = sync.account]
            /\ sync' = [sync EXCEPT !.events = Tail(@)]
            /\ UNCHANGED <<state, fetch, strays>>
       ELSE Enter(AfterSync(Head(sync.events)), shared)
    /\ UNCHANGED <<storage, told, offlineVars>>

-----------------------------------------------------------------------------
(* The fetch of zk-nyms.  An upgrade mode attestation that it gets instead *)
(* is stored.  That no fair usage is left is said before the storage is    *)
(* looked at.                                                              *)

FetchEnds ==
    /\ fetch = "Running"
    /\ fetch' \in IF storage.credentials = "closed" THEN {"Local", "Exceeded"}
                  ELSE FetchResults \ {"Aborted"}
    /\ storage' = [storage EXCEPT !.jwt = @ \/ fetch' = "UpgradeMode"]
    /\ UNCHANGED <<state, shared, sync, strays, told, offlineVars>>

(* The states that follow an error, given whether there are enough tickets *)
(* left, or some.                                                          *)
AfterFetchError(error, enough, some) ==
    IF state.attempts > MaxAttempts THEN Simple("Error")
    ELSE IF enough THEN Simple("ReadyToConnect")
    ELSE CASE error = "Local" -> EnterRequesting(MaxAttempts + 1, shared)
           [] error = "Api" -> EnterRequesting(Bump(state.attempts), shared)
           [] error = "Exceeded" -> Simple(IF some THEN "ReadyToConnect" ELSE "Error")

HandleFetch ==
    /\ In("RequestingZkNyms")
    /\ \/ fetch = "Aborted" /\ Enter(EnterSyncing(Bump(state.attempts), shared), shared)
       \/ fetch = "Tickets" /\ Enter(Simple("ReadyToConnect"), shared)
       \/ /\ fetch = "UpgradeMode"
          /\ \E st \in EnterUpgradeMode(shared) : Enter(st, shared)
       \/ /\ fetch \in FetchErrors
          /\ \E enough, some \in {FALSE, storage.credentials = "open"} :
                Enter(AfterFetchError(fetch, enough, some), shared)
    /\ UNCHANGED <<storage, told, offlineVars>>

StrayEnds ==
    /\ strays > 0
    /\ strays' = strays - 1
    /\ \E upgrade \in {FALSE, storage.credentials = "open"} :
        storage' = [storage EXCEPT !.jwt = @ \/ upgrade]
    /\ UNCHANGED <<state, shared, sync, fetch, told, offlineVars>>

-----------------------------------------------------------------------------
(* Timers, connectivity, the end and a new start.                          *)

RefreshTimer ==
    /\ \/ /\ state.name \in {"ReadyToConnect", "Error", "PendingSubscription"}
          /\ ~shared.firewall
          /\ Enter(EnterSyncing(0, shared), shared)
       \/ In("UpgradeMode") /\ Enter(EnterRequesting(0, shared), shared)
    /\ UNCHANGED <<storage, told, offlineVars>>

JwtExpires ==
    /\ storage.jwt
    /\ storage' = [storage EXCEPT !.jwt = FALSE]
    /\ UNCHANGED <<state, shared, sync, fetch, strays, told, offlineVars>>

HandleConnectivity ==
    /\ ~In("UpgradeMode") /\ ~In("Finished")
    /\ \E isOnline \in BOOLEAN :
        /\ NextConnectivity(isOnline)
        /\ CASE isOnline /\ In("Offline") -> Enter(EnterSyncing(0, shared), shared)
             [] ~isOnline /\ ~In("Offline") -> AbortAndEnter(Simple("Offline"), shared)
             [] OTHER -> SameState(shared)
    /\ UNCHANGED <<storage, told>>

Shutdown ==
    /\ ~In("Finished")
    /\ AbortAndEnter(Simple("Finished"), shared)
    /\ storage' = CredentialsClosed
    /\ UNCHANGED <<told, offlineVars>>

Memory(disk) ==
    [account |-> disk.account, device |-> disk.keys, summary |-> NoAccount,
     firewall |-> FALSE]

FirstState(disk) ==
    IF IsOffline THEN Simple("Offline") ELSE EnterSyncing(0, Memory(disk))

(* What is on disk when the process is killed: as between two handlers, or *)
(* in the middle of one that forgets or stores the account.                *)
CrashDisks ==
    {storage}
    \cup IF "Forget" \notin Commands \/ storage.pending = "gone"
            \/ state.name \in {"LoggedOut", "Offline", "Finished"} THEN {}
         ELSE {CredentialsReset, FilesRemoved, AccountRemoved, KeysOverwritten}
    \cup IF "Store" \in Commands /\ state.name \in {"LoggedOut", "Offline"}
         THEN {KeysStored} ELSE {}

(* The databases are created anew where they are missing.                  *)
Restart ==
    /\ MayCrash \/ In("Finished")
    /\ \E disk \in CrashDisks :
        /\ storage' = [disk EXCEPT !.credentials = "open", !.pending = "open"]
        /\ NewState(FirstState(disk), Memory(disk), 0)
    /\ told' = "down"
    /\ connectivity' = online
    /\ routeChanged' = FALSE
    /\ watch' = [value |-> TRUE, changed |-> FALSE]
    /\ UNCHANGED online

-----------------------------------------------------------------------------

Init ==
    /\ OfflineInit
    /\ storage \in [account : MaybeAccounts, keys : BOOLEAN, credentials : {"open"},
                    pending : {"open"}, jwt : {FALSE}]
    /\ storage.keys <=> storage.account # NoAccount
    /\ shared = Memory(storage)
    /\ state = FirstState(storage)
    /\ sync = IF In("Syncing") THEN SpawnedSync(shared) ELSE NoSync
    /\ fetch = "None"
    /\ strays = 0
    /\ told = "down"

HandleCommand ==
    Store \/ Create \/ Forget \/ ResetDevice \/ Refresh \/ DisableUpgradeMode
        \/ FirewallUp \/ FirewallDown

HandleEvent == HandleSyncEvent \/ HandleFetch \/ HandleConnectivity

Next ==
    \/ HandleCommand \/ HandleEvent \/ RefreshTimer
    \/ SyncStep \/ FetchEnds \/ StrayEnds \/ JwtExpires
    \/ Shutdown \/ Restart
    \/ (HostRouteChange \/ CheckConnectivity) /\ UNCHANGED accountVars

Spec == Init /\ [][Next]_vars

(* The API answers or the request times out; tasks and handlers get to run.*)
FairSpec ==
    /\ Spec
    /\ WF_vars(SyncStep)
    /\ WF_vars(FetchEnds)
    /\ WF_vars(HandleSyncEvent)
    /\ WF_vars(HandleFetch)

=============================================================================
