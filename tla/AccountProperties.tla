--------------------------- MODULE AccountProperties ---------------------------
(***************************************************************************)
(* What the account controller is to guarantee.                            *)
(***************************************************************************)
EXTENDS AccountController

(* Each variable stays in its type, and a task belongs to its state.       *)
TypeOK ==
    /\ OfflineTypeOK
    /\ state \in State
    /\ shared \in Shared
    /\ sync \in SyncTask
    /\ fetch \in {"None", "Running"} \cup FetchResults
    /\ strays \in 0..MaxStrays
    /\ storage \in Storage
    /\ told \in {"up", "down"}
    /\ sync # NoSync => In("Syncing")
    /\ fetch # "None" <=> In("RequestingZkNyms")

-----------------------------------------------------------------------------

(* Zk-nyms are only ever asked for with the summary of the account that    *)
(* they are for, though summaries come late and accounts come and go       *)
(* (RequestingZkNymsState::enter reads fair_usage_left of the summary).    *)
SummaryOfAccount ==
    fetch # "None" /\ shared.account # NoAccount => shared.summary = shared.account

(* A Syncing state that nothing will wake is one whose task the firewall   *)
(* cancelled, and the flag of the firewall is still up, so that            *)
(* VpnApiFirewallDown starts it again (syncing_state/mod.rs:382-396).      *)
StalledOnlyByFirewall ==
    In("Syncing") /\ sync.stage = "Idle" /\ sync.events = <<>>
        => shared.firewall /\ told = "up"

(* On a disk that does its work, the account in memory is the one on disk  *)
(* and its device keys are there, whichever steps of Forget and Store are  *)
(* behind, so that a restart finds the same account (handle_store_account, *)
(* handle_forget_account and the loading in AccountController::new).       *)
MemoryMatchesDisk ==
    shared.account = storage.account /\ shared.device = storage.keys

-----------------------------------------------------------------------------

(* ReadyToConnect, which lets the tunnel dial, is entered only for an API  *)
(* account whose device is known and whose own summary the API gave since  *)
(* the account was stored.                                                 *)
ReadyIsEarned ==
    [][state' = Simple("ReadyToConnect") /\ ~In("ReadyToConnect")
        => /\ shared.account \in ApiAccounts
           /\ shared.device
           /\ shared.summary = shared.account]_vars

(* While the API is not firewalled, and no client starts it over (Refresh, *)
(* ResetDevice), Syncing and RequestingZkNyms end: in a state that a       *)
(* waiting tunnel (wait_for_account_ready_to_connect) gets an answer from, *)
(* or in PendingSubscription.                                              *)
Working == state.name \in {"Syncing", "RequestingZkNyms"}
WorkSettles == (Working /\ told = "down") ~> (~Working \/ told = "up")

=============================================================================
