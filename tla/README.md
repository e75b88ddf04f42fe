# Formal models of the NymVPN client core

TLA+ models, TLC configurations and TLAPS proofs for the control logic of
`nym-vpn-core`: the code that decides when a tunnel is brought up, what the
firewall lets through meanwhile, how it is all taken down again, and the actors
around it: the service that commands it, the account controller it waits for,
the monitor that watches the connection, and the lazily started SOCKS5 proxy.

Paths below are relative to `src/nym-vpn-core/crates/`; *TSM* stands for
`nym-vpn-lib/src/tunnel_state_machine`. `PROJECT.json` maps every definition to
the lines it translates.

## 1. The system and its parts

The daemon `nym-vpnd` (or the library, on mobile) runs one **VPN service**. It
owns the user's *target state* and the configuration, and sends commands to the
**tunnel state machine**, which owns the firewall, DNS and routes. The machine
starts one **tunnel monitor** task per connection attempt; that task waits for
the **account controller**, has gateways selected by the **gateway provider**,
registers with them, starts the tunnel and watches it with a **connection
monitor**. The **offline monitor** tells the machine, and the account
controller, whether the host has routes. The account controller gets its
tickets through **zk-nym requests**. The **SOCKS5 service** follows the state of
the tunnel and starts a mixnet client of its own when somebody connects.

| component | state it keeps | operations | status |
|---|---|---|---|
| Tunnel state machine (TSM `mod.rs`, `states/`) | current state handler, shared state (settings, firewall policy, DNS, ...) | commands `Connect`, `Disconnect`, `SetTunnelSettings`, `Block`; monitor events; futures; connectivity; shutdown | modelled |
| Tunnel monitor (TSM `tunnel_monitor.rs`) | stage, gateways, shutdown token | the stages of `run_inner`, four questions to the machine, `cancel`, `wait` | modelled |
| Offline monitor (`nym-offline-monitor`) | last answer, watch channel | route event, `connectivity`, `next` | modelled (Linux) |
| Connection monitor (`nym-connection-monitor`) | phase, retries, timer | probe, timeout, events | modelled |
| Account controller (`nym-vpn-account-controller`) | nine states, account, device keys, summary | sync, store, forget, reset, refresh, firewall up and down, upgrade mode, retries | partly |
| Zk-nym requests (its `commands/zknym_handler`) | pending requests, ticketbooks, one task per request | clean up, request, resume, poll, import, confirm, remove | partly |
| VPN service (`nym-vpn-lib/src/service/vpn_service.rs`) | target state, last tunnel state, settings timer | target, reconnect, settings, keys, tunnel events, shutdown | partly |
| SOCKS5 service (`.../service/socks5`) | mixnet client, two locks, counter, timers | accept, start, idle stop, rotate, disable | partly |
| Gateway provider (TSM `tunnel/gateway_provider`) | prefetched selections behind a lock, blacklist | `next`, `set_tunnel_settings`, blacklist | not modelled |
| Firewall, DNS, routing, split tunnel, resolver, ad blocker | operating system objects | set, reset | as effects that may fail |
| Gateway directory, API client, discovery, statistics, stores, IPC, FFI, apps, vendored code | | | not modelled |

**How they interact.** Commands and tunnel events go through unbounded
channels. The monitor reports on an unbounded channel of its own, whose receiver
is a field of the Connecting or Connected handler; when the handler is dropped,
so is the receiver, with whatever is queued. Four of its events (`SelectedGateways`,
`RegisteredWithGateways`, `InterfaceUp`, `Down`) carry a one-shot reply channel
that the monitor awaits for at most `REPLY_TIMEOUT`. Connectivity comes on a
watch channel, which keeps the last value only, and can also be asked for. The
machine tells the account controller `VpnApiFirewallUp` and `Down`, commands like
any other. The service copies the state events into an `RwLock` that clients and
the SOCKS5 tasks read.

**What is hard.** Handlers run one at a time, but between two of them every
task moves: a command meets a monitor at any stage; a state waits for a task
that may be waiting for it; a firewall or DNS operation fails half-way into a
state; a notification is about a state of the network that is already over;
what to do after a disconnect changes several times before it happens; a handle
is dropped and its task goes on; a storage is reset in six steps, each of which
may fail or be the last before a crash; a decision is taken on a copy.

**What makes each component right.**

* *Tunnel state machine*: the user's last word wins; the kill switch is never
  open between Connect and Disconnect; no tunnel is orphaned or awaited in
  vain; Connected is complete; selections, networking, LAN and DNS follow the
  state; clients see the life cycle they were promised; shutdown ends.
* *Tunnel monitor*: dials only what the firewall was opened for; every question
  is answered; cancellation ends it at any stage.
* *Offline monitor*: each change of connectivity that the machine acted on is
  eventually followed by a notification of its end (it is not: section 5).
* *Connection monitor*: a failure is reported neither too soon nor too late,
  probes are paced, each outcome is said once.
* *Account controller*: ReadyToConnect is earned by the account that is stored;
  it comes to rest, so that a waiting tunnel gets an answer; memory and disk agree.
* *Zk-nym requests*: nothing is confirmed that is not stored (it is: section
  5), what a fetch reports is there, and a secret is kept until the API was told
  of the download or 60 days went by.
* *VPN service*: no request is lost; decisions taken on the copy of the state are
  right once the service has caught up; settings arrive; the last state is told.
* *SOCKS5 service*: while it is enabled, one mixnet client at a time, and none that
  nobody uses for long. Neither holds of the clients a disable leaves (section 5).

## 2. Modules

| module | content |
|---|---|
| `OfflineMonitor` | the route event task, the watch channel, the direct query |
| `TunnelMonitor` | one monitor task as a stage machine, its event queue, replies, routes |
| `TunnelStateMachine` | EXTENDS both: the six states, commands, `Init`, `Next`, `Spec` |
| `TunnelLifecycle` | the abstract specification: what clients of the machine are promised |
| `TunnelProperties` | invariants, action properties, the refinement mapping, fairness, liveness |
| `ConnectionMonitor` | the probes in counted time, and the loop that reads their outcome |
| `AccountController`, `AccountProperties` | EXTENDS `OfflineMonitor`: the nine states, the sync task, the storage, crashes |
| `ZkNymRequests` | fetches, the task of each request, the API, the databases |
| `VpnService` | EXTENDS `TunnelLifecycle`: the actor, two channels, the copy of the state |
| `LazySocks5` | accept loop, connections, three monitors, two locks, disable |
| `TunnelProofs` | lemmas on operators; one lemma per handler; the invariant and the kill switch |
| `TunnelPolicies` | EXTENDS it: DNS, LAN and networking follow the state; the machine implements the life cycle |
| `TunnelAttempts` | EXTENDS both: the machine and the monitor it is behind of |
| `AccountProofs`, `ConnectionMonitorProofs`, `Socks5Proofs`, `VpnServiceProofs`, `ZkNymProofs` | the theorems of these modules |
| `MCTunnel`, `MCAccount`, `MCZkNym`, `MCConnectionMonitor`, `MCVpnService`, `MCSocks5` | constants and symmetry, for TLC |

`AccountController` and `TunnelStateMachine` both compose the same
`OfflineMonitor`; `VpnService` is composed with `TunnelLifecycle`, which the
machine is shown to implement, rather than with the machine itself.

### The tunnel: state

| variable | in the code |
|---|---|
| `state` | `current_state_handler`: the struct of the current state. `phase` of Connecting tells which of its futures is pending: `reconnect_delay_fut`, `resolve_api_addrs_fut`, or the monitor's events (then `tunnel_monitor_handle` is `Some`). `Finished` is `NextTunnelState::Finished`; `Panicked` a failed `expect` |
| `shared` | `SharedState`: settings, the firewall policy in force, DNS, and flags for `allow_networking`, geolocation, resolver overrides, SOCKS5 addresses and the blacklist. `faults` records whether the last firewall or DNS operation failed |
| `published` | the last `TunnelEvent::NewState` |
| `intent` | a history variable: whether the last Connect or Disconnect handled was a Connect |
| `shutdown` | `state_machine_shutdown_token` |
| `monitor`, `events`, `listening`, `routes` | the monitor's stage, gateways, whether the reply it waits for was given, its token; the queued events; whether the receiver exists; whether routes and rules of a tunnel are installed |
| `online`, `routeChanged`, `connectivity`, `watch` | the host; the task's listener, last answer and channel |

### The tunnel: actions and abstractions

One action is one run of `handle_event`: one branch of its `select!`, up to the
state returned. The async `enter` functions become operators from a shared
state to the *set* of outcomes: `SetFirewall` and `SetDns` have two when they
may fail, and `EnterConnected`, say, is the sequence of both with its early
returns. `Enter` and `SameState` are `NewState` and `SameState` of
`NextTunnelState`: the former publishes. Commands are split by the state that
handles them (`ConnectInOffline`, `SettingsInConnecting`, ...), as in the code.

Where a handler awaits a monitor's tombstone after answering its `Down`
(`ConnectingDown`), the wait is part of the action: the monitor has nothing
left to do but exit. `ConnectedDown` only drops the handle of a monitor that had its
answer (`connected_state.rs:386`), as the code does; the model has no place for a task
that is returning with nobody to take its tombstone, and counts it as gone. After a
shutdown in Disconnecting the handler awaits the
tombstone inside its branch and takes no command: that is `after = Exit`.

* A *point* stands for a value of the settings entry point, exit point and
  QUIC; gateways are the point they were selected for. Selections are made for
  the settings in force when they are made. All other settings that require a
  reconnect are the Boolean `other` of `SetTunnelSettings`.
* A firewall policy keeps its kind, `allow_lan`, whose endpoints are let
  through, and three flags (API endpoints, registered peer, tunnel interface).
* IPv4 and IPv6 are one connectivity, but a change of either notifies.
* The `MaxRetry` of the model is `u32::MAX`; only saturation and parity of the
  attempts matter to control.
* `Block` is sent by the split tunnel, which Linux does not have; it is
  enabled in one run because all states handle it.
* Left out: code under `cfg` for other platforms, lab environment variables,
  the local DNS resolver, ad blocking, the SOCKS5 process, statistics, timing.

### The life cycle

`TunnelLifecycle` knows the state that is `shown`, a `network` that is open,
closed or tunnelled, the `intent`, the token, and whether the machine has
`ended`. Its actions are what a client may see happen: `Dial` closes the network
before anything is shown; `Establish` leads to Connected from Connecting only and
only if wanted; `OpenNetwork` needs a Disconnect or a shutdown and never comes
straight from Connected; `Hold` blocks; `End` needs the token. An operation of
the firewall that fails leaves the network `Unchanged`. `TunnelProperties` maps
`published`, the policy and the state to these variables.

### The connection monitor

Time is counted in units of one clock. `ProbeSucceeds` and `ProbeFails` are the
two arms of `run` on the outcome of `probe_task`, `SendProbe` the arm of
`next_probe_timer`, `ReadEvent` and `LeaveLoop` the loop of the tunnel monitor
(`run_inner`, `tunnel_monitor.rs:823`). A probe may end at any moment up to its timeout. What
the executor may add is `Lateness`: a task that is due runs within it; `Tick`
lets no more time go by. The two phases have budgets and timeouts of their own.

### The account controller

`state` is the current handler; a Syncing state carries its attempts. `sync` is
the task it spawned with what it has sent; `fetch` the task whose handle
RequestingZkNyms holds, or its result; `strays` counts fetches whose handle was
dropped without an abort, which go on. `storage` is what is on disk: the account,
the device keys, whether the two databases are open, an upgrade mode credential.
`Forget` is `handle_forget_account`: credentials, pending requests, WireGuard keys,
files, account, device keys, in this order; `LeftByForget` says what is on disk
when each of them fails, and `CrashDisks` what is when the process is killed among
them. `Restart` loads what is there. `told` is a history variable: the last of
`VpnApiFirewallUp` and `Down`. Answers of the API are an outcome of the tasks;
registering and linking accounts, on-chain balances and deeplinks are left out.

### Zk-nym requests

A fetch reads once which types run low (`BeginFetch`), deletes the pending requests
older than 60 days (`CleanUp`, `stale`), reads the ids of the others (`ReadPending`),
asks the API which of these are ready (`List`), resumes them and then requests the
types. Each request is a task that sends, inserts the pending request, gets it back,
polls, imports, confirms and removes it, and that an abort drops at any of these
steps, as does the timeout of `wait_for_join_set` (`Joined`), which keeps only the
results that are there. `server` is what the API holds of each id and `confirmed`
what it was told: it may still list and hand out a confirmed zk-nym. An answer may
be lost on the way after the API acted on it. `Age` makes a request 60 days old at
any moment, also under a task that works on it. Cryptography is the fault `keys`. The
uniqueness of stored ticketbooks is the database's and not modelled: `stored` is a set.

### The VPN service

One action per arm of the `select!` of `run` and per command that changes its
state. `commands` and `events` are the two unbounded channels. `tunnelState` is
the copy, which `handle_tunnel_event` writes with `try_write`: `missed` records
that it was not written. `changingKeys` is the actor awaiting the account
controller in one of the three handlers guarded by Disconnected: it serves nothing
else, the machine goes on. The shutdown goes on to the join of the machine and
the drain of its events.

### The SOCKS5 proxy

One task per connection, in the order of `route_via_new_tunnel`: the check
without the mutex, `init_mutex`, the check with it, the start, the store, and the
time given to bind, with retries around it. `clientLock` is the lock of
`mixnet_client`, which `shutdown_backend` holds from `take()` to the end of
`disconnect()`: `TakeClient`, `TellClient` once `is_mixnet_running` is written, and
`Disconnected` when the client stopped. Timers are `none`, `recent` or `elapsed`.

`Abort` is `JoinHandle::abort`: the task drops what it holds, and so the lock. A
mixnet client is *not* stopped by that. It is tasks of the vendored SDK that only its
`disconnect` cancels, and neither `Socks5MixnetClient` nor its shutdown tracker has a
`Drop` that would. `taken` therefore keeps, for each task, what became of the client it
took out: `running` until told, `stopping` until it stops by itself, whether its task is
still there (`LookedAfter`) or was aborted (`Orphans`). The model goes from one enable to
its disable.

## 3. Runs

| run | instance | checks | distinct states |
|---|---|---|---|
| `core` | two points, symmetric, `MaxRetry` 3; routes, firewall failures, LAN | types, intent, ownership, firewall order, LAN, selections, progress | 873,642 |
| `failures` | one point, `MaxRetry` 1; routes, firewall and DNS failures, late replies, Block | kill switch, panics, completeness, networking, DNS, opening | 1,732,356 |
| `live` | one point, `MaxRetry` 1; routes, fairness | three liveness properties, the refinement | 181,620 |
| `offline` | the same | one violated property (section 5) | |
| `account` | two API accounts and a decentralised one; every command, eight faults, crashes | types, summaries, stalls, readiness | 786,792 |
| `account_live` | one of each kind, two attempts, one stray fetch, fairness | memory and disk, coming to rest | 32,406 |
| `zknym` | two fetches, two ids, one type, every fault but `write`, aborts | types, confirmation, reports, secrets | 702,569 |
| `zknym_swallowed` | one fetch, the fault `write` | one violated property (section 5) | |
| `monitor` | timeouts 2 and 3, budgets 3 and 2, periodicity 4, lateness 1, time 22 | types, detection, earned failures, pace, announcement | 164,449 |
| `service` | two changes of configuration, two commands or events under way | types, decisions, settings, shutdown | 152,872 |
| `socks` | two connections, symmetric, two attempts | types and locks, one backend | 4,071,080 |
| `socks_live` | one connection, one attempt, fairness | stopping of an unused client | 347,324 |

What they show of the tunnel:

* `NoPanic`: `expect("selected gateways must be set")` holds, because `Up` is
  sent only by a loop that has not yet seen `Failed`, after `SelectedGateways`
  went through the same queue. It holds with late replies too.
* `MonitorOwned`: there is a monitor task exactly while a state holds a handle
  or a tombstone future. `ConnectedIsComplete`: in Connected the routes, DNS,
  SOCKS5 addresses and the endpoints of the monitor's *own* gateways are there.
* `FirewallBeforeDial`: each of the three rendezvous happens in time, as long
  as replies come within `REPLY_TIMEOUT`. With late replies it fails by design,
  so `failures` does not list it.
* `KillSwitch`, `NeverOpensUnasked`, `DnsOnlyWhenConnected`,
  `NetworkingFollowsFirewall`, `LanFollowsSettings`: on every failure path. They
  are conditional on the last firewall (or DNS) operation: a failed one leaves
  what was there, and the code only logs it in Error and Offline.
* `SelectionStaysFresh`: selections of old settings are dropped, with the
  exception of Disconnecting (section 5). `ProgressMonotone`: what clients see.
* `ImplementsLifecycle`: the whole machine with its monitor, queue and futures
  is a `TunnelLifecycle`; the run has no failures, the theorem has them all.
* `ShutdownTerminates`, `DisconnectCompletes` use no timeout: the protocol is
  free of deadlock without `REPLY_TIMEOUT`. `OfflineLeftWhenNotified`: a loss
  that was notified is undone.

Of the others:

* `DeadIsDetected` and `FailedIsEarned` bound from both sides when a dead
  connection is reported; `OutcomeIsAnnounced` says that the consumer, which
  drops repeated statuses, loses neither the first Viable nor the Failed.
* `SummaryOfAccount`, `ReadyIsEarned`: a late summary is never taken for that of
  an account stored since. They hold because the sync task is cancelled with its
  state. `StalledOnlyByFirewall`: a Syncing state with nothing to wake it is one
  that `VpnApiFirewallDown` will wake. `WorkSettles`: the attempts, which two
  states hand to one another, do run out. `MemoryMatchesDisk` holds where only
  the removal of files fails, and, as the theorem shows, whatever fails but the
  account, its keys and their storage; with one of these it does not, by the order
  of the steps, and no document promises it.
* `ConfirmedIsImported`, `KeptUntilConfirmed`: store, confirm, remove are in an
  order that an abort between any two leaves harmless, also when two fetches resume
  the same request. The clean-up is the exception: it deletes by age alone, so
  `KeptUntilConfirmed` allows for requests that are 60 days old. `ReportedIsStored`:
  a fetch that says `FetchedTickets` stored and confirmed the ticketbook of every task
  it reports, and one that says `UpgradeMode` a token, though the timeout
  cut others short. The converse is not true (section 5).
* `DecisionsAreCurrent`: a request that is turned down asks for what the
  commands under way, or the machine's intent, already pursue; and once the
  service has caught up, an Error is retried and keys change under no tunnel.
  `ShutdownIsTold` is conditional: *if* the machine ends, the service does, and
  clients know the last state. `live` shows that it ends.
* `OneBackend`: no second mixnet client starts while one is stored or waited for to
  disconnect, by any interleaving; and a client that no task looks after any more
  exists only after a disable. `UnusedIsStopped`: while the proxy is enabled, a client
  that no connection uses is told to stop and does, or a connection comes. Both stop at
  the disable, because the code does: see section 5.

**Bounds.** Two points are enough to tell a stale selection from a fresh one;
more would only rename. `MaxRetry` 3 has odd and even attempts below saturation
and an odd one at it, as `u32::MAX` is odd. The event queue needs no bound: the
monitor stops at its next question, and with late replies the number of stages
bounds it. The number of commands, route changes and tunnel attempts is not
bounded. Two API accounts are needed for a summary of the wrong one.
`MaxAttempts` of the account controller is 1 or 2 where the code has 10; past it
attempts are not told apart, in the code either. `MaxStrays` counts fetches left alone: none in
`account`, whose properties do not depend on them, one in `account_live`. `Ids`
bounds the requests an API ever answers: two let two fetches share one and
differ on another. `MaxTime` 22 units hold the whole initial budget, a success,
and the monitoring budget; `MaxEvents` 3 lets the consumer lag. `MaxInFlight` 2
limits what new requests and the machine may add to the service's channels;
settings are always let in and may exceed it, up to `MaxConfig`. Two connections make the race for the mutex; with liveness one is
enough, as a second only makes `InUse` true more often. All of the bounds of
time, channels and ids are constants that the theorems leave open.

**Deadlock** is checked in all tunnel, account and zk-nym runs: these systems
never stop, as routes, restarts or tickets go on. It is off in `monitor` (the task
returns and the clock is bounded), in `service` (it exits) and in the SOCKS5 runs
(the proxy ends once disabled).

**Fairness.** *Tunnel* (`live`, `offline`): weak fairness of the offline
monitor's task, of the monitor's own steps, and of each class of branches of
`select!` (futures, monitor events, connectivity, shutdown): tokio polls what is
ready and `select!` picks at random among ready branches, so one that stays ready
is taken. A monitor whose step depends on the account, the directory, a gateway
or the tunnel may stay where it is for ever; hosts need not get routes back.
Commands need no fairness. One more conjunct says that after the shutdown token
is cancelled only finitely many commands are handled: `VpnService::run` leaves
its loop, the only sender, before it cancels that token (`vpn_service.rs:765-773`).
*Account*: the tasks end (requests have timeouts) and their events are handled;
nothing of routes, commands, timers. *Connection monitor*: both tasks run and
time goes on; nothing makes a probe succeed. *Service*: strong fairness of the
settings timer and of the events, because the actor serves them only between
key changes, and its `select!` is not biased; weak of the rest; nothing of the
tunnel, nor that the machine ends. *SOCKS5*: timers run out, the monitors run,
tokio's lock is fair to those that wait (strong fairness of `TakeClient`), a task
that took a client goes on to tell it, and a client that is told stops; nothing of
clients, nor of how long one takes to connect.

## 4. Proofs

The theorems hold for all constants that satisfy the modules' named assumptions
(a non-empty set of points, `MaxRetry` positive, any timing, any bounds, any
subset of faults).

| module | theorem | of `Spec` |
|---|---|---|
| `TunnelProofs` | `InvHolds`, `TypeCorrect`, `IntentIsRespected`, `KillSwitchHolds`, `MonitorIsOwned` | `[]Inv`, `[]TypeOK`, `[]IntentRespected`, `[]KillSwitch`, `[]MonitorOwned` |
| | `OpensOnlyWhenAsked` | `NeverOpensUnasked` |
| `TunnelPolicies` | `PoliciesHold`, `DnsFollowsTunnel`, `LanFollows`, `NetworkingIsFollowed` | `[]PInv`, `[]DnsOnlyWhenConnected`, `[]LanFollowsSettings`, `[]NetworkingFollowsFirewall` |
| | `LifecycleImplemented` | `ImplementsLifecycle` |
| `TunnelAttempts` | `AttemptsHold`, `NeverPanics`, `ConnectedComplete` | `[]QInv`, `[]NoPanic`, `[]ConnectedIsComplete` |
| | `FirewallIsFirst` | `[]FirewallBeforeDial`, if `~ReplyMayTimeOut` |
| | `ProgressIsMonotone`, `SelectionIsFresh` | `ProgressMonotone`, `SelectionStaysFresh` |
| `ConnectionMonitorProofs` | `TimingHolds`, `MonitorTypeCorrect`, `DeadConnectionIsDetected` | `[]IInv`, `[]TypeOK`, `[]DeadIsDetected` |
| | `FailureIsEarned`, `ProbesPaced` | `FailedIsEarned`, `ProbesArePaced` |
| `AccountProofs` | `AccountInvHolds`, `AccountTypes`, `SummaryIsOfAccount` | `[]IInv`, `[]TypeOK`, `[]SummaryOfAccount` |
| | `OnlyFirewallStalls`, `ReadyEarned` | `[]StalledOnlyByFirewall`, `ReadyIsEarned` |
| | `MemoryIsOnDisk` | `[]MemoryMatchesDisk`, if `DiskWorks` |
| `VpnServiceProofs` | `ServiceInvariant`, `ServiceTypeCorrect`, `DecisionsStayCurrent`, `ExitIsTold` | `[]Inv`, `[]TypeOK`, `[]DecisionsAreCurrent`, the safety half of `ShutdownIsTold` |
| | `ToldInOrder` | what clients are told keeps the order of the life cycle |
| `ZkNymProofs` | `RequestsInvariant`, `RequestsTypeCorrect`, `SecretIsKept` | `[]Inv`, `[]TypeOK`, `KeptUntilConfirmed` |
| | `ConfirmedOnDisk`, `ReportedOnDisk` | `[]ConfirmedIsImported`, `[]ReportedIsStored` without the fault `write` |
| `Socks5Proofs` | `SocksInvHolds`, `SocksTypes`, `NeverTwoBackends` | `[]IInv`, `[]TypeOK`, `[]OneBackend` |

Four theorems have a hypothesis. `~ReplyMayTimeOut` is the promise itself: after
`REPLY_TIMEOUT` the monitor goes on by design without the firewall. `Reliable` and
`DiskWorks` exclude the faults that are known to break the property (section 5
and the remarks on `MemoryMatchesDisk`). The runs that check the four properties
satisfy them.

**The tunnel's invariant** is

    Inv == TypeOK /\ IntentRespected /\ Fits(state, shared)
           /\ (MonitorRuns <=> Holds(state)) /\ EventsOwned

None of the parts is inductive alone. The kill switch of Error after a failed
`enter` of Connecting needs `Fits`, which says of a state not only what policy
it must have but that Connecting and Connected are never *entered* with a
fault. Ownership needs `EventsOwned`: without a monitor the queue is empty, or a
`Down` left over could be joined with no task. Intent needs the flags of
`after` as well as of Offline. `OpensOnlyWhenAsked` follows from the target of a
step: a policy `None` is only ever reached in Disconnected, or at shutdown.

The argument: `Reaching(targets, s)` is the set of outcomes with a state in
`targets`, a well-typed shared state, and `Fits`. A first part proves, for each
`Enter` operator, which targets it reaches whatever fails. `Consistent(intent,
shutdown)` is the set of states that respect an intent, and `Arrives(targets)`
says of a step what `Reaching` says of an outcome, and that the monitor, queue
and receiver fit it. A second part proves `Arrives(Consistent(...))` for each
handler in each state; the last puts the cases of `Next` together.

**What follows the state** (`TunnelPolicies`) is proved on top of `Inv`:
`Proper(st, s)` says what DNS, LAN and networking have to be in each state. An
`enter` starts from what the state before left, so its lemma asks for `Settled(s)`:
DNS may still be the tunnel's only if resetting it failed. Every handler that
leaves Connected is then shown to settle DNS *before* it calls the next `enter`;
this is what the property would lose first.

**An attempt to connect** (`TunnelAttempts`). The machine is behind the monitor: what
it knows of it is what it has handled of its queue, and it may give the attempt up
in between. Each stage of the monitor has a level (`Level`), each event and each
published progress a place (`Order`) on the same scale. `AInv` says:

* `Heard`: events are queued exactly where a handler waits for them;
* `InOrder`: they are queued in order, none past the stage the monitor is at;
* `SelectionQueued`: a selection in the queue was made for the settings in force;
* `Answered`: unless replies may time out, the monitor waits as long as an event
  that asks for a reply is queued;
* `Behind`: what is published is before what is queued and what is to come;
* `Attempt`: what an event is to change is as the monitor has it, *once no such
  event is queued*, provided the monitor got that far (`Reached`), and has not
  failed before it was up;
* `Success`: in Connected all of this has happened.

The reason why `NoPanic` holds is in `Reached`: a queued `Up` counts as having got
there even when the monitor has failed since, while its `SelectedGateways` must
have been handled, as it was queued before. Each handler is shown to keep `AInv`,
to publish no earlier progress and to drop what was selected for other settings
(`Goes`); the monitor's own steps change the queue at its end only.

**The refinement** (`TunnelPolicies`). What matters of a step to the life cycle
is the names of the two states, the kinds of the two policies, and what is
published. `Tracks` is one of four forms of step: a new state, with what may lead
to what (`Leads`); the same state, with a policy replaced only where it already
blocks or is to; the return; a panic, which the life cycle does not see. Each
handler is shown to track, and each form is mapped to the steps of
`TunnelLifecycle`, case by case. `Shows` strengthens the invariant: `published`
is the state, but for a start offline.

**The connection monitor**. The clock would have to be compared with every probe
sent so far; `IInv` keeps one window instead: the probe after the n-th failure in
a row is sent between `n * Timeout` and `n * (Timeout + Lateness) + Lateness`
after the base (`Earliest`, `Latest`), and the clock is within a late timeout of it.
The products are set apart in two lemmas, as the solver does not multiply.

**The service**. Two chains are never broken: from `target` through the commands
under way to `intent` (`Pursued`), and from `shown` through the events under way to
`told` and, unless a write missed, to the copy. Both are about the *last* of a
sequence, so that lemmas on `Append` and `Tail` carry them through the channels.
`ToldInOrder` is about every two neighbours in the channel: with `LifecycleImplemented`
it says that what the machine promises arrives at the clients in that order.

**Zk-nym requests**. The properties relate what several tasks do to one id. The
invariant says what a single task knows at each step (at `remove` the API has
confirmed; at `confirm` the ticketbook is stored, unless the database fails in
silence), and `Lasting` that no other task takes it back: no status follows
`confirmed`, what is stored stays stored. So the number of fetches does not matter.
`Told` carries it to the end of a fetch: a phase that reports something has only tasks
that ended without an error, since `Joined` keeps none that the timeout cut short.

**The account controller**. `Held` says of each state what it knows of the account
in memory: a Syncing state works for the account its task was started with,
RequestingZkNyms and UpgradeMode for one whose summary is there. Not even that is
invariant without its exception, an account that `Forget` removed while it failed
on the files, with which the state goes on. What makes `Held` inductive is
`Synced`, on the events of the task that are still queued: the summary comes
before the end of the task, and a task does not end without a last event unless
the firewall ends it. `MemoryIsOnDisk` is a second invariant on top, `Matches`,
which adds that an account on disk has its keys there: `Store` relies on it.

**The proxy**. `OneBackend` adds three counters, of which no one is the reason.
`StartsAlone` is: while a connection is between the check under the mutex and the
store, no client is stored and no live task has one taken out, because only the holder
of the mutex stores one and only a stored one can be taken. `TakenIsKnown` says whose a
client is that was taken out: of the holder of the lock, or of a task that ended, and
then the proxy is cancelled. Of the counter it is proved that it never misses a
connection, so that the saturating subtraction of the code never saturates.

**Only model-checked**: `ShutdownTerminates`, `DisconnectCompletes`,
`OfflineLeftWhenNotified`, `OutcomeIsAnnounced`, `SettingsArrive`, the liveness
half of `ShutdownIsTold`, `WorkSettles` and `UnusedIsStopped`. All of them are
liveness under fairness, which needs `ENABLED`, beyond this prover. Every safety
property a run checks is also a theorem.

## 5. Findings

1. **Offline for ever on an online host** (run `offline`). The offline task
   compares each check with its own last one; `ConnectingState::enter` makes a
   check of its own. If routes are gone at the second and back before the next
   of the first, the machine waits in Offline for a notification that will not
   come (until a route change of either family, or a command).
2. **A ticketbook that was never stored is confirmed** (run `zknym_swallowed`).
   `import_zk_nym` takes every error that the database reports for the unique
   violation of a ticketbook imported before; on a full disk the API is told that
   the ticketbook is downloaded, and the secret to fetch it again is removed.

Disagreements and surprises met while modelling, which are in the models but
have no run, since no document of the repository denies them clearly enough:

* *Tunnel*: the first state is not published, so that a machine started offline
  shows Disconnected. A changed action after disconnect is not published.
  Disconnecting, reached because the host went offline, keeps the gateways to
  reconnect to though the entry point was changed, unlike Offline and Connecting.
  `set_routes` may run after the state that was left removed the routes.
* *Service*: an event that `try_write` drops leaves the copy stale until the next
  one, and a request may then not leave an Error. The guard of forget and rotate
  passes while a Connect is under way. A Connect within a second of a change of
  settings still uses the old ones: a change of target does not flush the timer.
* *Account*: a step of Forget that fails leaves memory and disk different until a
  restart. Once the database of pending requests is removed and cannot be created,
  Forget fails until a restart.
* *Zk-nym*: a fetch aborted between the answer of the API and
  `insert_pending_request` loses a ticketbook that was issued. The clean-up before each
  resume (`handler.rs:98-108`) deletes a request older than 60 days even when its
  ticketbook is ready and was never fetched. The types that run low are read before the
  pending requests are resumed, so that a type a resumed ticketbook has filled up is
  requested all the same. A token of the upgrade mode stored by a task that the timeout
  then drops is not reported, although the code means to "always fallback to the upgrade
  mode" (`requesting_zknym_state.rs:193`); and when the timeout leaves no result at all,
  the branch that "should be impossible" (`:210`) is taken and logged as "BUG DETECTED".
* *SOCKS5*: `rotate_network_requester` checks for connections and then acts
  ("Only rotates if there are no active connections", `lazy_socks5.rs:1129`):
  one may come in between. "Callers should check for active connections before
  calling this" (`:1291`) is not done by `monitor_tunnel_state`. `is_mixnet_running`
  may be set after the client was stopped. A client that was dialing when a
  WireGuard tunnel came up keeps its entry gateway (`:1036` looks at running ones
  only). `last_connection_closed` is really the first idle round. `cleanup`
  (`socks5/mod.rs:275-306`) cancels the token and aborts the wrapper's task at once, so
  that `shutdown_backend` at its end is mostly skipped: the mixnet client is dropped, not
  stopped, runs on and keeps the internal port, which the client of the next enable
  meets. An abort while `shutdown_backend` waits for `is_mixnet_running`
  (`lazy_socks5.rs:1296`) has the same end for a client already taken out. A connection
  that outlives the disable may even start one. The task that disables the proxy on
  Disconnected (`vpn_service.rs:897-908`) may run after a new connect.

## 6. Not modelled

The repository is half a million lines, nearly all of which are a vendored copy of
the nym platform (`nym-vpn-patches`), generated or user interface code; the map
covers the files that decide. Of the project's own code:

* *Gateway provider*: its stream polls a lock through a future made anew at each
  poll and keeps a list of waiters. What the machine sees of it (a selection for
  the settings in force, the blacklist) is in the tunnel's model.
* *Firewall, DNS, routing, split tunnel, resolver, ad blocker*: translations to
  objects of the operating system. That they may fail is in the models.
* *Gateway directory, API client, discovery, statistics*: HTTP, parsing, periodic
  refresh. Their outcomes are nondeterministic.
* *Service*: queries and commands passed on to another service; *account*:
  registering, linking, on-chain balances, deeplinks; *zk-nym requests*: Forget's
  reset of the databases under a fetch that was left alone, ticketbooks that expire;
  *SOCKS5*: enabling again while tasks and clients of the last proxy live on,
  selection of requesters.
* *Daemon, CLI, IPC, FFI, applications*: conversions and plumbing.

## 7. What is left

1. `GatewayProvider`: a waiter is woken, a selection is for the settings last set.
2. `LazySocks5` over several enables, with the clients that the last disable left, and
   composed with `VpnService`.
3. The steps of the liveness properties that are safety: what a tunnel that is
   being taken down has left to do, as a measure that each step decreases.
