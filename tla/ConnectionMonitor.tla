-------------------------- MODULE ConnectionMonitor --------------------------
(***************************************************************************)
(* The task that probes a tunnel's connection (nym-connection-monitor) and *)
(* the loop of the tunnel monitor that reads its events.  Time is counted  *)
(* in units; `now' is the clock of both tasks.  A probe ends at the latest *)
(* with its timeout, and a task whose timer is due runs within Lateness.   *)
(***************************************************************************)
EXTENDS Naturals, Sequences

CONSTANTS InitialTimeout, InitialRetries,        \* TimingConfig
          MonitoringTimeout, MonitoringRetries, Periodicity,
          NoTimer,    \* a timer that is terminated
          Lateness,   \* how late the executor may run a task that is due
          MaxTime,    \* bound: the clock stops here
          MaxEvents   \* bound: events the consumer may leave unread

ASSUME TimingAssumption ==
  /\ InitialTimeout \in Nat \ {0} /\ MonitoringTimeout \in Nat \ {0}
  /\ InitialRetries \in Nat /\ MonitoringRetries \in Nat
  /\ Periodicity \in Nat \ {0} /\ Lateness \in Nat
  /\ MaxTime \in Nat /\ MaxEvents \in Nat /\ NoTimer \notin Nat

VARIABLES now,
          phase,        \* State.phase
          retry,        \* State.retry
          lastReplyAt,  \* State.last_reply_at, 0 when there was none
          lastSentAt,   \* State.last_sent_at
          nextProbeAt,  \* next_probe_timer, NoTimer when it is terminated
          inFlight,     \* probe_task is not terminated
          cancelled,    \* the shutdown token
          exited,       \* the monitor's task has returned
          events,       \* ConnectionEvents sent and not read
          lastStatus,   \* last_connection_status
          hasSentUp,    \* has_sent_up_event: TunnelMonitorEvent::Up was sent
          hasFailed,    \* TunnelMonitorEvent::ConnectionFailed was sent
          left          \* the loop was left

task     == <<phase, retry, lastReplyAt, lastSentAt, nextProbeAt, inFlight>>
consumer == <<lastStatus, hasSentUp, hasFailed, left>>
vars     == <<now, task, cancelled, exited, events, consumer>>

Viable    == [kind |-> "Viable"]
Failed    == [kind |-> "Failed"]
Intermittent(n) == [kind |-> "IntermittentFailure", retry |-> n]

Statuses  == {Viable, Failed} \union [kind : {"IntermittentFailure"}, retry : Nat]

Timeout       == IF phase = "Initial" THEN InitialTimeout ELSE MonitoringTimeout
MaxRetryCount == IF phase = "Initial" THEN InitialRetries ELSE MonitoringRetries

Send(status) == events' = IF left THEN events ELSE Append(events, status)

-----------------------------------------------------------------------------
(* ConnectionMonitor::run: the first probe is sent at once. *)
Init ==
  /\ now = 0 /\ phase = "Initial" /\ retry = 0 /\ lastReplyAt = 0 /\ lastSentAt = 0
  /\ nextProbeAt = NoTimer /\ inFlight = TRUE
  /\ cancelled = FALSE /\ exited = FALSE
  /\ events = <<>> /\ lastStatus = [kind |-> "None"] 
  /\ hasSentUp = FALSE /\ hasFailed = FALSE /\ left = FALSE

(* A plausible slip: the budget of retries is not refilled by an answer. *)
ProbeSucceedsKeepsRetry ==
  /\ inFlight /\ ~exited /\ Len(events) < MaxEvents
  /\ lastReplyAt' = now /\ phase' = "Monitoring"
  /\ Send(Viable)
  /\ nextProbeAt' = now + Periodicity /\ inFlight' = FALSE
  /\ UNCHANGED <<now, retry, lastSentAt, cancelled, exited, consumer>>

ProbeSucceeds ==
  /\ inFlight /\ ~exited /\ Len(events) < MaxEvents
  /\ lastReplyAt' = now /\ retry' = 0 /\ phase' = "Monitoring"
  /\ Send(Viable)
  /\ nextProbeAt' = now + Periodicity /\ inFlight' = FALSE
  /\ UNCHANGED <<now, lastSentAt, cancelled, exited, consumer>>

(* The same interval between probes however soon they fail; the slips: at *)
(* once, and a timeout after the failure.                                  *)
RetryAtOnce == now
RetryAfterWait == now + Timeout

RetryAt == lastSentAt + Timeout

ProbeFails ==
  /\ inFlight /\ ~exited /\ Len(events) < MaxEvents
  /\ retry' = retry + 1
  /\ Send(IF retry' > MaxRetryCount THEN Failed ELSE Intermittent(retry'))
  /\ nextProbeAt' = RetryAt /\ inFlight' = FALSE
  /\ UNCHANGED <<now, phase, lastReplyAt, lastSentAt, cancelled, exited, consumer>>

Due == nextProbeAt # NoTimer /\ now >= nextProbeAt

SendProbeKeepsTimer ==
  /\ Due /\ ~exited
  /\ lastSentAt' = now /\ inFlight' = TRUE
  /\ UNCHANGED <<now, phase, retry, lastReplyAt, nextProbeAt, cancelled, exited, events, consumer>>

SendProbe ==
  /\ Due /\ ~exited
  /\ lastSentAt' = now /\ inFlight' = TRUE /\ nextProbeAt' = NoTimer
  /\ UNCHANGED <<now, phase, retry, lastReplyAt, cancelled, exited, events, consumer>>

Exit ==
  /\ cancelled /\ ~exited /\ exited' = TRUE
  /\ UNCHANGED <<now, task, cancelled, events, consumer>>

-----------------------------------------------------------------------------
(* The loop of the tunnel monitor, which ignores a status it has just seen *)
(* and reports the first success and a failure.                            *)
Status == Head(events)
IsNew(kind) == Status.kind = kind /\ Status # lastStatus

ReadEvent ==
  /\ ~left /\ events # <<>>
  /\ lastStatus' = Status /\ events' = Tail(events)
  /\ hasSentUp' = (hasSentUp \/ IsNew("Viable"))
  /\ hasFailed' = IsNew("Failed")
  /\ left' = IsNew("Failed") /\ cancelled' = (cancelled \/ left')
  /\ UNCHANGED <<now, task, exited>>

(* A slip: the monitor is left running. *)
LeaveLoopUncancelled ==
  /\ ~left /\ left' = TRUE
  /\ UNCHANGED <<now, task, cancelled, exited, events, lastStatus, hasSentUp, hasFailed>>

(* A closed bridge, the end of the mixnet client, the shutdown token or the *)
(* closed channel of events ends the loop; dropping the guard cancels.      *)
LeaveLoop ==
  /\ ~left /\ left' = TRUE /\ cancelled' = TRUE
  /\ UNCHANGED <<now, task, exited, events, lastStatus, hasSentUp, hasFailed>>

-----------------------------------------------------------------------------
Tick ==
  /\ now < MaxTime /\ ~exited
  /\ inFlight => now < lastSentAt + Timeout + Lateness
  /\ nextProbeAt # NoTimer => now < nextProbeAt + Lateness
  /\ now' = now + 1
  /\ UNCHANGED <<task, cancelled, exited, events, consumer>>

Next ==
  \/ ProbeSucceeds \/ ProbeFails \/ SendProbe \/ Exit
  \/ ReadEvent \/ LeaveLoop
  \/ Tick

Spec == Init /\ [][Next]_vars
(* Both tasks run; nothing makes a probe succeed or the loop end by itself. *)
FairSpec == Spec /\ WF_vars(ReadEvent) /\ WF_vars(Exit) /\ WF_vars(SendProbe)
                 /\ WF_vars(ProbeSucceeds \/ ProbeFails) /\ WF_vars(Tick)
-----------------------------------------------------------------------------
(* Types, and the watch that is kept: the timer is set for the next probe   *)
(* exactly when none is under way.                                          *)
TypeOK ==
  /\ now \in Nat /\ phase \in {"Initial", "Monitoring"} /\ retry \in Nat
  /\ lastReplyAt \in Nat /\ lastSentAt \in Nat
  /\ inFlight \in BOOLEAN /\ nextProbeAt \in IF inFlight THEN {NoTimer} ELSE Nat
  /\ cancelled \in BOOLEAN /\ exited \in BOOLEAN
  /\ events \in Seq(Statuses)
  /\ lastStatus \in Statuses \union {[kind |-> "None"]}
  /\ hasSentUp \in BOOLEAN /\ hasFailed \in BOOLEAN /\ left \in BOOLEAN

(* When the probes that count towards a failure began: at the start, or the *)
(* periodicity after the last answer.                                       *)
Base == IF phase = "Initial" THEN 0 ELSE lastReplyAt + Periodicity

(***************************************************************************)
(* A failure is earned: however soon probes fail (a socket error is        *)
(* immediate), Failed is only reported once the whole budget of retries,   *)
(* each with its own timeout, went by without an answer, so that a network *)
(* that is gone for a moment does not bring the tunnel down.               *)
(***************************************************************************)
FailedIsEarned ==
  [][events' = Append(events, Failed) =>
        now >= Base + MaxRetryCount * Timeout]_vars

(***************************************************************************)
(* A dead connection is found in time: while it was not reported, the      *)
(* clock is within the budget of retries since the last answer, and each   *)
(* probe loses at most the executor's lateness twice.                      *)
(***************************************************************************)
DeadIsDetected ==
  retry <= MaxRetryCount =>
    now <= Base + Lateness + (MaxRetryCount + 1) * (Timeout + Lateness)

(***************************************************************************)
(* No flood: two probes are never sent closer to one another than the      *)
(* timeout, or after an answer than the periodicity.                       *)
(***************************************************************************)
ProbesArePaced ==
  [][inFlight' /\ ~inFlight =>
        /\ retry > 0 => lastSentAt' >= lastSentAt + Timeout
        /\ retry = 0 => lastSentAt' >= lastReplyAt + Periodicity]_vars

(***************************************************************************)
(* What is due happens: an answer is announced as Up, a spent budget as    *)
(* ConnectionFailed, unless the loop was left before; and once it was left *)
(* the monitor's task ends.                                                *)
(***************************************************************************)
Queued(status) == \E i \in 1..Len(events) : events[i] = status
OutcomeIsAnnounced ==
  /\ Queued(Viable) ~> (hasSentUp \/ left)
  /\ Queued(Failed) ~> left
  /\ left ~> exited

=============================================================================
