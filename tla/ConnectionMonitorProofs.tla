----------------------- MODULE ConnectionMonitorProofs -----------------------
(***************************************************************************)
(* The timing of the connection monitor, proved for every TimingConfig and *)
(* every lateness of the executor.                                         *)
(***************************************************************************)
EXTENDS ConnectionMonitor, TLAPS

(* When the next probe is due: a timeout after the one that failed, or the *)
(* periodicity after the last answer.                                      *)
TimerSet ==
  ~inFlight => nextProbeAt = IF retry = 0 THEN Base ELSE lastSentAt + Timeout

InitialPhase == phase = "Initial" => lastReplyAt = 0 /\ (retry = 0 => inFlight)

(* The retry-th probe since the last answer is sent after that many         *)
(* timeouts at the earliest, and that many late timeouts at the latest.     *)
Earliest ==
  /\ inFlight => lastSentAt >= Base + retry * Timeout
  /\ ~inFlight => nextProbeAt >= Base + retry * Timeout
Latest ==
  /\ inFlight => /\ lastSentAt <= Base + Lateness + retry * (Timeout + Lateness)
                 /\ now <= lastSentAt + Timeout + Lateness
  /\ ~inFlight => /\ nextProbeAt <= Base + retry * (Timeout + Lateness)
                  /\ now <= nextProbeAt + Lateness

IInv == TypeOK /\ InitialPhase /\ lastSentAt <= now
          /\ TimerSet /\ Earliest /\ Latest

-----------------------------------------------------------------------------
(* Products of the retry count, which the solver does not multiply out.    *)
LEMMA OneMore ==
  ASSUME NEW r \in Nat, NEW k \in Nat
  PROVE  (r + 1) * k = r * k + k /\ r * k \in Nat /\ 0 * k = 0
BY SMT

LEMMA Monotone ==
  ASSUME NEW a \in Nat, NEW b \in Nat, NEW k \in Nat, a <= b
  PROVE  a * k <= b * k
BY SMT

LEMMA TimeoutIsNat == TypeOK => Timeout \in Nat /\ MaxRetryCount \in Nat /\ Base \in Nat
BY TimingAssumption DEF TypeOK, Timeout, MaxRetryCount, Base

-----------------------------------------------------------------------------
LEMMA SendType ==
  ASSUME TypeOK, NEW status \in Statuses, Send(status)
  PROVE  events' \in Seq(Statuses)
<1>1. events \in Seq(Statuses)
  BY DEF TypeOK
<1> HIDE DEF Statuses
<1> QED BY <1>1 DEF Send

LEMMA TypeStep == TypeOK /\ [Next]_vars => TypeOK'
<1> SUFFICES ASSUME TypeOK, [Next]_vars PROVE TypeOK'
  OBVIOUS
<1>1. CASE ProbeSucceeds
  <2>1. events' \in Seq(Statuses)
    BY <1>1, SendType DEF ProbeSucceeds, Statuses
  <2>2. nextProbeAt' \in Nat
    BY <1>1, TimingAssumption DEF ProbeSucceeds, TypeOK
  <2> QED BY <1>1, <2>1, <2>2 DEF ProbeSucceeds, consumer, TypeOK
<1>2. CASE ProbeFails
  <2>1. retry' \in Nat /\ nextProbeAt' \in Nat /\ inFlight' = FALSE
    BY <1>2, TimeoutIsNat DEF ProbeFails, RetryAt, TypeOK
  <2>2. Intermittent(retry') \in Statuses /\ Failed \in Statuses
    BY <2>1 DEF Intermittent, Statuses
  <2>3. events' \in Seq(Statuses)
    BY <1>2, <2>2, SendType DEF ProbeFails
  <2>4. UNCHANGED <<now, phase, lastReplyAt, lastSentAt, cancelled, exited, lastStatus, hasSentUp, hasFailed, left>>
    BY <1>2, Zenon DEF ProbeFails, consumer
  <2> QED BY <2>1, <2>3, <2>4 DEF TypeOK
<1>3. CASE SendProbe
  BY <1>3 DEF SendProbe, consumer, TypeOK
<1>4. CASE Exit
  BY <1>4 DEF Exit, task, consumer, TypeOK
<1>5. CASE ReadEvent
  <2>1. Status \in Statuses /\ events' \in Seq(Statuses)
    BY <1>5 DEF ReadEvent, Status, TypeOK
  <2>2. hasSentUp' \in BOOLEAN /\ hasFailed' \in BOOLEAN /\ left' \in BOOLEAN
        /\ cancelled' \in BOOLEAN
    BY <1>5, Zenon DEF ReadEvent, IsNew, TypeOK
  <2>3. UNCHANGED <<now, phase, retry, lastReplyAt, lastSentAt, nextProbeAt, inFlight, exited>>
        /\ lastStatus' = Status
    BY <1>5, Zenon DEF ReadEvent, task
  <2> QED BY <2>1, <2>2, <2>3 DEF TypeOK
<1>6. CASE LeaveLoop
  BY <1>6 DEF LeaveLoop, task, TypeOK
<1>7. CASE Tick
  BY <1>7 DEF Tick, task, consumer, TypeOK
<1>8. CASE UNCHANGED vars
  BY <1>8 DEF vars, task, consumer, TypeOK
<1> QED
  BY <1>1, <1>2, <1>3, <1>4, <1>5, <1>6, <1>7, <1>8 DEF Next

LEMMA TimingStep == IInv /\ [Next]_vars => IInv'
<1> SUFFICES ASSUME IInv, [Next]_vars PROVE IInv'
  OBVIOUS
<1>1. TypeOK /\ TypeOK'
  BY TypeStep DEF IInv
<1> DEFINE P == retry * Timeout
           Q == retry * (Timeout + Lateness)
<1>2. Timeout \in Nat /\ Base \in Nat /\ retry \in Nat /\ Lateness \in Nat
      /\ P \in Nat /\ Q \in Nat /\ now \in Nat /\ lastSentAt \in Nat
  <2>1. Timeout \in Nat /\ Base \in Nat /\ retry \in Nat /\ Lateness \in Nat
        /\ now \in Nat /\ lastSentAt \in Nat
    BY <1>1, TimeoutIsNat, TimingAssumption DEF TypeOK
  <2>2. Timeout + Lateness \in Nat
    BY <2>1
  <2> QED BY <2>1, <2>2, OneMore
<1>3. Timeout' \in Nat
  BY <1>1, TimingAssumption DEF TypeOK, Timeout
<1>4. CASE ProbeSucceeds
  <2>1. Base' = nextProbeAt' /\ now' = now /\ lastSentAt' = lastSentAt /\ retry' = 0
        /\ ~inFlight' /\ nextProbeAt' \in Nat /\ now <= nextProbeAt' /\ phase' = "Monitoring"
    BY <1>1, <1>4, TimingAssumption DEF ProbeSucceeds, Base, TypeOK
  <2>2. retry' * Timeout' = 0 /\ retry' * (Timeout' + Lateness) = 0
    <3>1. Timeout' = MonitoringTimeout
      BY <2>1 DEF Timeout
    <3>2. MonitoringTimeout \in Nat /\ MonitoringTimeout + Lateness \in Nat
      BY TimingAssumption
    <3> QED BY <2>1, <3>1, <3>2, OneMore
  <2> QED
    <3>1. lastSentAt \in Nat /\ now \in Nat /\ lastSentAt <= now /\ Lateness \in Nat
      BY <1>2 DEF IInv
    <3>2. InitialPhase'
      BY <2>1, TimingAssumption DEF InitialPhase
    <3>3. TimerSet'
      BY <2>1 DEF TimerSet
    <3>4. Earliest'
      BY <2>1, <2>2 DEF Earliest
    <3>5. Latest'
      <4>1. nextProbeAt' <= nextProbeAt' + 0 /\ now <= nextProbeAt' + Lateness
        <5>1. nextProbeAt' \in Nat /\ now <= nextProbeAt'
          BY <2>1, Zenon
        <5>2. ASSUME NEW a \in Nat, NEW b \in Nat, NEW c \in Nat, a <= b
              PROVE  b <= b + 0 /\ a <= b + c
          BY <5>2
        <5> QED BY <3>1, <5>1, <5>2
      <4>2. nextProbeAt' <= Base' + retry' * (Timeout' + Lateness)
        BY <2>1, <2>2, <4>1, Zenon
      <4> QED BY <2>1, <4>1, <4>2, Zenon DEF Latest
    <3> QED BY <1>1, <2>1, <3>1, <3>2, <3>3, <3>4, <3>5 DEF IInv
<1>5. CASE ProbeFails
  <2>1. Base' = Base /\ Timeout' = Timeout /\ now' = now /\ lastSentAt' = lastSentAt
        /\ retry' = retry + 1 /\ phase' = phase /\ lastReplyAt' = lastReplyAt
        /\ inFlight /\ ~inFlight' /\ nextProbeAt' = lastSentAt + Timeout
    BY <1>1, <1>5 DEF ProbeFails, RetryAt, Base, Timeout, TypeOK
  <2>2. retry' * Timeout' = P + Timeout
        /\ retry' * (Timeout' + Lateness) = Q + (Timeout + Lateness)
    BY <1>2, <2>1, OneMore
  <2>3. lastSentAt >= Base + P /\ lastSentAt <= Base + Lateness + Q
        /\ now <= lastSentAt + Timeout + Lateness /\ lastSentAt <= now
    BY <2>1 DEF IInv, Earliest, Latest
  <2> HIDE DEF P, Q
  <2> QED
    BY <1>1, <1>2, <2>1, <2>2, <2>3, TimingAssumption
    DEF IInv, InitialPhase, TimerSet, Earliest, Latest
<1>6. CASE SendProbe
  <2>1. Base' = Base /\ Timeout' = Timeout /\ now' = now /\ lastSentAt' = now
        /\ retry' = retry /\ phase' = phase /\ lastReplyAt' = lastReplyAt
        /\ inFlight' /\ nextProbeAt' = NoTimer /\ nextProbeAt # NoTimer
        /\ nextProbeAt \in Nat /\ nextProbeAt <= now
    BY <1>1, <1>6 DEF SendProbe, Due, Base, Timeout, TypeOK
  <2>2. ~inFlight /\ nextProbeAt >= Base + P /\ nextProbeAt <= Base + Q
        /\ now <= nextProbeAt + Lateness
    BY <1>1, <2>1 DEF IInv, Earliest, Latest, TypeOK
  <2>3. retry' * Timeout' = P /\ retry' * (Timeout' + Lateness) = Q
    BY <2>1
  <2> HIDE DEF P, Q
  <2> QED
    BY <1>1, <1>2, <2>1, <2>2, <2>3
    DEF IInv, InitialPhase, TimerSet, Earliest, Latest
<1>7. CASE Tick
  <2>1. Base' = Base /\ Timeout' = Timeout /\ now' = now + 1 /\ UNCHANGED task
    BY <1>1, <1>7 DEF Tick, task, Base, Timeout
  <2>2. retry' * Timeout' = P /\ retry' * (Timeout' + Lateness) = Q
    BY <2>1 DEF task
  <2>3. /\ inFlight => now + 1 <= lastSentAt + Timeout + Lateness
        /\ ~inFlight => nextProbeAt \in Nat /\ now + 1 <= nextProbeAt + Lateness
    BY <1>1, <1>2, <1>7, TimingAssumption DEF Tick, TypeOK
  <2> HIDE DEF P, Q
  <2> QED
    BY <1>1, <1>2, <2>1, <2>2, <2>3
    DEF IInv, InitialPhase, TimerSet, Earliest, Latest, task, P, Q
<1>8. CASE UNCHANGED <<now, task>>
  BY <1>1, <1>8
  DEF IInv, InitialPhase, TimerSet, Earliest, Latest, task, Base, Timeout
<1>9. CASE Exit \/ ReadEvent \/ LeaveLoop \/ UNCHANGED vars
  BY <1>8, <1>9 DEF Exit, ReadEvent, LeaveLoop, vars, task
<1> QED
  BY <1>4, <1>5, <1>6, <1>7, <1>9 DEF Next

-----------------------------------------------------------------------------
(* The inductive invariant: the watch is kept, and the last probe was sent  *)
(* within the window its retry count determines.                            *)
THEOREM TimingHolds == Spec => []IInv
<1>1. Init => IInv
  <2> SUFFICES ASSUME Init PROVE IInv
    OBVIOUS
  <2>1. TypeOK
    <3>1. <<>> \in Seq(Statuses)
      OBVIOUS
    <3>2. lastStatus \in Statuses \union {[kind |-> "None"]}
      BY DEF Init
    <3> QED BY <3>1, <3>2 DEF Init, TypeOK
  <2>2. Timeout \in Nat /\ Base = 0 /\ 0 * Timeout = 0 /\ 0 * (Timeout + Lateness) = 0
    BY <2>1, TimeoutIsNat, OneMore, TimingAssumption DEF Init, Base
  <2> QED
    BY <2>1, <2>2, TimingAssumption
    DEF Init, IInv, InitialPhase, TimerSet, Earliest, Latest
<1> QED BY <1>1, TimingStep, PTL DEF Spec

(* Every variable keeps its type, and the watch is kept: a probe is under   *)
(* way or the timer is set for the next, never both.                        *)
THEOREM MonitorTypeCorrect == Spec => []TypeOK
<1>1. IInv => TypeOK
  BY DEF IInv
<1> QED BY <1>1, TimingHolds, PTL

(* A dead connection is found within its budget, for every timing.          *)
THEOREM DeadConnectionIsDetected == Spec => []DeadIsDetected
<1>1. IInv => DeadIsDetected
  <2> SUFFICES ASSUME IInv, retry <= MaxRetryCount
               PROVE  now <= Base + Lateness + (MaxRetryCount + 1) * (Timeout + Lateness)
    BY DEF DeadIsDetected
  <2> DEFINE K == Timeout + Lateness
             Q == retry * K
             R == MaxRetryCount * K
  <2>1. Timeout \in Nat /\ Base \in Nat /\ MaxRetryCount \in Nat /\ retry \in Nat
        /\ Lateness \in Nat /\ now \in Nat /\ lastSentAt \in Nat /\ K \in Nat
    BY TimeoutIsNat, TimingAssumption DEF IInv, TypeOK
  <2>2. Q <= R /\ Q \in Nat /\ R \in Nat
    BY <2>1, Monotone, OneMore
  <2>3. (MaxRetryCount + 1) * K = R + K
    BY <2>1, OneMore
  <2>4. IF inFlight THEN lastSentAt <= Base + Lateness + Q /\ now <= lastSentAt + K
        ELSE nextProbeAt \in Nat /\ nextProbeAt <= Base + Q /\ now <= nextProbeAt + Lateness
    BY <2>1 DEF IInv, Latest, TypeOK
  <2> HIDE DEF Q, R
  <2>5. now <= Base + Lateness + R + K
    BY <2>1, <2>2, <2>4
  <2> QED BY <2>1, <2>2, <2>3, <2>5
<1> QED BY <1>1, TimingHolds, PTL

(* A failure is only reported after its whole budget, for every timing.     *)
THEOREM FailureIsEarned == Spec => FailedIsEarned
<1>1. IInv /\ [Next]_vars =>
        [events' = Append(events, Failed) => now >= Base + MaxRetryCount * Timeout]_vars
  <2> SUFFICES ASSUME IInv, Next, events' = Append(events, Failed)
               PROVE  now >= Base + MaxRetryCount * Timeout
    OBVIOUS
  <2>1. events \in Seq(Statuses) /\ Failed # Viable /\ Viable \in Statuses
        /\ Failed \in Statuses /\ retry \in Nat /\ Timeout \in Nat /\ MaxRetryCount \in Nat
        /\ Base \in Nat
    BY TimeoutIsNat DEF IInv, TypeOK, Failed, Viable, Statuses
  <2>2. Len(events') = Len(events) + 1 /\ events'[Len(events')] = Failed
    <3> HIDE DEF Statuses, Failed
    <3> QED BY <2>1
  <2>3. CASE ProbeFails
    <3>1. retry + 1 > MaxRetryCount
      <4>1. Intermittent(retry') # Failed
        BY DEF Intermittent, Failed
      <4>2. retry' = retry + 1 /\ (events' = events \/ events' = Append(events, Intermittent(retry'))
                                    \/ retry' > MaxRetryCount)
        BY <2>3 DEF ProbeFails, Send
      <4>3. Intermittent(retry') \in Statuses
        BY <2>1, <4>2 DEF Intermittent, Statuses
      <4> HIDE DEF Statuses, Failed, Intermittent
      <4>4. events' # events
        BY <2>1, <2>2
      <4>5. events' # Append(events, Intermittent(retry'))
        BY <2>1, <2>2, <4>1, <4>3
      <4> QED BY <4>2, <4>4, <4>5
    <3>2. lastSentAt >= Base + retry * Timeout /\ lastSentAt <= now
      BY <2>3 DEF ProbeFails, IInv, Earliest
    <3> DEFINE P == retry * Timeout
               R == MaxRetryCount * Timeout
    <3>3. P \in Nat /\ R \in Nat /\ R <= P
      <4>1. MaxRetryCount <= retry
        BY <2>1, <3>1
      <4> QED BY <2>1, <4>1, Monotone, OneMore
    <3>4. lastSentAt \in Nat /\ now \in Nat
      BY DEF IInv, TypeOK
    <3> HIDE DEF P, R
    <3>5. lastSentAt >= Base + P
      BY <3>2 DEF P
    <3>6. now >= Base + R
      BY <2>1, <3>2, <3>3, <3>4, <3>5
    <3> QED BY <3>6 DEF R
  <2>4. CASE ProbeSucceeds
    <3>1. events' = events \/ events' = Append(events, Viable)
      BY <2>4 DEF ProbeSucceeds, Send
    <3> HIDE DEF Statuses, Failed, Viable
    <3> QED BY <2>1, <2>2, <3>1
  <2>5. CASE ReadEvent
    <3>1. Len(events') <= Len(events)
      BY <2>1, <2>5 DEF ReadEvent
    <3> QED BY <2>1, <2>2, <3>1
  <2>6. CASE SendProbe \/ Exit \/ LeaveLoop \/ Tick
    <3>1. events' = events
      BY <2>6, Zenon DEF SendProbe, Exit, LeaveLoop, Tick
    <3> QED BY <2>1, <2>2, <3>1
  <2> QED BY <2>3, <2>4, <2>5, <2>6 DEF Next
<1> QED BY <1>1, TimingHolds, PTL DEF Spec, FailedIsEarned

(* Probes are paced, for every timing.                                      *)
THEOREM ProbesPaced == Spec => ProbesArePaced
<1>1. IInv /\ [Next]_vars =>
        [inFlight' /\ ~inFlight =>
           /\ retry > 0 => lastSentAt' >= lastSentAt + Timeout
           /\ retry = 0 => lastSentAt' >= lastReplyAt + Periodicity]_vars
  <2> SUFFICES ASSUME IInv, Next, inFlight', ~inFlight
               PROVE  /\ retry > 0 => lastSentAt' >= lastSentAt + Timeout
                      /\ retry = 0 => lastSentAt' >= lastReplyAt + Periodicity
    OBVIOUS
  <2>1. SendProbe
    BY Zenon DEF Next, ProbeSucceeds, ProbeFails, SendProbe, Exit, ReadEvent, LeaveLoop, Tick, task
  <2>2. lastSentAt' = now /\ now >= nextProbeAt
    BY <2>1 DEF SendProbe, Due
  <2>3. nextProbeAt = IF retry = 0 THEN Base ELSE lastSentAt + Timeout
    BY DEF IInv, TimerSet
  <2>4. phase = "Monitoring" \/ retry # 0
    BY DEF IInv, InitialPhase, TypeOK
  <2>5. TypeOK
    BY DEF IInv
  <2> QED BY <2>2, <2>3, <2>4, <2>5, TimeoutIsNat, TimingAssumption DEF Base, TypeOK
<1> QED BY <1>1, TimingHolds, PTL DEF Spec, ProbesArePaced
=============================================================================
