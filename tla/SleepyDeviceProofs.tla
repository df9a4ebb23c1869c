-------------------------- MODULE SleepyDeviceProofs --------------------------
(***************************************************************************)
(* Safety of the sleepy device (SleepyDevice), for any clients and bounds,  *)
(* and what its keep-alive arithmetic (IcdTimeouts) guarantees for every    *)
(* polling period.                                                          *)
(***************************************************************************)
EXTENDS SleepyDevice, TLAPS

-----------------------------------------------------------------------------
(* Arithmetic.                                                             *)

\* The child time-out leaves the margin on top of any polling period and is
\* never below OpenThread's default (wireless/thread.rs:382-387).
THEOREM ChildTimeoutCovers ==
    ASSUME NEW p \in Nat
    PROVE  /\ 1000 * child_timeout_s(p) >= p + 1000 * CHILD_TIMEOUT_MARGIN_S
           /\ child_timeout_s(p) >= CHILD_TIMEOUT_DEFAULT_S
BY SMT DEF child_timeout_s, AtLeast, Seconds, CHILD_TIMEOUT_MARGIN_S,
       CHILD_TIMEOUT_DEFAULT_S

\* "two missed polls plus some slack" (wireless/thread.rs:306-307) is what the
\* margin gives up to a period of 80 s, and not beyond.
THEOREM MissedPolls ==
    ASSUME NEW p \in Nat
    PROVE  /\ p <= 80000 => 1000 * child_timeout_s(p) >= 3 * p
           /\ p > 120000 => 1000 * child_timeout_s(p) < 3 * p
BY SMT DEF child_timeout_s, AtLeast, Seconds, CHILD_TIMEOUT_MARGIN_S,
       CHILD_TIMEOUT_DEFAULT_S

\* The supervision check time-out fits its 16 bits, is never below the default,
\* and bridges the longest normal gap of every period up to LongestPollMs
\* (wireless/thread.rs:398-410); from there on the clamp makes it too short.
THEOREM SupervisionCovers ==
    ASSUME NEW p \in Nat
    PROVE  /\ child_supervision_check_timeout_s(p) \in Nat
           /\ child_supervision_check_timeout_s(p)
                 >= CHILD_SUPERVISION_CHECK_TIMEOUT_DEFAULT_S
           /\ child_supervision_check_timeout_s(p) <= U16Max
           /\ 0 < p /\ p < LongestPollMs
                 => 1000 * child_supervision_check_timeout_s(p) > SupervisionGapMs(p)
           /\ p >= LongestPollMs
                 => 1000 * child_supervision_check_timeout_s(p) <= SupervisionGapMs(p)
<1>1. PICK s \in Nat : s = Seconds(p) /\ p <= 1000 * s /\ 1000 * s <= p + 999
  BY SMT DEF Seconds
<1>2. child_supervision_check_timeout_s(p)
         = IF 129 + 2 * s < 190 THEN 190
           ELSE IF 129 + 2 * s < 65535 THEN 129 + 2 * s ELSE 65535
  BY <1>1, SMT DEF child_supervision_check_timeout_s, AtMost, AtLeast, U16Max,
     CHILD_SUPERVISION_INTERVAL_S, CHILD_SUPERVISION_CHECK_TIMEOUT_DEFAULT_S
<1>3. PICK check : check = child_supervision_check_timeout_s(p)
  OBVIOUS
<1>4. /\ check \in Nat /\ check >= 190 /\ check <= 65535
      /\ 0 < p /\ p < 65406000 => 1000 * check > 129000 + p
      /\ p >= 65406000 => 1000 * check <= 129000 + p
  BY <1>1, <1>2, <1>3, SMT
<1>5. /\ SupervisionGapMs(p) = 129000 + p /\ LongestPollMs = 65406000
      /\ CHILD_SUPERVISION_CHECK_TIMEOUT_DEFAULT_S = 190 /\ U16Max = 65535
  BY SMT DEF SupervisionGapMs, LongestPollMs, U16Max,
     CHILD_SUPERVISION_INTERVAL_S, CHILD_SUPERVISION_CHECK_TIMEOUT_DEFAULT_S
<1> QED
  BY <1>3, <1>4, <1>5, SMT

\* Consecutive reports differ, also where the wake-up counter wraps (2^32 % 40 = 16), and stay
\* between the least and the greatest value the cluster announces.
THEOREM ReadingsDiffer ==
    ASSUME NEW Wrap \in Nat, Wrap % (2 * STEPS) = 16, NEW n \in 0..(Wrap - 1)
    PROVE  /\ simulated_reading(n) # simulated_reading((n + 1) % Wrap)
           /\ -4000 <= simulated_reading(n) /\ simulated_reading(n) <= 8500
BY SMT DEF simulated_reading, STEPS

-----------------------------------------------------------------------------
(* The inductive invariant.                                                *)

\* Only a running ICD is idle.
IdleRuns == power = "Idle" => ready

\* What has been looked at still holds where the loop relies on it: as long as
\* the device is idle, what it settles for is done or owed by a task that was
\* woken before.
LoopInv ==
    /\ device = "awake" /\ pc = "settle" /\ power = "Idle"
          => /\ registered # {}
             /\ "flush" \in owed \/ stored = registered
             /\ "run_icd" \in owed \/ (applied # Nothing /\ ~netSignal)
    /\ device = "asleep" => /\ power = "Idle" /\ registered # {}
                            /\ stored = registered
                            /\ applied # Nothing /\ ~netSignal

\* OpenThread has what was applied, which is what is in force unless the
\* ICD has signalled a change.
ParentInv ==
    /\ applied # Nothing => ot = Keepalive(applied)
    /\ device \in {"awake", "asleep"} /\ applied # Nothing /\ ~netSignal
          => applied = net_params

\* Whoever claims to know the time has a reason.
ClockInv ==
    /\ slept.known => sysRight /\ lastSet # 0
    /\ rtc = "restored" => sysRight /\ lastSet # 0
    /\ rtc = "set" => lastSet # 0

IInv == TypeOK /\ IdleRuns /\ LoopInv /\ ParentInv /\ ClockInv

-----------------------------------------------------------------------------
(* Facts about the parameters.                                             *)

LEMMA Periods == SII = 300000 /\ SII \in Nat /\ SAI = 300 /\ ICD_SIT_SLOW_POLL_MS = 5000
BY SMT DEF SII, SAI, SLEEP_SECS, ICD_SIT_SLOW_POLL_MS

LEMMA ParamsInForce ==
    /\ net_params.poll \in Nat /\ net_params.poll > 0 /\ net_params.poll <= SII
    /\ net_params.max \in Nat /\ net_params.max = IF ready THEN SII ELSE SAI
BY Periods, SMT DEF net_params

LEMMA ParamsAreSomething == TypeOK => net_params # Nothing
<1> SUFFICES ASSUME TypeOK PROVE net_params \in Params
  BY SleepyAssumption
<1>1. power \in {"Active", "Idle"}
  BY DEF TypeOK
<1>2. operating_mode \in {"SIT", "LIT"}
  BY DEF operating_mode
<1> QED
  BY <1>1, <1>2, ParamsInForce DEF Params, net_params

LEMMA ParamsInForceNext ==
    /\ net_params'.poll \in Nat /\ net_params'.poll > 0 /\ net_params'.poll <= SII
    /\ net_params'.max \in Nat
BY Periods, SMT DEF net_params

LEMMA KeepaliveTypes ==
    ASSUME NEW params, params.poll \in Nat, params.max \in Nat
    PROVE  /\ Keepalive(params).poll = params.poll
           /\ Keepalive(params).check = child_supervision_check_timeout_s(params.poll)
           /\ Keepalive(params).child = child_timeout_s(params.max)
           /\ Keepalive(params).check \in 0..U16Max
           /\ Keepalive(params).child \in Nat
<1>1. child_supervision_check_timeout_s(params.poll) \in 0..U16Max
  <2>1. U16Max \in Nat
    BY SMT DEF U16Max
  <2> QED
    BY <2>1, SupervisionCovers, SMT
<1>2. child_timeout_s(params.max) \in Nat
  BY SMT DEF child_timeout_s, AtLeast, Seconds, CHILD_TIMEOUT_MARGIN_S,
         CHILD_TIMEOUT_DEFAULT_S
<1> QED
  BY <1>1, <1>2 DEF Keepalive

LEMMA SleepFits ==
    ASSUME NEW idle_ms \in IdleMs
    PROVE  SleepFor(idle_ms) \in 1000..SII
<1>1. PICK p \in Nat : p = net_params.poll /\ p <= SII
  BY ParamsInForce
<1>2. idle_ms \in Nat /\ idle_ms <= SII /\ 1000 <= SII /\ SII \in Nat
  BY Periods, SMT DEF IdleMs
<1>3. /\ SleepFor(idle_ms) \in Nat
      /\ 1000 <= SleepFor(idle_ms) /\ SleepFor(idle_ms) <= SII
  BY <1>1, <1>2, SMT DEF SleepFor, AtLeast, AtMost
<1> QED
  BY <1>2, <1>3, SMT

-----------------------------------------------------------------------------
(* It holds at first and is kept by every step.                            *)

LEMMA InitInv == Init => IInv
<1> SUFFICES ASSUME Init PROVE IInv
  OBVIOUS
<1>1. ot.check \in 0..U16Max /\ ot.child \in Nat
  <2>1. ot = Keepalive(net_params)
    BY DEF Init
  <2> QED
    BY <2>1, ParamsInForce, KeepaliveTypes
<1>2. TypeOK
  <2>1. /\ 0 \in 0..SII /\ 1 \in 1..MaxNow /\ 0 \in 0..MaxNow /\ 0 \in 0..1
    <3>1. SII \in Nat
      BY Periods
    <3> QED
      BY <3>1, SleepyAssumption, SMT
  <2> QED
    BY <1>1, <2>1 DEF Init, TypeOK, Unknown
<1> QED
  BY <1>2, SMT DEF Init, IInv, IdleRuns, LoopInv, ParentInv, ClockInv, Unknown

LEMMA IdleStep == IdleRuns /\ [Next]_vars => IdleRuns'
BY SMT DEF IdleRuns, Next, vars, icdVars, Wake, ColdBoot, BootFails, PowerLoss,
   FactoryReset, Booted, Ends, IcdRuns, GoIdle, GoActive, Message, Persist, Tick,
   IcdStep, IcdFrame, run_icd, ClockKeeperRuns, WaitIdle, WaitActive, Messaged,
   LoopTo, LoopFrame, deep_sleep, DeepSleepFails

LEMMA LoopStep == TypeOK /\ IdleRuns /\ LoopInv /\ [Next]_vars => LoopInv'
<1> SUFFICES ASSUME TypeOK, IdleRuns, LoopInv, [Next]_vars PROVE LoopInv'
  OBVIOUS
<1> USE DEF LoopInv
<1>1. CASE Wake \/ ColdBoot
  BY <1>1, SMT DEF Wake, ColdBoot, Booted
<1>2. CASE BootFails \/ PowerLoss \/ FactoryReset \/ DeepSleepFails
  BY <1>2, SMT DEF BootFails, PowerLoss, FactoryReset, DeepSleepFails, Ends
<1>3. CASE IcdRuns \/ GoIdle \/ GoActive \/ Message
  BY <1>3, SMT DEF IcdRuns, GoIdle, GoActive, Message, IcdStep, IcdFrame, IdleRuns
<1>4. CASE Persist
  BY <1>4, SMT DEF Persist, IcdFrame, icdVars
<1>5. CASE Tick
  BY <1>5, SMT DEF Tick, icdVars
<1>6. CASE run_icd
  <2>1. CASE Ends
    BY <2>1, SMT DEF Ends
  <2>2. CASE ~Ends
    <3>1. /\ UNCHANGED <<device, pc, power, registered, stored>>
          /\ device = "awake" /\ netSignal' = FALSE /\ owed' = owed \ {"run_icd"}
      BY <1>6, <2>2 DEF run_icd
    <3>2. applied' # Nothing
      <4>1. applied' = net_params \/ (applied' = applied /\ applied # Nothing)
        BY <1>6, <2>2 DEF run_icd, Changed
      <4>2. CASE applied' = net_params
        BY <4>2, ParamsAreSomething
      <4> QED
        BY <4>1, <4>2
    <3> QED
      BY <3>1, <3>2
  <2> QED
    BY <2>1, <2>2
<1>7. CASE ClockKeeperRuns
  BY <1>7, SMT DEF ClockKeeperRuns, icdVars
<1>8. CASE WaitIdle
  BY <1>8, SMT DEF WaitIdle, Woken, MaySleep, operating_mode, LoopTo, LoopFrame,
     icdVars
<1>9. CASE WaitActive \/ Messaged
  BY <1>9, SMT DEF WaitActive, Messaged, LoopTo, LoopFrame, icdVars
<1>10. CASE deep_sleep
  BY <1>10, SMT DEF deep_sleep, Settled, StillIdle, LoopFrame, icdVars
<1>11. CASE UNCHANGED vars
  BY <1>11, SMT DEF vars, icdVars
<1> QED
  BY <1>1, <1>2, <1>3, <1>4, <1>5, <1>6, <1>7, <1>8, <1>9, <1>10, <1>11 DEF Next

LEMMA ParamsUnchanged ==
    ASSUME power' = power, ready' = ready, registered' = registered
    PROVE  net_params' = net_params
BY DEF net_params, operating_mode

LEMMA ParentStep == ParentInv /\ [Next]_vars => ParentInv'
<1> SUFFICES ASSUME ParentInv, [Next]_vars PROVE ParentInv'
  OBVIOUS
<1> USE DEF ParentInv
<1>1. CASE Wake \/ ColdBoot
  BY <1>1 DEF Wake, ColdBoot, Booted
<1>2. CASE BootFails \/ PowerLoss \/ FactoryReset \/ DeepSleepFails
  BY <1>2, SMT DEF BootFails, PowerLoss, FactoryReset, DeepSleepFails, Ends, Keepalive
<1>3. CASE IcdRuns \/ GoIdle \/ GoActive \/ Message
  BY <1>3, SMT DEF IcdRuns, GoIdle, GoActive, Message, IcdStep, IcdFrame, Keepalive
<1>4. CASE Persist \/ Tick \/ ClockKeeperRuns \/ WaitIdle \/ WaitActive \/ Messaged
           \/ deep_sleep \/ UNCHANGED vars
  <2>1. /\ UNCHANGED <<power, ready, registered, netSignal, applied, ot>>
        /\ device' = device \/ device = "awake"
    BY <1>4, SMT DEF Persist, Tick, ClockKeeperRuns, WaitIdle, WaitActive, Messaged,
       deep_sleep, vars, icdVars, IcdFrame, LoopTo, LoopFrame
  <2>2. net_params' = net_params
    BY <2>1, ParamsUnchanged
  <2> QED
    BY <2>1, <2>2 DEF Keepalive
<1>5. CASE run_icd
  <2>1. CASE Ends
    BY <2>1, SMT DEF Ends, Keepalive
  <2>2. CASE ~Ends
    <3>1. UNCHANGED <<power, ready, registered, device>>
      BY <1>5, <2>2 DEF run_icd
    <3>2. net_params' = net_params
      BY <3>1, ParamsUnchanged
    <3>3. \/ ot' = Keepalive(net_params) /\ applied' = net_params
          \/ applied = net_params /\ UNCHANGED <<applied, ot>> /\ applied # Nothing
      BY <1>5, <2>2 DEF run_icd, Changed
    <3> QED
      BY <3>2, <3>3 DEF Keepalive
  <2> QED
    BY <2>1, <2>2
<1> QED
  BY <1>1, <1>2, <1>3, <1>4, <1>5 DEF Next

LEMMA ClockStep == TypeOK /\ ClockInv /\ [Next]_vars => ClockInv'
<1> SUFFICES ASSUME TypeOK, ClockInv, [Next]_vars PROVE ClockInv'
  OBVIOUS
<1> USE DEF ClockInv
<1>1. CASE Wake \/ ColdBoot
  BY <1>1, SMT DEF Wake, ColdBoot, Booted, Unknown
<1>2. CASE BootFails \/ PowerLoss \/ FactoryReset \/ DeepSleepFails
  BY <1>2, SMT DEF BootFails, PowerLoss, FactoryReset, DeepSleepFails, Ends, clockVars
<1>3. now # 0
  BY SMT DEF TypeOK
<1>4. CASE IcdRuns \/ GoIdle \/ GoActive \/ Message
  BY <1>3, <1>4, SMT DEF IcdRuns, GoIdle, GoActive, Message, IcdStep, clockVars
<1>5. CASE Persist \/ Tick \/ run_icd
  BY <1>5, SMT DEF Persist, Tick, run_icd, Ends, clockVars
<1>6. CASE ClockKeeperRuns
  BY <1>3, <1>6, SMT DEF ClockKeeperRuns
<1>7. CASE WaitIdle \/ WaitActive \/ Messaged
  BY <1>7, SMT DEF WaitIdle, WaitActive, Messaged, LoopTo, LoopFrame
<1>8. CASE deep_sleep
  <2>1. UNCHANGED <<rtc, lastSet>> /\ save_clock
    BY <1>8 DEF deep_sleep, LoopFrame
  <2>2. rtc # "none" => lastSet # 0
    BY DEF TypeOK
  <2> QED
    BY <2>1, <2>2, SMT DEF save_clock, SleptClock, AfterFailure, Unknown
<1>9. CASE UNCHANGED vars
  BY <1>9, SMT DEF vars, clockVars
<1> QED
  BY <1>1, <1>2, <1>4, <1>5, <1>6, <1>7, <1>8, <1>9 DEF Next

LEMMA TypeStep == TypeOK /\ LoopInv /\ [Next]_vars => TypeOK'
<1> SUFFICES ASSUME TypeOK, LoopInv, [Next]_vars PROVE TypeOK'
  OBVIOUS
<1>0. SII \in Nat /\ 0 \in 0..SII /\ 0 \in 0..MaxNow
  <2>1. SII \in Nat
    BY Periods
  <2> QED
    BY <2>1, SleepyAssumption, SMT
<1> USE DEF TypeOK
<1>1. CASE Wake \/ ColdBoot
  <2>1. ot'.check \in 0..U16Max /\ ot'.child \in Nat
    <3>1. ot' = Keepalive(net_params')
      BY <1>1 DEF Wake, ColdBoot, Booted, Keepalive
    <3> QED
      BY <3>1, ParamsInForceNext, KeepaliveTypes
  <2>2. /\ UNCHANGED <<stored, lastSet, now>>
        /\ device' = "awake" /\ pc' = "waitIdle" /\ sleepMs' = 0
        /\ power' = "Active" /\ ready' = FALSE /\ netSignal' = FALSE
        /\ registered' = stored /\ applied' = Nothing /\ keeper' = "due?"
        /\ owed' = {}
    BY <1>1 DEF Wake, ColdBoot, Booted
  <2>3. /\ rtc' \in {"none", "restored"} /\ sysRight' \in BOOLEAN
        /\ slept' = slept \/ slept' = [known |-> FALSE, set_utc |-> 0]
    BY <1>1 DEF Wake, ColdBoot, Unknown
  <2>4. {ready', netSignal', sysRight'} \subseteq BOOLEAN
    <3>1. sysRight' \in BOOLEAN
      BY <2>3
    <3>2. ready' = FALSE /\ netSignal' = FALSE
      BY <2>2
    <3> QED
      BY <3>1, <3>2, Zenon
  <2>5. slept' \in [known : BOOLEAN, set_utc : 0..MaxNow]
    <3>1. [known |-> FALSE, set_utc |-> 0] \in [known : BOOLEAN, set_utc : 0..MaxNow]
      BY <1>0
    <3> QED
      BY <2>3, <3>1
  <2>6. sleepMs' \in IF device' = "asleep" THEN 1000..SII ELSE 0..SII
    BY <1>0, <2>2
  <2>7. lastSet' \in 0..now' /\ now' \in 1..MaxNow
    BY <2>2
  <2>8. /\ device' \in {"awake", "asleep", "off", "ended"}
        /\ pc' \in {"waitIdle", "waitActive", "settle"} /\ power' \in {"Active", "Idle"}
        /\ registered' \subseteq Clients /\ stored' \subseteq Clients
        /\ keeper' \in {"due?", "done"} /\ rtc' \in {"none", "restored", "set"}
        /\ applied' = Nothing /\ owed' \subseteq {"run_icd", "flush"}
    BY <2>2, <2>3
  <2> QED
    BY <2>1, <2>4, <2>5, <2>6, <2>7, <2>8, Zenon
<1>2. CASE BootFails \/ PowerLoss \/ FactoryReset \/ DeepSleepFails
  <2>1. UNCHANGED <<pc, sleepMs, owed, applied, ot, clockVars, now>> /\ sleepMs \in 0..SII
    BY <1>2, SMT DEF BootFails, PowerLoss, FactoryReset, DeepSleepFails, Ends
  <2>2. /\ device' \in {"off", "ended"}
        /\ UNCHANGED <<power, ready, netSignal>>
        /\ registered' \subseteq Clients /\ stored' \subseteq Clients
    BY <1>2 DEF BootFails, PowerLoss, FactoryReset, DeepSleepFails, Ends, icdVars
  <2> QED
    BY <2>1, <2>2 DEF clockVars
<1>3. CASE IcdRuns \/ GoIdle \/ GoActive
  <2>1. /\ UNCHANGED <<device, pc, sleepMs, owed, registered, stored, applied, ot,
                       keeper, rtc, slept, sysRight, lastSet, now>>
        /\ power' \in {"Active", "Idle"} /\ ready' \in BOOLEAN /\ netSignal' = TRUE
    BY <1>3 DEF IcdRuns, GoIdle, GoActive, IcdStep, IcdFrame, clockVars
  <2> QED
    BY <2>1
<1>4. CASE Message
  BY <1>4, SMT DEF Message, IcdFrame, clockVars
<1>5. CASE Persist
  BY <1>5, SMT DEF Persist, IcdFrame, icdVars, clockVars
<1>6. CASE Tick
  BY <1>6, SleepyAssumption, SMT DEF Tick, icdVars, clockVars
<1>7. CASE run_icd
  <2>1. CASE Ends
    BY <2>1, SMT DEF Ends, icdVars, clockVars
  <2>2. CASE ~Ends
    <3>1. /\ UNCHANGED <<device, pc, sleepMs, power, ready, registered, stored,
                         clockVars, now>>
          /\ netSignal' = FALSE /\ owed' = owed \ {"run_icd"}
      BY <1>7, <2>2 DEF run_icd
    <3>2. \/ ot' = Keepalive(net_params) /\ applied' = net_params
          \/ UNCHANGED <<applied, ot>>
      BY <1>7, <2>2 DEF run_icd
    <3>3. /\ applied' = Nothing \/ applied'.poll = ot'.poll
          /\ ot'.check \in 0..U16Max /\ ot'.child \in Nat
      BY <3>2, ParamsInForce, KeepaliveTypes
    <3>4. UNCHANGED <<keeper, rtc, slept, sysRight, lastSet>>
      BY <3>1 DEF clockVars
    <3>5. {ready', netSignal', sysRight'} \subseteq BOOLEAN
      BY <3>1, <3>4
    <3>6. slept' \in [known : BOOLEAN, set_utc : 0..MaxNow]
      BY <3>4
    <3>7. sleepMs' \in IF device' = "asleep" THEN 1000..SII ELSE 0..SII
      BY <3>1
    <3>8. lastSet' \in 0..now' /\ now' \in 1..MaxNow
      BY <3>1, <3>4
    <3>9. /\ device' \in {"awake", "asleep", "off", "ended"}
          /\ pc' \in {"waitIdle", "waitActive", "settle"} /\ power' \in {"Active", "Idle"}
          /\ registered' \subseteq Clients /\ stored' \subseteq Clients
          /\ owed' \subseteq {"run_icd", "flush"}
          /\ keeper' \in {"due?", "done"} /\ rtc' \in {"none", "restored", "set"}
      BY <3>1, <3>4
    <3> QED
      BY <3>3, <3>5, <3>6, <3>7, <3>8, <3>9, Zenon
  <2> QED
    BY <2>1, <2>2
<1>8. CASE ClockKeeperRuns
  BY <1>8, SMT DEF ClockKeeperRuns, icdVars, CallFails
<1>9. CASE WaitIdle \/ WaitActive \/ Messaged
  <2>1. owed' \subseteq {"run_icd", "flush"}
    BY <1>9 DEF WaitIdle, WaitActive, Messaged, Woken
  <2>2. /\ UNCHANGED <<device, sleepMs, power, ready, netSignal, registered, stored,
                       applied, ot, keeper, rtc, slept, sysRight, lastSet, now>>
        /\ pc' \in {"waitIdle", "waitActive", "settle"}
    BY <1>9 DEF WaitIdle, WaitActive, Messaged, LoopTo, LoopFrame, icdVars
  <2> QED
    BY <2>1, <2>2
<1>10. CASE deep_sleep
  <2>1. sleepMs' \in 1000..SII
    BY <1>10, SleepFits DEF deep_sleep
  <2>2. slept' \in [known : BOOLEAN, set_utc : 0..MaxNow] /\ sysRight' \in BOOLEAN
    <3>1. save_clock
      BY <1>10 DEF deep_sleep
    <3>2. now \in 0..MaxNow /\ 0 \in 0..MaxNow
      BY SleepyAssumption, SMT
    <3>3. slept.set_utc \in 0..MaxNow /\ sysRight \in BOOLEAN
      OBVIOUS
    <3>4. SleptClock \in [known : BOOLEAN, set_utc : 0..MaxNow]
      BY <3>2, <3>3 DEF SleptClock
    <3>5. Unknown \in [known : BOOLEAN, set_utc : 0..MaxNow]
      BY <3>2 DEF Unknown
    <3> QED
      BY <3>1, <3>3, <3>4, <3>5 DEF save_clock, AfterFailure
  <2> QED
    BY <1>10, <2>1, <2>2 DEF deep_sleep, LoopFrame, icdVars
<1>11. CASE UNCHANGED vars
  BY <1>11 DEF vars, icdVars, clockVars
<1> QED
  BY <1>1, <1>2, <1>3, <1>4, <1>5, <1>6, <1>7, <1>8, <1>9, <1>10, <1>11 DEF Next

-----------------------------------------------------------------------------
(* What follows from it.                                                   *)

\* The invariant below holds in every reachable state.
THEOREM SleepyInvariance == Spec => []IInv
<1>1. IInv /\ [Next]_vars => IInv'
  BY TypeStep, IdleStep, LoopStep, ParentStep, ClockStep DEF IInv
<1> QED
  BY InitInv, <1>1, PTL DEF Spec

\* Every variable keeps its type, and the timer is never set to less than a
\* second nor to more than a polling period.
THEOREM SleepyTypes == Spec => []TypeOK
<1>1. IInv => TypeOK
  BY DEF IInv
<1> QED
  BY SleepyInvariance, <1>1, PTL

\* The device sleeps only with a client, and with every registration in flash,
\* for any number of clients, messages and boots (example, 484-515).  deep_sleep
\* asks for neither: a task woken before the timer was set has been polled
\* when it is over, and what a message changed since then ended the idle
\* period, which the second look at the power mode sees (LoopInv).
THEOREM AsleepTheorem == Spec => []AsleepSafely
<1>1. IInv => AsleepSafely
  BY DEF IInv, LoopInv, AsleepSafely
<1> QED
  BY SleepyInvariance, <1>1, PTL

\* A restored time was set once, and the system clock carried it.
THEOREM ClockTheorem == Spec => []ClockRight
<1>1. IInv => ClockRight
  BY DEF IInv, ClockInv, ClockRight
<1> QED
  BY SleepyInvariance, <1>1, PTL

\* The parent keeps the child through every sleep: from the arithmetic above
\* and from the order in which run_icd applies what the ICD signals.
THEOREM ParentTheorem == Spec => []KeptByParent
<1>1. IInv => KeptByParent
  <2> SUFFICES ASSUME IInv PROVE KeptByParent
    OBVIOUS
  <2>1. ASSUME device = "asleep" \/ (device = "awake" /\ applied # Nothing /\ ~netSignal)
        PROVE  /\ 1000 * ot.check > SupervisionGapMs(net_params.poll)
               /\ ot.poll = net_params.poll /\ ot = Keepalive(net_params)
    <3>1. ot = Keepalive(net_params)
      BY <2>1 DEF IInv, LoopInv, ParentInv
    <3>2. ot.poll = net_params.poll
          /\ ot.check = child_supervision_check_timeout_s(net_params.poll)
      BY <3>1, KeepaliveTypes, ParamsInForce
    <3>3. net_params.poll \in Nat /\ 0 < net_params.poll /\ net_params.poll < LongestPollMs
      BY ParamsInForce, Periods, SMT
         DEF LongestPollMs, U16Max, CHILD_SUPERVISION_INTERVAL_S
    <3> QED
      BY <3>1, <3>2, <3>3, SupervisionCovers
  <2>2. ASSUME device = "asleep"
        PROVE  1000 * ot.child >= sleepMs + 1000 * CHILD_TIMEOUT_MARGIN_S
    <3>1. ot.child = child_timeout_s(SII)
      <4>1. net_params.max = SII
        BY <2>2, ParamsInForce DEF IInv, IdleRuns, LoopInv
      <4> QED
        BY <2>1, <2>2, <4>1, KeepaliveTypes, ParamsInForce
    <3>2. sleepMs \in 1000..SII
      BY <2>2 DEF IInv, TypeOK
    <3>3. SII \in Nat
      BY Periods
    <3>4. sleepMs \in Nat /\ sleepMs <= SII
      BY <3>2, <3>3, SMT
    <3>5. PICK child : child = child_timeout_s(SII)
      OBVIOUS
    <3>6. child \in Nat /\ 1000 * child >= SII + 1000 * CHILD_TIMEOUT_MARGIN_S
      <4>1. child \in Nat
        BY <3>3, <3>5, SMT DEF child_timeout_s, AtLeast, Seconds,
           CHILD_TIMEOUT_MARGIN_S, CHILD_TIMEOUT_DEFAULT_S
      <4> QED
        BY <3>3, <3>5, <4>1, ChildTimeoutCovers
    <3>7. CHILD_TIMEOUT_MARGIN_S \in Nat
      BY SMT DEF CHILD_TIMEOUT_MARGIN_S
    <3> QED
      BY <3>1, <3>3, <3>4, <3>5, <3>6, <3>7, SMT
  <2> QED
    BY <2>1, <2>2 DEF KeptByParent
<1> QED
  BY SleepyInvariance, <1>1, PTL

-----------------------------------------------------------------------------
(* On the way to a sleep.                                                  *)

LEMMA WayStep == IdleIsOnItsWay /\ TypeOK /\ [Next]_vars => IdleIsOnItsWay'
<1> SUFFICES ASSUME IdleIsOnItsWay, TypeOK, [Next]_vars PROVE IdleIsOnItsWay'
  OBVIOUS
<1> USE DEF IdleIsOnItsWay
<1>1. CASE Wake \/ ColdBoot
  BY <1>1, SMT DEF Wake, ColdBoot, Booted
<1>2. CASE BootFails \/ PowerLoss \/ FactoryReset \/ DeepSleepFails
  BY <1>2, SMT DEF BootFails, PowerLoss, FactoryReset, DeepSleepFails, Ends
<1>3. CASE IcdRuns \/ GoIdle \/ GoActive \/ Message
  BY <1>3, SMT DEF IcdRuns, GoIdle, GoActive, Message, IcdStep, IcdFrame
<1>4. CASE Persist \/ Tick \/ ClockKeeperRuns
  BY <1>4, SMT DEF Persist, Tick, ClockKeeperRuns, IcdFrame, icdVars
<1>5. CASE run_icd
  BY <1>5, SMT DEF run_icd, Ends, icdVars
<1>6. CASE WaitIdle
  BY <1>6, SMT DEF WaitIdle, MaySleep, operating_mode, LoopTo, LoopFrame, icdVars
<1>7. CASE WaitActive \/ Messaged
  BY <1>7, SMT DEF WaitActive, Messaged, LoopTo, LoopFrame, icdVars
<1>8. CASE deep_sleep
  BY <1>8, SMT DEF deep_sleep
<1>9. CASE UNCHANGED vars
  BY <1>9, SMT DEF vars, icdVars
<1> QED
  BY <1>1, <1>2, <1>3, <1>4, <1>5, <1>6, <1>7, <1>8, <1>9 DEF Next

\* A device with a registered client that is idle is on its way to sleep: the
\* loop does not wait for the activity whose absence keeps it awake, however the
\* messages and the loop's looks at the mode interleave (example, 483-488).
THEOREM OnItsWayTheorem == Spec => []IdleIsOnItsWay
<1>1. Init => IdleIsOnItsWay
  BY DEF Init, IdleIsOnItsWay
<1>2. IInv => TypeOK
  BY DEF IInv
<1> QED
  BY <1>1, <1>2, WayStep, SleepyInvariance, PTL DEF Spec

\* A step of an idle device that settles leaves it settling with the clients it
\* has, or is its sleep, its end or the loss of its power (example, 490-514).
THEOREM SettlesTheorem == Spec => SettlesOnce
<1>1. IInv /\ [Next]_vars =>
        (device = "awake" /\ pc = "settle" /\ power = "Idle" /\ power' = "Idle"
           => device' # "awake" \/ (pc' = "settle" /\ registered' = registered))
  <2> SUFFICES ASSUME [Next]_vars, device = "awake", pc = "settle",
                      power = "Idle", power' = "Idle"
               PROVE  device' # "awake" \/ (pc' = "settle" /\ registered' = registered)
    OBVIOUS
  <2>1. CASE Wake \/ ColdBoot \/ BootFails \/ PowerLoss \/ FactoryReset \/ DeepSleepFails
    BY <2>1, SMT DEF Wake, ColdBoot, BootFails, PowerLoss, FactoryReset,
       DeepSleepFails, Ends
  <2>2. CASE IcdRuns \/ GoIdle \/ GoActive \/ Message
    BY <2>2, SMT DEF IcdRuns, GoIdle, GoActive, Message, IcdStep, IcdFrame
  <2>3. CASE Persist \/ Tick \/ run_icd \/ ClockKeeperRuns
    BY <2>3, SMT DEF Persist, Tick, run_icd, ClockKeeperRuns, IcdFrame, icdVars, Ends
  <2>4. CASE WaitIdle \/ WaitActive \/ Messaged
    BY <2>4, SMT DEF WaitIdle, WaitActive, Messaged, StillIdle
  <2>5. CASE deep_sleep
    BY <2>5, SMT DEF deep_sleep
  <2>6. CASE UNCHANGED vars
    BY <2>6, SMT DEF vars, icdVars
  <2> QED
    BY <2>1, <2>2, <2>3, <2>4, <2>5, <2>6 DEF Next
<1> QED
  BY <1>1, SleepyInvariance, PTL DEF Spec, SettlesOnce
=============================================================================
