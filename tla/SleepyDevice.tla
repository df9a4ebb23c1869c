----------------------------- MODULE SleepyDevice -----------------------------
(***************************************************************************)
(* A LIT ICD that deep-sleeps between its wake-ups                          *)
(* (examples/temp_sensor_battery_thread.rs): the deep-sleep loop, the clock *)
(* kept over the sleep, the factory reset, and run_icd of the Thread driver *)
(* (src/wireless/thread.rs), which follows the ICD's polling parameters.    *)
(*                                                                         *)
(* A sleep powers everything off but the RTC: the wake-up is a reboot that  *)
(* finds what was flushed to flash, the RTC RAM and the system clock.       *)
(* External: rs-matter's ICD state machine (power, ready, clients), its     *)
(* persistence, the controllers, and the parent (which keeps ot.child).     *)
(***************************************************************************)
EXTENDS IcdTimeouts

CONSTANTS
    Clients,     \* controllers that may register for Check-Ins
    Nothing,     \* run_icd has applied no parameters yet
    Every,       \* TIME_SYNC_EVERY_US, in units of `now`
    MaxNow,      \* bound: the time, in parts of a day
    MaxBoots,    \* bound: reboots of any kind
    MaxMessages, \* bound: messages from controllers
    MaxFaults    \* bound: calls that fail

\* IcdNetParams
Params == [power : {"Active", "Idle"}, mode : {"SIT", "LIT"}, poll : Nat, max : Nat]

ASSUME SleepyAssumption ==
    /\ Nothing \notin Params
    /\ Every \in Nat \ {0} /\ MaxNow \in Nat \ {0} /\ MaxBoots \in Nat
    /\ MaxMessages \in Nat /\ MaxFaults \in Nat

VARIABLES
    device,      \* "awake", "asleep", "off" (no power) or "ended" (Err returned)
    pc,          \* deep_sleep_when_idle: "waitIdle", "waitActive" or "settle"
    sleepMs,     \* what the timer was set to
    owed,        \* tasks woken before the loop began to settle, and not polled since
    power,       \* the ICD's power mode
    ready,       \* the ICD runs: its SII is known
    registered,  \* the clients registered for Check-Ins
    stored,      \* those that are in flash
    netSignal,   \* wait_net_changed will return
    applied,     \* run_icd's last parameters
    ot,          \* what OpenThread was programmed with: poll, check, child
    keeper,      \* ClockKeeper::run: "due?" or "done"
    rtc,         \* state.rtc: "none", "restored" or "set"
    slept,       \* SLEPT_CLOCK in RTC RAM: known, set_utc
    sysRight,    \* the system clock was set to the time and ran on
    lastSet,     \* ghost: when the time was last set from a real source
    now, boots, messages, faults

icdVars   == <<power, ready, registered, netSignal>>
clockVars == <<keeper, rtc, slept, sysRight, lastSet>>
vars == <<device, pc, sleepMs, owed, icdVars, stored, applied, ot, clockVars,
          now, boots, messages, faults>>

SLEEP_SECS           == 300
ICD_SIT_SLOW_POLL_MS == 5000
SAI == 300
SII == SLEEP_SECS * 1000

\* A LIT-capable device without a client operates as a SIT.
operating_mode == IF registered = {} THEN "SIT" ELSE "LIT"

\* Icd::net_params: the slowest interval is known once the ICD runs.
net_params ==
    [power |-> power, mode |-> operating_mode,
     poll  |-> CASE power = "Active" -> SAI
                 [] operating_mode = "LIT" -> SII
                 [] OTHER -> ICD_SIT_SLOW_POLL_MS,
     max   |-> IF ready THEN SII ELSE SAI]

\* What apply_icd_params programs.
Keepalive(params) ==
    [poll  |-> params.poll,
     check |-> child_supervision_check_timeout_s(params.poll),
     child |-> child_timeout_s(params.max)]

\* SleptClock::UNKNOWN
Unknown == [known |-> FALSE, set_utc |-> 0]

CallFails == faults < MaxFaults /\ faults' = faults + 1

\* matter() returns an error and the application is over.
Ends == device' = "ended" /\ CallFails
        /\ UNCHANGED <<pc, sleepMs, owed, icdVars, applied, ot, stored,
                       clockVars, now, boots, messages>>

Init ==
    /\ device = "off" /\ pc = "waitIdle" /\ sleepMs = 0 /\ owed = {}
    /\ power = "Active" /\ ready = FALSE /\ registered = {} /\ stored = {}
    /\ netSignal = FALSE /\ applied = Nothing
    /\ ot = Keepalive(net_params)
    /\ keeper = "due?" /\ rtc = "none" /\ slept = Unknown
    /\ sysRight = FALSE /\ lastSet = 0
    /\ now = 1 /\ boots = 0 /\ messages = 0 /\ faults = 0

-----------------------------------------------------------------------------
(* Boots: matter().                                                        *)

\* What every boot starts from.  configure_sed programs OpenThread before the
\* ICD runs.
Booted ==
    /\ device' = "awake" /\ boots' = boots + 1
    /\ pc' = "waitIdle" /\ sleepMs' = 0 /\ owed' = {}
    /\ power' = "Active" /\ ready' = FALSE /\ netSignal' = FALSE
    /\ registered' = stored /\ applied' = Nothing
    /\ ot' = Keepalive(net_params)'
    /\ keeper' = "due?"
    /\ UNCHANGED <<stored, lastSet, now, messages, faults>>

\* The timer, or the user trigger, whenever it is pulled.  restore_clock takes
\* the time from the system clock if it was known.
Wake ==
    /\ device = "asleep" /\ boots < MaxBoots /\ Booted
    /\ rtc' = IF slept.known THEN "restored" ELSE "none"
    /\ UNCHANGED <<slept, sysRight>>

\* A cold boot: the RTC RAM is initialised again.
ColdBoot ==
    /\ device = "off" /\ boots < MaxBoots /\ Booted
    /\ rtc' = "none" /\ slept' = Unknown /\ sysRight' = FALSE

\* A boot that does not come up: a call of matter() or of the driver fails.
BootFails == device \in {"asleep", "off"} /\ Ends

\* Power loss at any time, and esp_restart of a stack that panicked.
PowerLoss ==
    /\ device # "off" /\ device' = "off" /\ boots < MaxBoots
    /\ UNCHANGED <<pc, sleepMs, owed, icdVars, stored, applied, ot, clockVars,
                   now, boots, messages, faults>>

\* The BOOT button is held for RESET_SECS: stack.reset, then esp_restart.
\* wait_reset itself resolves only after that time.
FactoryReset ==
    /\ device = "awake"
    /\ \/ Ends   \* also when the button's interrupt cannot be set up
       \/ /\ boots < MaxBoots /\ device' = "off"
          /\ registered' = {} /\ stored' = {}
          /\ UNCHANGED <<pc, sleepMs, owed, power, ready, netSignal, applied,
                         ot, clockVars, now, boots, messages, faults>>

-----------------------------------------------------------------------------
(* The ICD state machine and the controllers (external).                   *)

IcdFrame == UNCHANGED <<device, pc, sleepMs, applied, ot, now, boots, faults>>

\* The state machine's own changes, each of which signals.
IcdStep == /\ device = "awake" /\ netSignal' = TRUE
           /\ UNCHANGED <<owed, registered, stored, clockVars, messages>>
           /\ IcdFrame

IcdRuns  == ~ready /\ ready' = TRUE /\ UNCHANGED power /\ IcdStep

\* An active period lasts 5 s or more: the loop has been polled in it, whether
\* it waited for one or was settling.
GoIdle == /\ ready /\ power = "Active" /\ pc = "waitIdle"
          /\ power' = "Idle" /\ UNCHANGED ready /\ IcdStep

GoActive == power = "Idle" /\ power' = "Active" /\ UNCHANGED ready /\ IcdStep

\* A message makes the ICD active; it may register a client, remove one, or
\* set the time.
Message ==
    /\ device = "awake" /\ ready
    /\ messages < MaxMessages /\ messages' = messages + 1
    /\ power' = "Active" /\ netSignal' = TRUE /\ UNCHANGED ready
    /\ \/ /\ \E k \in Clients : registered' \in {registered \cup {k}, registered \ {k}}
          /\ UNCHANGED <<rtc, lastSet>>
       \/ /\ rtc' = "set" /\ lastSet' = now
          /\ UNCHANGED registered
    /\ UNCHANGED <<owed, stored, keeper, slept, sysRight>> /\ IcdFrame

\* The background persistence writes what has changed, however long after.
Persist ==
    /\ device = "awake" /\ (stored # registered \/ "flush" \in owed)
    /\ stored' = registered /\ owed' = owed \ {"flush"}
    /\ UNCHANGED <<icdVars, clockVars, messages>> /\ IcdFrame

Tick ==
    /\ now < MaxNow /\ now' = now + 1
    /\ ~(device = "awake" /\ pc = "settle")
    /\ UNCHANGED <<device, pc, sleepMs, owed, icdVars, stored, applied, ot,
                   clockVars, boots, messages, faults>>

-----------------------------------------------------------------------------
(* run_icd of the Thread driver.                                           *)

Changed(params) == applied = Nothing \/ applied # params

\* One turn: the first, or one that a signal has woken.
run_icd ==
    /\ device = "awake" /\ (applied = Nothing \/ netSignal)
    /\ IF Changed(net_params)
       THEN \/ /\ ot' = Keepalive(net_params) /\ applied' = net_params
               /\ netSignal' = FALSE /\ owed' = owed \ {"run_icd"}
               /\ UNCHANGED <<device, pc, sleepMs, power, ready, registered,
                              stored, clockVars, now, boots, messages, faults>>
            \/ Ends
       ELSE /\ netSignal' = FALSE /\ owed' = owed \ {"run_icd"}
            /\ UNCHANGED <<device, pc, sleepMs, power, ready, registered, stored,
                           applied, ot, clockVars, now, boots, messages, faults>>

-----------------------------------------------------------------------------
(* ClockKeeper and the clock over the sleep.                               *)

\* LastKnown, or a reliable time that was not set for too long.
time_sync_due ==
    rtc = "none" \/ slept.set_utc = 0 \/ now - slept.set_utc > Every

\* refresh_once sets the time or fails, which is logged; then pending.
ClockKeeperRuns ==
    /\ device = "awake" /\ keeper = "due?" /\ keeper' = "done"
    /\ \/ time_sync_due /\ rtc' = "set" /\ lastSet' = now /\ UNCHANGED faults
       \/ time_sync_due /\ CallFails /\ UNCHANGED <<rtc, lastSet>>
       \/ ~time_sync_due /\ UNCHANGED <<rtc, lastSet, faults>>
    /\ UNCHANGED <<device, pc, sleepMs, owed, icdVars, stored, applied, ot,
                   slept, sysRight, now, boots, messages>>

\* What save_clock keeps of a time that it knows: the *current* time, if the
\* time was set in this boot.
SleptClock == [known |-> TRUE,
               set_utc |-> IF rtc = "set" THEN now ELSE slept.set_utc]

\* Mutant: a system clock that could not be set is kept as known.
AfterFailureKnown == SleptClock

AfterFailure == Unknown

save_clock ==
    \/ rtc = "none" /\ slept' = Unknown /\ UNCHANGED <<sysRight, faults>>
    \/ rtc # "none" /\ slept' = SleptClock /\ sysRight' = TRUE /\ UNCHANGED faults
    \/ rtc # "none" /\ slept' = AfterFailure /\ CallFails /\ UNCHANGED sysRight

-----------------------------------------------------------------------------
(* deep_sleep_when_idle.                                                   *)

LoopFrame == UNCHANGED <<icdVars, stored, applied, ot, keeper, rtc, lastSet,
                         now, boots, messages>>

\* A turn that only moves the loop on.
LoopTo(next) == /\ pc' = next
                /\ UNCHANGED <<device, sleepMs, slept, sysRight, faults>>
                /\ LoopFrame

\* Mutant: the clients are looked up in flash.
MaySleepStored == stored # {}

MaySleep == operating_mode = "LIT"

\* The tasks that have been woken and not polled yet.
Woken == {task \in {"run_icd", "flush"} :
            \/ task = "run_icd" /\ (netSignal \/ applied = Nothing)
            \/ task = "flush" /\ stored # registered}

WaitIdle ==
    /\ device = "awake" /\ pc = "waitIdle" /\ power = "Idle"
    /\ IF MaySleep THEN LoopTo("settle") /\ owed' = Woken
                   ELSE LoopTo("waitActive") /\ UNCHANGED owed

WaitActive ==
    /\ device = "awake" /\ pc = "waitActive" /\ power = "Active"
    /\ LoopTo("waitIdle") /\ UNCHANGED owed

\* Mutant: no time to settle.
SettledAtOnce == TRUE

\* SLEEP_SETTLE_MS have passed: a bare timer.  All it tells is that the tasks
\* that were woken before it was set have been polled.  Of a message, or a
\* registration, that came meanwhile it tells nothing.
Settled == owed = {}

\* Mutant: nobody looks again.
StillIdleAnyway == TRUE

StillIdle == power = "Idle"

Messaged ==
    /\ device = "awake" /\ pc = "settle" /\ Settled /\ ~StillIdle
    /\ LoopTo("waitIdle") /\ UNCHANGED owed

\* The idle period may nearly be over, or end before the next poll is due.
IdleMs == {0, SII - 500}

\* Mutant: no lower limit.
SleepForBare(idle_ms) == AtMost(net_params.poll, idle_ms)

SleepFor(idle_ms) == AtLeast(AtMost(net_params.poll, idle_ms), 1000)

deep_sleep ==
    /\ device = "awake" /\ pc = "settle" /\ Settled /\ StillIdle
    /\ \E idle_ms \in IdleMs : sleepMs' = SleepFor(idle_ms)
    /\ save_clock
    /\ device' = "asleep" /\ UNCHANGED <<pc, owed>>
    /\ LoopFrame

\* The wake-up sources cannot be set up.
DeepSleepFails ==
    /\ device = "awake" /\ pc = "settle" /\ Settled /\ StillIdle /\ Ends

-----------------------------------------------------------------------------
Next ==
    \/ Wake \/ ColdBoot \/ BootFails \/ PowerLoss \/ FactoryReset
    \/ IcdRuns \/ GoIdle \/ GoActive \/ Message \/ Persist \/ Tick
    \/ run_icd \/ ClockKeeperRuns
    \/ WaitIdle \/ WaitActive \/ Messaged \/ deep_sleep \/ DeepSleepFails

Spec == Init /\ [][Next]_vars

\* The executor polls run_icd, the flush and the loop.  GoIdle, the messages
\* and the wake-ups need not come.
Fairness == /\ WF_vars(run_icd) /\ WF_vars(Persist)
            /\ WF_vars(WaitIdle) /\ WF_vars(WaitActive) /\ WF_vars(Messaged)
            /\ WF_vars(deep_sleep)

FairSpec == Spec /\ Fairness

-----------------------------------------------------------------------------
(* Properties.                                                             *)

\* Every variable keeps its type; the sleep is never shorter than a second
\* nor longer than a polling period.
TypeOK ==
    /\ device \in {"awake", "asleep", "off", "ended"}
    /\ pc \in {"waitIdle", "waitActive", "settle"}
    /\ sleepMs \in IF device = "asleep" THEN 1000..SII ELSE 0..SII
    /\ owed \subseteq {"run_icd", "flush"}
    /\ power \in {"Active", "Idle"} /\ {ready, netSignal, sysRight} \subseteq BOOLEAN
    /\ registered \subseteq Clients /\ stored \subseteq Clients
    /\ applied = Nothing \/ applied.poll = ot.poll
    /\ ot.check \in 0..U16Max /\ ot.child \in Nat
    /\ keeper \in {"due?", "done"} /\ rtc \in {"none", "restored", "set"}
    /\ slept \in [known : BOOLEAN, set_utc : 0..MaxNow]
    /\ lastSet \in 0..now /\ now \in 1..MaxNow

\* The device sleeps only with a client to check in with, and the wake-up finds
\* in flash the registrations the controllers were told of.  The timer waits for
\* no flush; a message that registers or removes a client while it runs is
\* caught by the second look at the power mode (example, 484-496), and what it
\* left to write is written before the next timer is over.
AsleepSafely ==
    device = "asleep" => registered # {} /\ stored = registered

\* The parent neither evicts a sleeping child nor is thought lost between two
\* polls: the time-outs OpenThread was last programmed with, not the ones
\* of the boot before the ICD knew its SII, bridge the sleep and the polling
\* period in force (wireless/thread.rs:330-377).
KeptByParent ==
    /\ device = "asleep" => 1000 * ot.child >= sleepMs + 1000 * CHILD_TIMEOUT_MARGIN_S
    /\ device = "asleep" \/ (device = "awake" /\ applied # Nothing /\ ~netSignal)
           => /\ 1000 * ot.check > SupervisionGapMs(net_params.poll)
              /\ ot.poll = net_params.poll

\* A time restored after a sleep was once set, and comes from a system clock
\* that was set to it: through failures to set that clock, cold boots and
\* any number of sleeps (example, 520-551, 567-599).
ClockRight ==
    device = "awake" /\ rtc = "restored" => sysRight /\ lastSet # 0

\* The loop never waits for an active period while a device with a client is
\* idle: the mode it looked at before it began to wait (example, 483-488) cannot
\* have changed without a message, which ends the idle period.
IdleIsOnItsWay ==
    device = "awake" /\ power = "Idle" /\ registered # {}
        => pc \in {"waitIdle", "settle"}

\* And once it settles, such a device goes on to sleep unless an active period
\* comes in between or the application ends (example, 490-514).
SettlesOnce ==
    [][device = "awake" /\ pc = "settle" /\ power = "Idle" /\ power' = "Idle"
       => device' # "awake" \/ (pc' = "settle" /\ registered' = registered)]_vars

\* A device with a registered client that stays idle goes to sleep, or an error
\* has ended the application: the loop looks at the mode again in every idle
\* period (example, 484-490).
SleepsAgain ==
    ~<>[](device = "awake" /\ power = "Idle" /\ registered # {})

\* time_sync_due: "it has not been set from a real source for
\* [`TIME_SYNC_EVERY_US`]": a device that decides it need not read the time has
\* had it set that recently.
SyncedRecently ==
    [][keeper = "due?" /\ keeper' = "done" /\ lastSet' = lastSet /\ faults' = faults
           /\ rtc # "set"
       => now - lastSet <= Every]_vars
=============================================================================
