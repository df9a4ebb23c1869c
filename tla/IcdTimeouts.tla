----------------------------- MODULE IcdTimeouts -----------------------------
(***************************************************************************)
(* The keep-alive arithmetic of a Thread Sleepy End Device                  *)
(* (src/wireless/thread.rs): which child time-out and which supervision     *)
(* check time-out fit a polling period.  Periods are milliseconds, time-outs *)
(* seconds, both unsigned 32-bit except where a clamp says otherwise.        *)
(***************************************************************************)
EXTENDS Integers

CHILD_TIMEOUT_DEFAULT_S == 240
CHILD_TIMEOUT_MARGIN_S  == 30
CHILD_SUPERVISION_INTERVAL_S == 129
CHILD_SUPERVISION_CHECK_TIMEOUT_DEFAULT_S == 190

U16Max == 65535

\* The larger and the smaller of two numbers.
AtLeast(a, b) == IF a < b THEN b ELSE a
AtMost(a, b)  == IF a < b THEN a ELSE b

\* u32::div_ceil(1000)
Seconds(ms) == (ms + 999) \div 1000

\* Mutant: no margin, and two missed polls end in an eviction.
ChildTimeoutBare(poll_period_ms) ==
    AtLeast(Seconds(poll_period_ms), CHILD_TIMEOUT_DEFAULT_S)

child_timeout_s(poll_period_ms) ==
    AtLeast(Seconds(poll_period_ms) + CHILD_TIMEOUT_MARGIN_S,
            CHILD_TIMEOUT_DEFAULT_S)

\* Saturating arithmetic, then the clamp to what the 16-bit setting can hold.
child_supervision_check_timeout_s(poll_period_ms) ==
    AtMost(AtLeast(CHILD_SUPERVISION_INTERVAL_S + 2 * Seconds(poll_period_ms),
                   CHILD_SUPERVISION_CHECK_TIMEOUT_DEFAULT_S),
           U16Max)

\* The longest normal gap between two frames of the parent (wireless/
\* thread.rs:398-401): the supervision interval and one polling period.
SupervisionGapMs(poll_period_ms) ==
    1000 * CHILD_SUPERVISION_INTERVAL_S + poll_period_ms

\* The longest polling period whose gap a 16-bit time-out can exceed.
LongestPollMs == 1000 * (U16Max - CHILD_SUPERVISION_INTERVAL_S)

\* The battery sensor's triangle wave, one step per wake-up
\* (examples/temp_sensor_battery_thread.rs), in centi-degrees.
STEPS == 20
simulated_reading(wake_count) ==
    LET step == wake_count % (2 * STEPS)
    IN  2100 + 25 * (IF step < STEPS THEN step ELSE 2 * STEPS - step)
=============================================================================
