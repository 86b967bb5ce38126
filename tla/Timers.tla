------------------------------- MODULE Timers -------------------------------
(***************************************************************************)
(* The interval timer, pit.ts, and the power management timer, acpi.ts, as *)
(* the main loop calls them: run_hardware_timers asks each for what is due *)
(* and sleeps no longer than the soonest of them says.  Both are computed  *)
(* from the clock of the host, which has steps of its own: many ticks      *)
(* between two calls, or a part of one.                                    *)
(*                                                                         *)
(* Counter 0 is modelled, with both bytes of its reload value (access mode *)
(* 3), in modes 0, 2 and 3; counter 1 has no effect and counter 2 none but *)
(* sound.  A byte has Byte values.  The latch, which holds a value for two *)
(* reads and changes nothing else, is left out.  Of the power management   *)
(* timer the count itself is modelled, which every read may push on.       *)
(***************************************************************************)
EXTENDS Integers

CONSTANTS Byte,        \* 2^8
          Tick,        \* units of the host's clock in a tick of the PIT
          PmTicks,     \* ticks of the power management timer in PmUnits
          PmUnits,     \* units of the host's clock
          Imprecision, \* PMTIMER_FREQ_SECONDS / 1000
          LongestSleep,\* 100 milliseconds
          LastTime     \* bounds the clock

ASSUME TimersAssumption ==
    /\ Byte \in Nat /\ Byte > 1 /\ Tick \in Nat \ {0}
    /\ PmTicks \in Nat \ {0} /\ PmUnits \in Nat \ {0} /\ Imprecision \in Nat
    /\ LongestSleep \in Nat \ {0} /\ LastTime \in Nat

VARIABLES time,                    \* external: v86.microtick()
          counter_enabled, counter_mode, counter_reload,
          counter_start_value, counter_start_time,
          counter_next_low,        \* 1: the next byte is the low one
          irq0,                    \* external: the level of the line
          edge0,                   \* external: the request the interrupt controller holds
          access,                  \* external: what the guest is in the middle of
          wanted,                  \* external: the value it programs
          wake_up, sleeping,       \* external: when the loop ends its sleep, if it sleeps
          timer_last_value, timer_imprecision_offset,
          zero,                    \* history: when the counter should reach zero first
          slips,                   \* history: rollovers since it was started
          heard                    \* history: the last of them has been taken

counter == <<counter_enabled, counter_mode, counter_reload, counter_start_value, counter_start_time>>
port_state == <<counter_next_low, access, wanted>>
irq0_line == <<irq0, edge0>>
main_loop == <<wake_up, sleeping>>
pm_timer == <<timer_last_value, timer_imprecision_offset>>
phase0 == <<zero, slips, heard>>
timers_vars == <<time, counter, port_state, irq0_line, main_loop, pm_timer, phase0>>

Largest == Byte * Byte - 1          \* FFFFh
Unknown == -1

TimersTypeOK ==
    /\ time \in 0 .. LastTime
    /\ counter_enabled \in BOOLEAN /\ counter_mode \in {0, 2, 3}
    /\ counter_reload \in 0 .. Largest /\ counter_start_value \in 0 .. Largest
    /\ counter_start_time \in 0 .. LastTime
    /\ counter_next_low \in {0, 1}
    /\ irq0 \in BOOLEAN /\ edge0 \in BOOLEAN
    /\ access \in {"none", "program", "write", "read"} /\ wanted \in 0 .. Largest
    /\ wake_up \in Nat /\ sleeping \in BOOLEAN
    /\ timer_last_value \in Nat /\ timer_imprecision_offset \in 0 .. Imprecision
    /\ zero \in Nat \cup {Unknown} /\ slips \in Nat /\ heard \in BOOLEAN

TimersInit ==
    /\ time = 0
    /\ counter_enabled = FALSE /\ counter_mode = 0 /\ counter_reload = 0
    /\ counter_start_value = 0 /\ counter_start_time = 0
    /\ counter_next_low = 0
    /\ irq0 = FALSE /\ edge0 = FALSE /\ access = "none" /\ wanted = 0
    /\ wake_up = 0 /\ sleeping = FALSE
    /\ timer_last_value = 0 /\ timer_imprecision_offset = 0
    /\ zero = Unknown /\ slips = 0 /\ heard = TRUE

-----------------------------------------------------------------------------
(* The counter.                                                            *)

\* Math.floor of the ticks since the counter was started.
Elapsed == (time - counter_start_time) \div Tick

\* "should only happen after restore_state": the clock of a new page starts over.
DidRollover == time < counter_start_time \/ counter_start_value < Elapsed

\* A mutant of CounterValue: what has gone by beyond one period is forgotten.
CounterValueAfresh ==
    LET value == counter_start_value - Elapsed
    IN  IF counter_reload = 0 THEN 0
        ELSE IF value >= counter_reload THEN value % counter_reload
        ELSE IF value < 0 THEN counter_reload
        ELSE value

\* get_counter_value.  The remainder of a negative number is negative in
\* JavaScript, so a counter at a multiple of the period has the reload value; with
\* half of a new reload value that is zero it is not a number, and stored as zero.
CounterValue ==
    LET value == counter_start_value - Elapsed
    IN  IF counter_reload = 0 THEN 0
        ELSE IF value >= counter_reload THEN value % counter_reload
        ELSE IF value < 0 THEN counter_reload - ((- value) % counter_reload)
        ELSE value

\* device_lower_irq(0), which withdraws the request, and device_raise_irq(0).
Interrupt0 == irq0' = TRUE /\ edge0' = TRUE

LowerIrq0 == irq0' = FALSE /\ edge0' \in {edge0, FALSE}

\* A rollover restarts the counter from where it should be by now.
Rollover ==
    /\ counter_start_value' = CounterValue
    /\ counter_start_time' = time
    /\ Interrupt0
    /\ counter_enabled' = (counter_mode # 0)
    /\ slips' = slips + 1 /\ heard' = FALSE
    /\ UNCHANGED <<counter_mode, counter_reload, zero>>

PitTimer ==
    IF counter_enabled /\ DidRollover THEN Rollover
    ELSE LowerIrq0 /\ UNCHANGED <<counter, phase0>>

\* What the timer returns, with the counter as it has left it, in units of the clock.
TimeToNextInterrupt ==
    IF counter_enabled' THEN (counter_start_value' - ((time - counter_start_time') \div Tick)) * Tick
    ELSE LongestSleep

-----------------------------------------------------------------------------
(* The power management timer.                                             *)

\* Math.round(now * frequency).
PmTime == (2 * time * PmTicks + PmUnits) \div (2 * PmUnits)

\* What the last call of get_timer returned.
PmRead == timer_last_value + timer_imprecision_offset

\* A mutant of GetTimer: the time of the host is taken as it comes.
GetTimerBack ==
    /\ IF PmTime = timer_last_value
       THEN /\ timer_imprecision_offset' = IF timer_imprecision_offset < Imprecision
                                           THEN timer_imprecision_offset + 1 ELSE timer_imprecision_offset
            /\ UNCHANGED timer_last_value
       ELSE timer_imprecision_offset' = 0 /\ timer_last_value' = PmTime

\* get_timer: "don't go past 1ms", "don't go back in time".
GetTimer ==
    /\ IF PmTime = timer_last_value
       THEN /\ timer_imprecision_offset' = IF timer_imprecision_offset < Imprecision
                                           THEN timer_imprecision_offset + 1 ELSE timer_imprecision_offset
            /\ UNCHANGED timer_last_value
       ELSE IF PmRead <= PmTime
       THEN timer_imprecision_offset' = 0 /\ timer_last_value' = PmTime
       ELSE UNCHANGED <<timer_imprecision_offset, timer_last_value>>

\* The guest reads it, or the loop does.
ReadPmTimer ==
    /\ GetTimer
    /\ UNCHANGED <<time, counter, port_state, irq0_line, main_loop, phase0>>

-----------------------------------------------------------------------------
(* The loop.                                                               *)

\* run_hardware_timers, for the counter; the loop sleeps only when the processor
\* is halted.
RunHardwareTimers ==
    /\ PitTimer
    /\ sleeping' \in BOOLEAN
    /\ wake_up' = IF ~ sleeping' THEN 0
                  ELSE time + IF TimeToNextInterrupt < LongestSleep THEN TimeToNextInterrupt ELSE LongestSleep
    /\ UNCHANGED <<time, port_state, pm_timer>>

\* The guest takes the interrupt before the loop calls the timers again, or not.
TakeInterrupt0 ==
    /\ edge0
    /\ edge0' = FALSE /\ heard' = TRUE
    /\ sleeping' = FALSE /\ wake_up' = 0
    /\ UNCHANGED <<time, counter, port_state, irq0, pm_timer, zero, slips>>

TimePasses ==
    /\ time < LastTime
    /\ sleeping => time < wake_up
    /\ time' = time + 1
    /\ UNCHANGED <<counter, port_state, irq0_line, main_loop, pm_timer, phase0>>

-----------------------------------------------------------------------------
(* Ports 40h and 43h.                                                      *)

Guest(from, to) == ~ sleeping /\ access = from /\ access' = to

\* Port 43h with access mode 3; the counter runs on until it is written.
Port43Write ==
    /\ Guest("none", "program")
    /\ counter_mode' \in {0, 2, 3}
    /\ wanted' \in 0 .. Largest
    /\ counter_next_low' = 1
    /\ LowerIrq0
    /\ UNCHANGED <<time, counter_enabled, counter_reload, counter_start_value, counter_start_time,
                   main_loop, pm_timer, phase0>>

\* The second byte starts the counter; a reload value of zero is taken for FFFFh.
CounterWrite(value) ==
    LET low == counter_next_low = 1
        reload == IF low THEN (counter_reload \div Byte) * Byte + value
                  ELSE value * Byte + (counter_reload % Byte)
    IN  /\ counter_next_low' = 1 - counter_next_low
        /\ IF low
           THEN /\ counter_reload' = reload
                /\ UNCHANGED <<counter_enabled, counter_start_value, counter_start_time, phase0>>
           ELSE /\ counter_reload' = IF reload = 0 THEN Largest ELSE reload
                /\ counter_start_value' = counter_reload' /\ counter_start_time' = time
                /\ counter_enabled' = TRUE
                /\ zero' = time + counter_reload' * Tick /\ slips' = 0 /\ heard' = heard

WriteLow ==
    /\ Guest("program", "write")
    /\ CounterWrite(wanted % Byte)
    /\ UNCHANGED <<time, counter_mode, wanted, irq0_line, main_loop, pm_timer>>

WriteHigh ==
    /\ Guest("write", "none")
    /\ CounterWrite(wanted \div Byte)
    /\ UNCHANGED <<time, counter_mode, wanted, irq0_line, main_loop, pm_timer>>

\* Without a latch, in mode 3, a read changes which byte comes next: the guest
\* reads both.
ReadCounter ==
    /\ Guest("none", "read") \/ Guest("read", "none")
    /\ counter_next_low' = IF counter_mode = 3 THEN 1 - counter_next_low ELSE counter_next_low
    /\ UNCHANGED <<time, counter, wanted, irq0_line, main_loop, pm_timer, phase0>>

\* set_state: the counter as it is now, under a clock that may have started over.
CounterRestored ==
    /\ time' \in 0 .. LastTime
    /\ sleeping' = FALSE /\ wake_up' = 0
    /\ zero' = Unknown /\ slips' = 0 /\ heard' = heard
    /\ UNCHANGED <<counter, port_state, irq0_line, pm_timer>>

CounterNext ==
    \/ RunHardwareTimers \/ TakeInterrupt0 \/ TimePasses
    \/ Port43Write \/ WriteLow \/ WriteHigh
    \/ ReadCounter
    \/ CounterRestored

PmTimerNext == ReadPmTimer \/ TimePasses

TimersNext == CounterNext \/ PmTimerNext

CounterSpec == TimersInit /\ [][CounterNext]_timers_vars

-----------------------------------------------------------------------------
(* Properties.                                                             *)

\* Interrupts keep their phase however late the loop calls: the counter reaches
\* zero a whole number of periods after it should have first, but for the part of
\* a tick that every rollover drops.
PhaseKept ==
    counter_enabled /\ zero # Unknown /\ access # "write" =>
        LET next == counter_start_time + counter_start_value * Tick
        IN  (next - zero) % (counter_reload * Tick) \in 0 .. slips * (Tick - 1)

\* The loop does not sleep past a rollover.
NotOverslept == sleeping /\ time < wake_up => ~ (counter_enabled /\ DidRollover)

\* A rollover while the line is still up from the one before is heard too: as long
\* as the line is up its rollover is requested or has been taken.
RolloverHeard == irq0 => edge0 \/ heard

\* The guest's program of the counter takes effect as a whole: while it runs and
\* no write is under way, it counts from the value the guest wrote, whatever was
\* read in between (counter_next_low is shared by reads and writes).
CountsFromWritten ==
    counter_enabled /\ access \in {"none", "read"} =>
        counter_reload = IF wanted = 0 THEN Largest ELSE wanted

\* The four of them, for every order of the guest's accesses, the calls of the
\* loop and the steps of the clock, and across a restored state.
PitKeepsTime == PhaseKept /\ NotOverslept /\ RolloverHeard /\ CountsFromWritten

\* get_timer neither goes back, however often it is read within a step of the
\* clock, nor runs ahead of the clock by more than a millisecond.
PmTimerTrue ==
    [][PmRead' >= PmRead /\ PmRead' <= PmTime' + Imprecision]_timers_vars

=============================================================================
