-------------------------------- MODULE Rtc --------------------------------
(***************************************************************************)
(* The periodic and the alarm interrupt of rtc.ts.  The main loop calls    *)
(* timer, which raises irq 8 for what is due and says how long the loop    *)
(* may sleep; the guest learns the reason from register C, whose read      *)
(* lowers the line.  The loop comes late as often as not, so timer has to  *)
(* catch up without drifting, and one line stands for two interrupts.      *)
(*                                                                         *)
(* The clock of the host moves in steps of Step units (Date.now counts     *)
(* milliseconds, and the fastest periods are shorter).  The time of day    *)
(* and its encoding are left out.                                          *)
(***************************************************************************)
EXTENDS Integers

CONSTANTS Step,     \* of the host's clock
          Periods,  \* 1000 / (32768 >> (rate - 1)) for the rates the guest sets
          MaxSleep, \* 100 milliseconds
          MaxTime   \* bounds the clock

ASSUME TimeAssumption ==
    /\ Step \in Nat \ {0} /\ MaxSleep \in Nat \ {0} /\ MaxTime \in Nat
    /\ Periods \subseteq Nat \ {0} /\ Periods # {}

VARIABLES now,                     \* external: Date.now()
          periodic_enabled,        \* cmos_b, bit 6
          rate_set,                \* cmos_a, bits 0 to 3 are not zero
          period,                  \* periodic_interrupt_time
          next_interrupt,
          alarm,                   \* next_interrupt_alarm; 0 when there is none
          flags,                   \* cmos_c: "PF" and "AF", with which IRQF goes
          irq8,                    \* external: the level of the line
          edge,                    \* external: the request the interrupt controller holds
          clock_handler,           \* external: the handler has been entered
          wake,                    \* external: when the loop ends its sleep
          asleep,                  \* external: the processor is halted and the loop sleeps
          phase,                   \* history: a tick the periodic ones are counted from
          checked                  \* history: when timer last found the periodic ones enabled

schedule == <<period, next_interrupt, alarm>>
enables == <<periodic_enabled, rate_set>>
reason == <<flags, irq8, edge>>
loop == <<wake, asleep>>
rtc_vars == <<now, enables, schedule, reason, clock_handler, loop, phase, checked>>

RtcInit ==
    /\ now = Step /\ periodic_enabled = FALSE /\ rate_set = TRUE
    /\ period = CHOOSE p \in Periods : TRUE   \* the rate of cmos_a = 26h
    /\ next_interrupt = 0 /\ alarm = 0 /\ flags = {} /\ irq8 = FALSE /\ edge = FALSE
    /\ clock_handler = FALSE /\ wake = 0 /\ asleep = FALSE /\ phase = 0 /\ checked = 0

periodic_interrupt == periodic_enabled /\ rate_set

-----------------------------------------------------------------------------
(* timer.                                                                  *)

Soonest(S) == CHOOSE t \in S : \A u \in S : t <= u
AtLeast(lower, t) == IF t < lower THEN lower ELSE t

\* Math.ceil(n / d), for n > 0.
CeilDiv(n, d) == (n + d - 1) \div d

\* device_raise_irq(8): an edge only if the line was low.
Raise(why) ==
    /\ flags' = flags \cup {why}
    /\ irq8' = TRUE /\ edge' = (edge \/ ~ irq8)

\* A mutant of NextTick: one period on, however late timer is called.
NextTickOnly(next, time) == next + period

\* The first tick that is not before time.
NextTick(next, time) == next + period * CeilDiv(time - next, period)

\* What timer returns, for these times of the next interrupts.
Sleep(next, alarm_at) ==
    Soonest({MaxSleep}
            \cup (IF periodic_interrupt /\ next # 0 THEN {AtLeast(0, next - now)} ELSE {})
            \cup (IF alarm_at # 0 THEN {AtLeast(0, alarm_at - now)} ELSE {}))

TickDue == periodic_interrupt /\ next_interrupt < now
AlarmDue == alarm # 0 /\ alarm < now

\* A halted processor lets the loop sleep as long as timer says.
Timer ==
    /\ \/ /\ TickDue
          /\ Raise("PF")
          /\ next_interrupt' = NextTick(next_interrupt, now)
          /\ UNCHANGED <<period, alarm>>
       \/ /\ ~ TickDue /\ AlarmDue
          /\ Raise("AF")
          /\ alarm' = 0 /\ UNCHANGED <<period, next_interrupt>>
       \/ ~ TickDue /\ ~ AlarmDue /\ UNCHANGED <<schedule, reason>>
    /\ wake' = now + Sleep(next_interrupt', alarm')
    /\ asleep' \in BOOLEAN
    /\ checked' = IF periodic_interrupt THEN now ELSE checked
    /\ UNCHANGED <<now, enables, clock_handler, phase>>

-----------------------------------------------------------------------------
(* Ports 70h and 71h, which a running guest reads and writes.              *)

\* Register A.
WriteRate ==
    /\ ~ asleep
    /\ rate_set' \in BOOLEAN
    /\ period' \in Periods
    /\ phase' = next_interrupt
    /\ UNCHANGED <<now, periodic_enabled, next_interrupt, alarm, reason, clock_handler, loop, checked>>

\* Register B: the alarm is at a time of this day, gone by or to come.  Clearing
\* its enable leaves the alarm as it is.
WriteEnables ==
    /\ ~ asleep
    /\ periodic_enabled' \in BOOLEAN
    /\ IF periodic_enabled' THEN next_interrupt' = now /\ phase' = now
       ELSE UNCHANGED <<next_interrupt, phase>>
    /\ alarm' \in {alarm} \cup {t \in 1 .. MaxTime : t % Step = 0}
    /\ UNCHANGED <<now, rate_set, period, reason, clock_handler, loop, checked>>

\* Register C: the line is lowered, which may withdraw a request.
ReadReason ==
    /\ flags' = {}
    /\ irq8' = FALSE /\ edge' \in {edge, FALSE}

\* "if register C is not read after an IRQ 8, then the interrupt will not happen
\* again": the handler reads it, and the guest may read it at other times.
ClockInterrupt ==
    /\ edge /\ ~ clock_handler
    /\ clock_handler' = TRUE /\ edge' = FALSE /\ asleep' = FALSE
    /\ UNCHANGED <<now, enables, schedule, flags, irq8, wake, phase, checked>>

ReadRegisterC ==
    /\ ~ asleep
    /\ ReadReason
    /\ clock_handler' = FALSE
    /\ UNCHANGED <<now, enables, schedule, loop, phase, checked>>

-----------------------------------------------------------------------------

\* The clock moves on while the guest runs, and while the loop sleeps until it is
\* time to wake.
ClockMoves ==
    /\ now + Step <= MaxTime
    /\ asleep => now < wake
    /\ now' = now + Step
    /\ UNCHANGED <<enables, schedule, reason, clock_handler, loop, phase, checked>>

\* set_state: everything of this moment, at any later time.
ClockRestored ==
    /\ now' \in {t \in now .. MaxTime : t % Step = 0}
    /\ asleep' = FALSE
    /\ UNCHANGED <<enables, schedule, reason, clock_handler, wake, phase, checked>>

RtcNext ==
    \/ Timer
    \/ WriteRate \/ WriteEnables \/ ReadRegisterC
    \/ ClockInterrupt
    \/ ClockMoves \/ ClockRestored

RtcSpec == RtcInit /\ [][RtcNext]_rtc_vars

-----------------------------------------------------------------------------
(* Properties.                                                             *)

\* No interrupt of the clock is lost: while register C gives a reason, a request
\* for irq 8 is on its way or the handler is about to read.  A line that stays up
\* would be the end of them.
ReasonIsAnnounced == flags # {} => edge \/ clock_handler

\* Periodic interrupts keep their phase however late timer comes: the next one is
\* a whole number of periods after the first, not behind the last call of timer
\* and less than a period ahead of it.
KeepsPhase ==
    periodic_interrupt /\ next_interrupt # phase =>
        /\ (next_interrupt - phase) % period = 0
        /\ next_interrupt \in checked .. checked + period - 1

\* A sleeping loop has nothing to do: what is due while it sleeps is due no
\* earlier than it wakes, or than this step of the clock.
NothingMissed ==
    asleep /\ now < wake =>
        /\ periodic_interrupt => next_interrupt >= now
        /\ alarm # 0 => alarm >= now

\* For every order of the guest's accesses, the calls of timer and the steps of the
\* clock: nothing that is due is lost, early, or slept through.
KeepsTime == ReasonIsAnnounced /\ KeepsPhase /\ NothingMissed

=============================================================================
