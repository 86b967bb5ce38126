------------------------------ MODULE MainLoop ------------------------------
(***************************************************************************)
(* The run loop of main.ts.  The emulator never blocks: it runs the guest  *)
(* for a while (cpu.main_loop), asks the host to be called back (yield)    *)
(* and returns to the event loop, where run, stop and device callbacks may *)
(* come first.  Every yield carries a number, and only the callback of the *)
(* last one counts.                                                        *)
(*                                                                         *)
(* tick_counter only has to differ from the ticks under way, so a new tick *)
(* is any element of Ticks that is not pending.  MaxPending bounds how     *)
(* many callbacks run and stop_idling may leave under way.                 *)
(***************************************************************************)
EXTENDS Integers, FiniteSets

CONSTANTS Ticks,      \* the values of tick_counter
          MaxPending

VARIABLES running, stopping, idle, tick_counter,
          pending,   \* the ticks whose callback the host still owes
          in_loop,   \* cpu.main_loop is on the stack
          halted,    \* external: the guest executed hlt and waits for an interrupt
          alive      \* the host can still be asked for callbacks (not destroyed)

vars == <<running, stopping, idle, tick_counter, pending, in_loop, halted, alive>>

TypeOK ==
    /\ running \in BOOLEAN /\ stopping \in BOOLEAN /\ idle \in BOOLEAN
    /\ in_loop \in BOOLEAN /\ halted \in BOOLEAN /\ alive \in BOOLEAN
    /\ tick_counter \in Ticks
    /\ pending \in SUBSET Ticks

Init == /\ running = FALSE /\ stopping = FALSE /\ idle = TRUE
        /\ tick_counter \in Ticks
        /\ pending = {}
        /\ in_loop = FALSE /\ halted = FALSE /\ alive = TRUE

\* next_tick: every earlier tick becomes stale, and the host is asked for a
\* callback.  Once destroyed there is nobody left to ask.
NextTick(t) ==
    /\ t \notin pending \cup {tick_counter}
    /\ tick_counter' = t
    /\ idle' = TRUE
    /\ pending' = IF alive THEN pending \cup {t} ELSE pending

Room == Cardinality(pending) < MaxPending

Run(t) ==
    /\ Room
    /\ stopping' = FALSE
    /\ running' = TRUE
    /\ NextTick(t)
    /\ UNCHANGED <<in_loop, halted, alive>>

Stop ==
    /\ running
    /\ stopping' = TRUE
    /\ UNCHANGED <<running, idle, tick_counter, pending, in_loop, halted, alive>>

\* yield_callback and do_tick.
DoTick ==
    IF stopping \/ ~ running
    THEN /\ stopping' = FALSE
         /\ running' = FALSE
         /\ UNCHANGED <<idle, in_loop>>
    ELSE /\ idle' = FALSE
         /\ in_loop' = TRUE
         /\ UNCHANGED <<stopping, running>>

Honoured(t) == t = tick_counter

YieldCallback(t) ==
    /\ ~ in_loop
    /\ t \in pending
    /\ pending' = pending \ {t}
    /\ IF Honoured(t) THEN DoTick ELSE UNCHANGED <<running, stopping, idle, in_loop>>
    /\ UNCHANGED <<tick_counter, halted, alive>>

\* main_loop returns, because the guest halted or its time was up.
LoopReturns(t, hlt) ==
    /\ in_loop
    /\ in_loop' = FALSE
    /\ halted' = hlt
    /\ NextTick(t)
    /\ UNCHANGED <<running, stopping, alive>>

\* The stop_idling callback of the CPU: an interrupt ends the guest's hlt, and the
\* guest should not sleep for as long as it had planned.
StopIdling(t) ==
    /\ halted /\ Room
    /\ halted' = FALSE
    /\ IF idle THEN NextTick(t) ELSE UNCHANGED <<idle, tick_counter, pending>>
    /\ UNCHANGED <<running, stopping, in_loop, alive>>

\* A host may drop the callback of a tick that no longer counts.
Forget(t) ==
    /\ t \in pending /\ ~ Honoured(t)
    /\ pending' = pending \ {t}
    /\ UNCHANGED <<running, stopping, idle, tick_counter, in_loop, halted, alive>>

\* destroy: no callback will come.
Destroy ==
    /\ alive
    /\ alive' = FALSE
    /\ pending' = {}
    /\ UNCHANGED <<running, stopping, idle, tick_counter, in_loop, halted>>

Next == \/ Stop
        \/ Destroy
        \/ \E t \in Ticks : \/ Run(t)
                            \/ YieldCallback(t)
                            \/ LoopReturns(t, TRUE)
                            \/ LoopReturns(t, FALSE)
                            \/ StopIdling(t)
                            \/ Forget(t)

Spec == Init /\ [][Next]_vars

\* The host makes the callbacks it owes, and main_loop returns: it runs the guest
\* for a limited time.  Nothing makes the user call run, stop or destroy.
Fairness == /\ \A t \in Ticks : WF_vars(YieldCallback(t) \/ Forget(t))
            /\ WF_vars(\E t \in Ticks, hlt \in BOOLEAN : LoopReturns(t, hlt))

FairSpec == Spec /\ Fairness

-----------------------------------------------------------------------------
\* The emulation cannot freeze: outside main_loop the callback that counts is
\* always under way while the emulator runs, whatever run, stop and stop_idling
\* have superseded.
LiveTick == running /\ ~ in_loop /\ alive => tick_counter \in pending

\* stop takes effect, unless run takes it back or the emulator is destroyed.
StopTakesEffect == stopping ~> ~ stopping \/ ~ alive

\* A running guest is given the processor again and again, unless run is called
\* again and again: each call makes the callback under way a stale one.
GuestRuns == <>[][\A t \in Ticks : ~ Run(t)]_vars
                 => (running ~> in_loop \/ ~ running \/ ~ alive)

=============================================================================
