----------------------------- MODULE WorkerYield -----------------------------
(***************************************************************************)
(* yield in a browser: main.ts asks a worker for its callbacks.  Messages  *)
(* to the worker and back arrive in order; the worker owns one timer, and  *)
(* clears it whenever a message arrives.  This implements the callbacks of *)
(* MainLoop: the worker never clears the timer of the tick that counts.    *)
(***************************************************************************)
EXTENDS Integers, Sequences, FiniteSets

CONSTANTS Ticks, MaxPending, None

ASSUME NoneAssumption == None \notin Ticks

VARIABLES running, stopping, idle, tick_counter, in_loop, halted,
          worker,    \* there is a worker: register_yield was called, destroy was not
          to_worker, \* messages {t, tick} on their way to the worker
          timeout,   \* the worker: the tick its timer is set for, or None
          to_main    \* ticks on their way back to worker.onmessage

loop == <<running, stopping, in_loop, halted, worker>>
vars == <<running, stopping, idle, tick_counter, in_loop, halted,
          worker, to_worker, timeout, to_main>>

Message == [now : BOOLEAN, tick : Ticks]   \* now: t < 1

Elems(s) == {s[i] : i \in 1 .. Len(s)}

\* The ticks that are under way, wherever they are.
Pending == {m.tick : m \in Elems(to_worker)} \cup Elems(to_main) \cup ({timeout} \ {None})

Init == /\ running = FALSE /\ stopping = FALSE /\ idle = TRUE
        /\ tick_counter \in Ticks
        /\ in_loop = FALSE /\ halted = FALSE /\ worker = TRUE
        /\ to_worker = <<>> /\ timeout = None /\ to_main = <<>>

TypeOK ==
    /\ running \in BOOLEAN /\ stopping \in BOOLEAN /\ idle \in BOOLEAN
    /\ in_loop \in BOOLEAN /\ halted \in BOOLEAN /\ worker \in BOOLEAN
    /\ tick_counter \in Ticks
    /\ to_worker \in Seq(Message)
    /\ timeout \in Ticks \cup {None}
    /\ to_main \in Seq(Ticks)

\* A mutant of NextTick: a new message overtakes those on their way.
NextTickOvertakes(now, t) ==
    /\ t \notin Pending \cup {tick_counter}
    /\ tick_counter' = t /\ idle' = TRUE
    /\ to_worker' = IF worker THEN <<[now |-> now, tick |-> t]>> \o to_worker ELSE to_worker
    /\ UNCHANGED <<timeout, to_main>>

\* next_tick and yield: this.worker.postMessage throws when there is no worker.
NextTick(now, t) ==
    /\ t \notin Pending \cup {tick_counter}
    /\ tick_counter' = t
    /\ idle' = TRUE
    /\ to_worker' = IF worker THEN Append(to_worker, [now |-> now, tick |-> t]) ELSE to_worker
    /\ UNCHANGED <<timeout, to_main>>

Room == Cardinality(Pending) < MaxPending

Run(t) ==
    /\ Room
    /\ stopping' = FALSE /\ running' = TRUE
    /\ NextTick(TRUE, t)
    /\ UNCHANGED <<in_loop, halted, worker>>

Stop ==
    /\ running
    /\ stopping' = TRUE
    /\ UNCHANGED <<running, idle, tick_counter, in_loop, halted, worker, to_worker, timeout, to_main>>

\* A mutant of Later: no timer is set.
LaterNever(m) == None

\* The worker's onmessage: the timer of an earlier message is cleared.
Later(m) == IF m.now THEN None ELSE m.tick

WorkerReceives ==
    /\ to_worker # <<>>
    /\ to_worker' = Tail(to_worker)
    /\ timeout' = Later(Head(to_worker))
    /\ to_main' = IF Head(to_worker).now THEN Append(to_main, Head(to_worker).tick) ELSE to_main
    /\ UNCHANGED <<loop, idle, tick_counter>>

TimerFires ==
    /\ timeout # None
    /\ to_main' = Append(to_main, timeout)
    /\ timeout' = None
    /\ UNCHANGED <<loop, idle, tick_counter, to_worker>>

\* A mutant of Honoured: the comparison is inverted.
HonouredInverted(t) == t # tick_counter

\* worker.onmessage: yield_callback and do_tick.
Honoured(t) == t = tick_counter

YieldCallback ==
    /\ ~ in_loop
    /\ to_main # <<>>
    /\ to_main' = Tail(to_main)
    /\ IF ~ Honoured(Head(to_main))
       THEN UNCHANGED <<running, stopping, idle, in_loop>>
       ELSE IF stopping \/ ~ running
            THEN /\ stopping' = FALSE /\ running' = FALSE
                 /\ UNCHANGED <<idle, in_loop>>
            ELSE /\ idle' = FALSE /\ in_loop' = TRUE
                 /\ UNCHANGED <<stopping, running>>
    /\ UNCHANGED <<tick_counter, halted, worker, to_worker, timeout>>

\* main_loop returns the time the guest may sleep.
LoopReturns(now, t, hlt) ==
    /\ in_loop
    /\ in_loop' = FALSE
    /\ halted' = hlt
    /\ NextTick(now, t)
    /\ UNCHANGED <<running, stopping, worker>>

StopIdling(t) ==
    /\ halted /\ Room
    /\ halted' = FALSE
    /\ IF idle THEN NextTick(TRUE, t)
       ELSE UNCHANGED <<idle, tick_counter, to_worker, timeout, to_main>>
    /\ UNCHANGED <<running, stopping, in_loop, worker>>

\* unregister_yield terminates the worker; what it has sent is not delivered.
Destroy ==
    /\ worker
    /\ worker' = FALSE
    /\ to_worker' = <<>> /\ timeout' = None /\ to_main' = <<>>
    /\ UNCHANGED <<running, stopping, idle, tick_counter, in_loop, halted>>

Next == \/ Stop \/ WorkerReceives \/ TimerFires \/ YieldCallback \/ Destroy
        \/ \E t \in Ticks : \/ Run(t)
                            \/ StopIdling(t)
                            \/ \E now, hlt \in BOOLEAN : LoopReturns(now, t, hlt)

Spec == Init /\ [][Next]_vars

\* Messages arrive, timers fire and main_loop returns.
Fairness == /\ WF_vars(WorkerReceives)
            /\ WF_vars(TimerFires)
            /\ WF_vars(YieldCallback)
            /\ WF_vars(\E t \in Ticks, now, hlt \in BOOLEAN : LoopReturns(now, t, hlt))

FairSpec == Spec /\ Fairness

-----------------------------------------------------------------------------
\* What is under way is under way once, and the newest message is the tick that
\* counts: this is why the timer a message clears is always a stale one.
Distinct ==
    /\ \A i, j \in 1 .. Len(to_worker) : to_worker[i].tick = to_worker[j].tick => i = j
    /\ \A i, j \in 1 .. Len(to_main) : to_main[i] = to_main[j] => i = j
    /\ \A i \in 1 .. Len(to_worker) : to_worker[i].tick # timeout
    /\ \A j \in 1 .. Len(to_main) : to_main[j] # timeout
    /\ \A i \in 1 .. Len(to_worker), j \in 1 .. Len(to_main) : to_worker[i].tick # to_main[j]

NewestCounts == to_worker # <<>> => to_worker[Len(to_worker)].tick = tick_counter

\* A terminated worker owes nothing.
Silent == ~ worker => to_worker = <<>> /\ timeout = None /\ to_main = <<>>

\* The worker provides the callbacks that MainLoop relies on: every step is one
\* of its steps, the tick that counts is never lost, and stop and the guest
\* make the progress MainLoop promises.
ML == INSTANCE MainLoop WITH pending <- Pending, alive <- worker
RefinesMainLoop == ML!Spec
LiveTick == ML!LiveTick
StopTakesEffect == ML!StopTakesEffect
GuestRuns == ML!GuestRuns

=============================================================================
