-------------------------- MODULE WorkerYieldProofs --------------------------
(***************************************************************************)
(* Proofs about WorkerYield, for any set of tick numbers and any number of *)
(* callbacks under way.                                                    *)
(***************************************************************************)
EXTENDS WorkerYield, TLAPS

\* The ticks under way are the ones in the two queues and the one of the timer.
LEMMA PendingMembers ==
    ASSUME TypeOK, NEW t
    PROVE  t \in Pending <=>
              (\/ \E i \in 1 .. Len(to_worker) : to_worker[i].tick = t
               \/ \E j \in 1 .. Len(to_main) : to_main[j] = t
               \/ (t = timeout /\ t # None))
BY DEF Pending, Elems

LEMMA AppendProperties ==
    ASSUME NEW S, NEW s \in Seq(S), NEW e \in S
    PROVE  /\ Append(s, e) \in Seq(S)
           /\ Len(Append(s, e)) = Len(s) + 1
           /\ Append(s, e)[Len(s) + 1] = e
           /\ \A i \in 1 .. Len(s) : Append(s, e)[i] = s[i]
OBVIOUS

LEMMA TailProperties ==
    ASSUME NEW S, NEW s \in Seq(S), s # <<>>
    PROVE  /\ Tail(s) \in Seq(S)
           /\ Head(s) = s[1] /\ Head(s) \in S
           /\ Len(s) \in Nat \ {0}
           /\ Len(Tail(s)) = Len(s) - 1
           /\ \A i \in 1 .. Len(s) - 1 : Tail(s)[i] = s[i + 1]
OBVIOUS

-----------------------------------------------------------------------------
(* The invariant.  Distinct and NewestCounts need each other: a new tick   *)
(* is a fresh one and goes to the end of the queue.                        *)

Inv == TypeOK /\ Distinct /\ NewestCounts /\ Silent

\* next_tick keeps the invariant, whichever caller it has.
LEMMA NextTickInvariant ==
    ASSUME Inv, NEW now \in BOOLEAN, NEW t \in Ticks, NextTick(now, t), worker' = worker
    PROVE  /\ tick_counter' \in Ticks /\ idle' \in BOOLEAN
           /\ to_worker' \in Seq(Message) /\ timeout' = timeout /\ to_main' = to_main
           /\ Distinct' /\ NewestCounts' /\ Silent'
<1> USE DEF Inv
<1> DEFINE m == [now |-> now, tick |-> t]
<1>1. m \in Message /\ m.tick = t
  BY DEF Message
<1>2. tick_counter' = t /\ idle' = TRUE /\ timeout' = timeout /\ to_main' = to_main
  BY DEF NextTick
<1>3. CASE ~ worker
  <2>1. to_worker' = to_worker /\ to_worker = <<>>
    BY <1>3 DEF NextTick, Silent
  <2> QED BY <1>2, <1>3, <2>1 DEF TypeOK, Distinct, NewestCounts, Silent
<1>4. CASE worker
  <2> HIDE DEF m
  <2>1. to_worker' = Append(to_worker, m)
    BY <1>4 DEF NextTick, m
  <2>2. /\ to_worker' \in Seq(Message)
        /\ Len(to_worker') = Len(to_worker) + 1 /\ Len(to_worker) \in Nat
        /\ to_worker'[Len(to_worker) + 1] = m
        /\ \A i \in 1 .. Len(to_worker) : to_worker'[i] = to_worker[i]
    BY <1>1, <2>1, AppendProperties DEF TypeOK
  <2>3. t \notin Pending
    BY DEF NextTick
  <2>4. /\ \A i \in 1 .. Len(to_worker) : to_worker[i].tick # t
        /\ \A j \in 1 .. Len(to_main) : to_main[j] # t
        /\ t # timeout
    BY <2>3, PendingMembers, NoneAssumption
  <2>5. Distinct'
    <3>1. \A i \in 1 .. Len(to_worker') :
             \/ i \in 1 .. Len(to_worker) /\ to_worker'[i] = to_worker[i]
             \/ i = Len(to_worker) + 1 /\ to_worker'[i].tick = t
      BY <1>1, <2>2
    <3> QED BY <1>2, <2>4, <3>1 DEF Distinct
  <2>6. NewestCounts'
    BY <1>1, <1>2, <2>2 DEF NewestCounts
  <2> QED BY <1>2, <1>4, <2>2, <2>5, <2>6 DEF Silent, TypeOK
<1> QED BY <1>3, <1>4

\* Every message carries a tick, and None is not one.
LEMMA MessagesCarryTicks ==
    ASSUME TypeOK
    PROVE  \A i \in 1 .. Len(to_worker) :
              to_worker[i].tick \in Ticks /\ to_worker[i].tick # None
<1>1. \A i \in 1 .. Len(to_worker) : to_worker[i] \in Message
  BY DEF TypeOK
<1> QED BY <1>1, NoneAssumption DEF Message

\* Nothing is under way when both queues are empty and no timer is set.
LEMMA NothingUnderWay ==
    ASSUME to_worker = <<>>, timeout = None, to_main = <<>>
    PROVE  /\ to_worker \in Seq(Message) /\ to_main \in Seq(Ticks)
           /\ timeout \in Ticks \cup {None}
           /\ Distinct
<1>1. Len(to_worker) = 0 /\ Len(to_main) = 0 /\ 1 .. 0 = {}
  OBVIOUS
<1> QED BY <1>1 DEF Distinct

LEMMA Invariance == Spec => []Inv
<1>1. Init => Inv
  <2> SUFFICES ASSUME Init PROVE Inv
    OBVIOUS
  <2> QED BY NothingUnderWay DEF Init, Inv, TypeOK, NewestCounts, Silent
<1>2. Inv /\ [Next]_vars => Inv'
  <2> SUFFICES ASSUME Inv, [Next]_vars PROVE Inv'
    OBVIOUS
  <2>1. ASSUME NEW t \in Ticks, Run(t) PROVE Inv'
    BY <2>1, NextTickInvariant DEF Run, Inv, TypeOK
  <2>2. ASSUME NEW t \in Ticks, StopIdling(t) PROVE Inv'
    <3>1. CASE idle
      BY <2>2, <3>1, NextTickInvariant DEF StopIdling, Inv, TypeOK
    <3>2. CASE ~ idle
      BY <2>2, <3>2 DEF StopIdling, Inv, TypeOK, Distinct, NewestCounts, Silent
    <3> QED BY <3>1, <3>2
  <2>3. ASSUME NEW t \in Ticks, NEW now \in BOOLEAN, NEW hlt \in BOOLEAN,
               LoopReturns(now, t, hlt)
        PROVE  Inv'
    BY <2>3, NextTickInvariant DEF LoopReturns, Inv, TypeOK
  <2>4. ASSUME WorkerReceives PROVE Inv'
    <3> DEFINE h == Head(to_worker)
    <3>0. h = to_worker[1] /\ h \in Message /\ to_worker # <<>>
      BY <2>4, TailProperties DEF WorkerReceives, Inv, TypeOK
    <3>1. /\ h = to_worker[1] /\ h.now \in BOOLEAN /\ h.tick \in Ticks /\ to_worker # <<>>
          /\ to_worker' \in Seq(Message) /\ Len(to_worker) \in Nat \ {0}
          /\ Len(to_worker') = Len(to_worker) - 1
          /\ \A i \in 1 .. Len(to_worker') : to_worker'[i] = to_worker[i + 1]
      <4>1. h.now \in BOOLEAN /\ h.tick \in Ticks
        BY <3>0 DEF Message
      <4> QED BY <2>4, <3>0, <4>1, TailProperties DEF WorkerReceives, Inv, TypeOK
    <3>2. UNCHANGED <<running, stopping, in_loop, halted, worker, idle, tick_counter>>
      BY <2>4 DEF WorkerReceives, loop
    <3>3. CASE h.now
      <4>1. timeout' = None /\ to_main' = Append(to_main, h.tick)
        BY <2>4, <3>3 DEF WorkerReceives, Later
      <4>2. /\ to_main' \in Seq(Ticks) /\ Len(to_main) \in Nat
            /\ Len(to_main') = Len(to_main) + 1
            /\ to_main'[Len(to_main) + 1] = h.tick
            /\ \A j \in 1 .. Len(to_main) : to_main'[j] = to_main[j]
        BY <3>1, <4>1, AppendProperties DEF Inv, TypeOK
      <4>3. Distinct'
        <5>1. \A j \in 1 .. Len(to_main') :
                 \/ j \in 1 .. Len(to_main) /\ to_main'[j] = to_main[j]
                 \/ j = Len(to_main) + 1 /\ to_main'[j] = to_worker[1].tick
          BY <3>1, <4>2
        <5>2. \A i \in 1 .. Len(to_worker') :
                 i + 1 \in 1 .. Len(to_worker) /\ i + 1 # 1 /\ 1 \in 1 .. Len(to_worker)
          BY <3>1
        <5>3. \A i, j \in 1 .. Len(to_worker') : to_worker'[i].tick = to_worker'[j].tick => i = j
          BY <3>1, <5>2 DEF Inv, Distinct
        <5>4. \A i, j \in 1 .. Len(to_main') : to_main'[i] = to_main'[j] => i = j
          BY <3>1, <4>2, <5>1 DEF Inv, Distinct
        <5>5. \A i \in 1 .. Len(to_worker'), j \in 1 .. Len(to_main') :
                 to_worker'[i].tick # to_main'[j]
          <6> SUFFICES ASSUME NEW i \in 1 .. Len(to_worker'), NEW j \in 1 .. Len(to_main')
                       PROVE  to_worker'[i].tick # to_main'[j]
            OBVIOUS
          <6>1. to_worker'[i] = to_worker[i + 1] /\ i + 1 \in 1 .. Len(to_worker)
            BY <3>1, <5>2
          <6>2. CASE j \in 1 .. Len(to_main) /\ to_main'[j] = to_main[j]
            BY <6>1, <6>2 DEF Inv, Distinct
          <6>3. CASE to_main'[j] = to_worker[1].tick
            BY <5>2, <6>1, <6>3 DEF Inv, Distinct
          <6> QED
            BY <5>1, <6>2, <6>3
        <5>6. \A i \in 1 .. Len(to_worker') : to_worker'[i].tick # timeout'
          BY <3>1, <4>1, <5>2, MessagesCarryTicks DEF Inv
        <5>7. \A j \in 1 .. Len(to_main') : to_main'[j] # timeout'
          BY <4>1, <4>2, NoneAssumption
        <5> QED BY <5>3, <5>4, <5>5, <5>6, <5>7 DEF Distinct
      <4> QED BY <3>1, <3>2, <4>1, <4>2, <4>3 DEF Inv, TypeOK, NewestCounts, Silent
    <3>4. CASE ~ h.now
      <4>1. timeout' = to_worker[1].tick /\ to_main' = to_main
        BY <2>4, <3>1, <3>4 DEF WorkerReceives, Later
      <4>2. \A i \in 1 .. Len(to_worker') :
               i + 1 \in 1 .. Len(to_worker) /\ i + 1 # 1 /\ 1 \in 1 .. Len(to_worker)
        BY <3>1
      <4>3. Distinct'
        <5>1. \A i \in 1 .. Len(to_worker') : to_worker'[i].tick # timeout'
          BY <3>1, <4>1, <4>2 DEF Inv, Distinct
        <5>2. \A j \in 1 .. Len(to_main') : to_main'[j] # timeout'
          BY <3>1, <4>1 DEF Inv, Distinct
        <5>3. \A i, j \in 1 .. Len(to_worker') : to_worker'[i].tick = to_worker'[j].tick => i = j
          BY <3>1, <4>2 DEF Inv, Distinct
        <5>4. \A i \in 1 .. Len(to_worker'), j \in 1 .. Len(to_main') :
                 to_worker'[i].tick # to_main'[j]
          BY <3>1, <4>1, <4>2 DEF Inv, Distinct
        <5> QED BY <4>1, <5>1, <5>2, <5>3, <5>4 DEF Inv, Distinct
      <4> QED BY <3>1, <3>2, <4>1, <4>3 DEF Inv, TypeOK, NewestCounts, Silent
    <3> QED BY <3>3, <3>4, <3>1
  <2>5. ASSUME TimerFires PROVE Inv'
    <3>1. /\ timeout \in Ticks /\ timeout' = None /\ to_worker' = to_worker
          /\ UNCHANGED <<running, stopping, in_loop, halted, worker, idle, tick_counter>>
      BY <2>5 DEF TimerFires, loop, Inv, TypeOK
    <3>2. /\ to_main' \in Seq(Ticks) /\ Len(to_main) \in Nat
          /\ Len(to_main') = Len(to_main) + 1
          /\ to_main'[Len(to_main) + 1] = timeout
          /\ \A j \in 1 .. Len(to_main) : to_main'[j] = to_main[j]
      BY <2>5, <3>1, AppendProperties DEF TimerFires, Inv, TypeOK
    <3>3. \A j \in 1 .. Len(to_main') :
             \/ j \in 1 .. Len(to_main) /\ to_main'[j] = to_main[j]
             \/ j = Len(to_main) + 1 /\ to_main'[j] = timeout
      BY <3>2
    <3>4. /\ \A i, j \in 1 .. Len(to_main') : to_main'[i] = to_main'[j] => i = j
          /\ \A i \in 1 .. Len(to_worker'), j \in 1 .. Len(to_main') :
                to_worker'[i].tick # to_main'[j]
      BY <3>1, <3>2, <3>3 DEF Inv, Distinct
    <3>5. /\ \A j \in 1 .. Len(to_main') : to_main'[j] # timeout'
          /\ \A i \in 1 .. Len(to_worker') : to_worker'[i].tick # timeout'
      BY <3>1, <3>2, NoneAssumption, MessagesCarryTicks DEF Inv
    <3>6. Distinct'
      BY <3>1, <3>4, <3>5 DEF Inv, Distinct
    <3>7. Silent'
      BY <3>1, NoneAssumption DEF Inv, Silent
    <3> QED BY <3>1, <3>2, <3>6, <3>7 DEF Inv, TypeOK, NewestCounts
  <2>6. ASSUME YieldCallback PROVE Inv'
    <3>1. /\ to_main' \in Seq(Ticks) /\ Len(to_main) \in Nat \ {0}
          /\ Len(to_main') = Len(to_main) - 1
          /\ \A j \in 1 .. Len(to_main') : to_main'[j] = to_main[j + 1]
      BY <2>6, TailProperties DEF YieldCallback, Inv, TypeOK
    <3>2. UNCHANGED <<tick_counter, halted, worker, to_worker, timeout>>
      BY <2>6 DEF YieldCallback
    <3>3. /\ running' \in BOOLEAN /\ stopping' \in BOOLEAN
          /\ idle' \in BOOLEAN /\ in_loop' \in BOOLEAN
      BY <2>6 DEF YieldCallback, Inv, TypeOK
    <3>4. Distinct'
      <4>1. \A j \in 1 .. Len(to_main') : j + 1 \in 1 .. Len(to_main) /\ to_main'[j] = to_main[j + 1]
        BY <3>1
      <4>2. \A i, j \in 1 .. Len(to_main') : to_main'[i] = to_main'[j] => i = j
        <5> SUFFICES ASSUME NEW i \in 1 .. Len(to_main'), NEW j \in 1 .. Len(to_main'),
                            to_main'[i] = to_main'[j]
                     PROVE  i = j
          OBVIOUS
        <5>1. to_main[i + 1] = to_main[j + 1] /\ i + 1 \in 1 .. Len(to_main) /\ j + 1 \in 1 .. Len(to_main)
          BY <4>1
        <5>2. i + 1 = j + 1
          BY <5>1 DEF Inv, Distinct
        <5> QED BY <5>2
      <4>3. \A j \in 1 .. Len(to_main') : to_main'[j] # timeout'
        BY <3>2, <4>1 DEF Inv, Distinct
      <4>4. \A i \in 1 .. Len(to_worker'), j \in 1 .. Len(to_main') :
               to_worker'[i].tick # to_main'[j]
        BY <3>2, <4>1 DEF Inv, Distinct
      <4> QED BY <3>2, <4>2, <4>3, <4>4 DEF Inv, Distinct
    <3>5. Silent'
      BY <2>6, <3>2 DEF YieldCallback, Inv, Silent
    <3> QED BY <3>1, <3>2, <3>3, <3>4, <3>5 DEF Inv, TypeOK, NewestCounts
  <2>7. ASSUME Destroy PROVE Inv'
    <3>1. /\ to_worker' \in Seq(Message) /\ to_main' \in Seq(Ticks)
          /\ timeout' \in Ticks \cup {None} /\ Len(to_worker') = 0 /\ Len(to_main') = 0
      BY <2>7 DEF Destroy
    <3>2. Distinct'
      BY <3>1 DEF Distinct
    <3> QED BY <2>7, <3>1, <3>2 DEF Destroy, Inv, TypeOK, NewestCounts, Silent
  <2>8. ASSUME Stop \/ UNCHANGED vars PROVE Inv'
    BY <2>8 DEF Stop, vars, Inv, TypeOK, Distinct, NewestCounts, Silent
  <2> QED BY <2>1, <2>2, <2>3, <2>4, <2>5, <2>6, <2>7, <2>8 DEF Next
<1> QED BY <1>1, <1>2, PTL DEF Spec
-----------------------------------------------------------------------------
(* Refinement.                                                             *)

\* The worker is a host that owes MainLoop its callbacks: what a message clears
\* is never the tick that counts.
THEOREM ImplementsMainLoop == Spec => RefinesMainLoop
<1>1. Init => ML!Init
  <2> SUFFICES ASSUME Init PROVE ML!Init
    OBVIOUS
  <2>1. Pending = {}
    <3>1. 1 .. Len(to_worker) = {} /\ 1 .. Len(to_main) = {}
      BY DEF Init
    <3> QED BY <3>1 DEF Init, Pending, Elems
  <2> QED BY <2>1 DEF Init, ML!Init
<1>2. Inv /\ Inv' /\ [Next]_vars => [ML!Next]_ML!vars
  <2> SUFFICES ASSUME Inv, Inv', [Next]_vars PROVE [ML!Next]_ML!vars
    OBVIOUS
  <2>p. \A t : t \in Pending' <=>
           (\/ \E i \in 1 .. Len(to_worker') : to_worker'[i].tick = t
            \/ \E j \in 1 .. Len(to_main') : to_main'[j] = t
            \/ (t = timeout' /\ t # None))
    BY DEF Pending, Elems
  <2>q. \A t : t \in Pending <=>
           (\/ \E i \in 1 .. Len(to_worker) : to_worker[i].tick = t
            \/ \E j \in 1 .. Len(to_main) : to_main[j] = t
            \/ (t = timeout /\ t # None))
    BY PendingMembers DEF Inv
  <2>0. Pending \in SUBSET Ticks
    <3> SUFFICES ASSUME NEW t \in Pending PROVE t \in Ticks
      OBVIOUS
    <3>1. CASE \E i \in 1 .. Len(to_worker) : to_worker[i].tick = t
      BY <3>1, MessagesCarryTicks DEF Inv
    <3>2. CASE \E j \in 1 .. Len(to_main) : to_main[j] = t
      BY <3>2 DEF Inv, TypeOK
    <3>3. CASE t = timeout /\ t # None
      BY <3>3 DEF Inv, TypeOK
    <3> QED
      BY <2>q, <3>1, <3>2, <3>3
  <2>1. ASSUME NEW now \in BOOLEAN, NEW t \in Ticks, NextTick(now, t), worker' = worker
        PROVE  ML!NextTick(t)
    <3>1. CASE worker
      <4> DEFINE m == [now |-> now, tick |-> t]
      <4>1. m \in Message /\ m.tick = t
        BY DEF Message
      <4> HIDE DEF m
      <4>2. to_worker' = Append(to_worker, m) /\ timeout' = timeout /\ to_main' = to_main
        BY <2>1, <3>1 DEF NextTick, m
      <4>3. /\ Len(to_worker') = Len(to_worker) + 1 /\ Len(to_worker) \in Nat
            /\ to_worker'[Len(to_worker) + 1] = m
            /\ \A i \in 1 .. Len(to_worker) : to_worker'[i] = to_worker[i]
        BY <4>1, <4>2, AppendProperties DEF Inv, TypeOK
      <4>4. \A u : (\E i \in 1 .. Len(to_worker') : to_worker'[i].tick = u)
                      <=> (u = t \/ \E i \in 1 .. Len(to_worker) : to_worker[i].tick = u)
        BY <4>1, <4>3
      <4>5. Pending' = Pending \cup {t}
        <5>1. \A u : u \in Pending' <=> (u \in Pending \/ u = t)
          BY <2>p, <2>q, <4>2, <4>4
        <5> QED BY <5>1
      <4> QED BY <2>1, <3>1, <4>5 DEF NextTick, ML!NextTick
    <3>2. CASE ~ worker
      <4>1. Pending' = Pending
        BY <2>1, <3>2 DEF NextTick, Pending
      <4> QED BY <2>1, <3>2, <4>1 DEF NextTick, ML!NextTick
    <3> QED BY <3>1, <3>2
  <2>2. ASSUME NEW t \in Ticks, Run(t) PROVE ML!Next
    <3>1. ML!Run(t)
      BY <2>1, <2>2 DEF Run, ML!Run, Room, ML!Room, Cardinality, ML!Cardinality
    <3> QED BY <3>1 DEF ML!Next
  <2>3. ASSUME NEW t \in Ticks, StopIdling(t) PROVE ML!Next
    <3>1. CASE idle
      <4>1. ML!StopIdling(t)
        BY <2>1, <2>3, <3>1 DEF StopIdling, ML!StopIdling, Room, ML!Room, Cardinality, ML!Cardinality
      <4> QED BY <4>1 DEF ML!Next
    <3>2. CASE ~ idle
      <4>1. ML!StopIdling(t)
        BY <2>3, <3>2 DEF StopIdling, ML!StopIdling, Room, ML!Room, Cardinality, ML!Cardinality, Pending
      <4> QED BY <4>1 DEF ML!Next
    <3> QED BY <3>1, <3>2
  <2>4. ASSUME NEW t \in Ticks, NEW now \in BOOLEAN, NEW hlt \in BOOLEAN,
               LoopReturns(now, t, hlt)
        PROVE  ML!Next
    <3>1. ML!LoopReturns(t, hlt)
      BY <2>1, <2>4 DEF LoopReturns, ML!LoopReturns
    <3> QED BY <3>1 DEF ML!Next
  <2>5. ASSUME WorkerReceives PROVE [ML!Next]_ML!vars
    <3> DEFINE h == Head(to_worker)
    <3>1. /\ h = to_worker[1] /\ h \in Message /\ to_worker # <<>>
          /\ Len(to_worker) \in Nat \ {0}
          /\ Len(to_worker') = Len(to_worker) - 1
          /\ \A i \in 1 .. Len(to_worker') : to_worker'[i] = to_worker[i + 1]
      BY <2>5, TailProperties DEF WorkerReceives, Inv, TypeOK
    <3>2. UNCHANGED <<running, stopping, in_loop, halted, worker, idle, tick_counter>>
      BY <2>5 DEF WorkerReceives, loop
    <3>3. timeout # tick_counter
      BY <3>1 DEF Inv, Distinct, NewestCounts
    <3>4. \A t : (\E i \in 1 .. Len(to_worker) : to_worker[i].tick = t)
                   <=> (t = h.tick \/ \E i \in 1 .. Len(to_worker') : to_worker'[i].tick = t)
      <4>1. \A i \in 1 .. Len(to_worker) :
               i = 1 \/ (i - 1 \in 1 .. Len(to_worker') /\ to_worker'[i - 1] = to_worker[i])
        BY <3>1
      <4>2. \A i \in 1 .. Len(to_worker') : i + 1 \in 1 .. Len(to_worker)
        BY <3>1
      <4>3. 1 \in 1 .. Len(to_worker)
        BY <3>1
      <4> QED BY <3>1, <4>1, <4>2, <4>3
    <3>5. /\ h.tick # timeout /\ h.tick # None
          /\ \A i \in 1 .. Len(to_worker') : to_worker'[i].tick # timeout
          /\ \A j \in 1 .. Len(to_main) : to_main[j] # timeout
      <4>1. 1 \in 1 .. Len(to_worker) /\ \A i \in 1 .. Len(to_worker') : i + 1 \in 1 .. Len(to_worker)
        BY <3>1
      <4> QED BY <3>1, <4>1, MessagesCarryTicks DEF Inv, Distinct
    <3>6. Pending' = Pending \ {timeout}
      <4>1. CASE h.now
        <5>1. timeout' = None /\ to_main' = Append(to_main, h.tick) /\ h.tick \in Ticks
          BY <2>5, <3>1, <4>1 DEF WorkerReceives, Later, Message
        <5>2. /\ Len(to_main) \in Nat /\ Len(to_main') = Len(to_main) + 1
              /\ to_main'[Len(to_main) + 1] = h.tick
              /\ \A j \in 1 .. Len(to_main) : to_main'[j] = to_main[j]
          BY <5>1, AppendProperties DEF Inv, TypeOK
        <5>3. \A t : (\E j \in 1 .. Len(to_main') : to_main'[j] = t)
                       <=> (t = h.tick \/ \E j \in 1 .. Len(to_main) : to_main[j] = t)
          BY <5>2
        <5> QED BY <2>p, <2>q, <3>4, <3>5, <5>1, <5>3
      <4>2. CASE ~ h.now
        <5>1. timeout' = h.tick /\ to_main' = to_main
          BY <2>5, <4>2 DEF WorkerReceives, Later
        <5>2. \A u : u \in Pending' <=> (u \in Pending /\ u # timeout)
          BY <2>p, <2>q, <3>4, <3>5, <5>1
        <5> QED BY <5>2
      <4> QED BY <4>1, <4>2
    <3>7. CASE timeout = None
      <4>1. Pending' = Pending
        BY <2>0, <3>6, <3>7, NoneAssumption
      <4> QED BY <3>2, <4>1 DEF ML!vars
    <3>8. CASE timeout # None
      <4>1. timeout \in Ticks /\ timeout \in Pending
        BY <2>q, <3>8 DEF Inv, TypeOK
      <4>2. ML!Forget(timeout)
        BY <3>2, <3>3, <3>6, <4>1 DEF ML!Forget, ML!Honoured
      <4> QED BY <4>1, <4>2 DEF ML!Next
    <3> QED BY <3>7, <3>8
  <2>6. ASSUME TimerFires PROVE UNCHANGED ML!vars
    <3>1. /\ timeout \in Ticks /\ timeout # None /\ timeout' = None /\ to_worker' = to_worker
          /\ UNCHANGED <<running, stopping, in_loop, halted, worker, idle, tick_counter>>
      BY <2>6 DEF TimerFires, loop, Inv, TypeOK
    <3>2. /\ Len(to_main) \in Nat /\ Len(to_main') = Len(to_main) + 1
          /\ to_main'[Len(to_main) + 1] = timeout
          /\ \A j \in 1 .. Len(to_main) : to_main'[j] = to_main[j]
      BY <2>6, <3>1, AppendProperties DEF TimerFires, Inv, TypeOK
    <3>3. \A t : (\E j \in 1 .. Len(to_main') : to_main'[j] = t)
                   <=> (t = timeout \/ \E j \in 1 .. Len(to_main) : to_main[j] = t)
      BY <3>2
    <3>4. Pending' = Pending
      BY <2>p, <2>q, <3>1, <3>3
    <3> QED BY <3>1, <3>4 DEF ML!vars
  <2>7. ASSUME YieldCallback PROVE ML!Next
    <3> DEFINE h == Head(to_main)
    <3>1. /\ h = to_main[1] /\ h \in Ticks /\ Len(to_main) \in Nat \ {0}
          /\ Len(to_main') = Len(to_main) - 1
          /\ \A j \in 1 .. Len(to_main') : to_main'[j] = to_main[j + 1]
      BY <2>7, TailProperties DEF YieldCallback, Inv, TypeOK
    <3>2. \A t : (\E j \in 1 .. Len(to_main) : to_main[j] = t)
                   <=> (t = h \/ \E j \in 1 .. Len(to_main') : to_main'[j] = t)
      <4>1. \A j \in 1 .. Len(to_main) :
               j = 1 \/ (j - 1 \in 1 .. Len(to_main') /\ to_main'[j - 1] = to_main[j])
        BY <3>1
      <4>2. \A j \in 1 .. Len(to_main') : j + 1 \in 1 .. Len(to_main)
        BY <3>1
      <4>3. 1 \in 1 .. Len(to_main)
        BY <3>1
      <4> QED BY <3>1, <4>1, <4>2, <4>3
    <3>3. /\ h # timeout
          /\ \A i \in 1 .. Len(to_worker) : to_worker[i].tick # h
          /\ \A j \in 1 .. Len(to_main') : to_main'[j] # h
      <4>1. 1 \in 1 .. Len(to_main) /\ \A j \in 1 .. Len(to_main') : j + 1 \in 1 .. Len(to_main) /\ j + 1 # 1
        BY <3>1
      <4> QED BY <3>1, <4>1 DEF Inv, Distinct
    <3>4. UNCHANGED <<tick_counter, halted, worker, to_worker, timeout>>
      BY <2>7 DEF YieldCallback
    <3>5. Pending' = Pending \ {h} /\ h \in Pending
      <4>1. \A u : u \in Pending' <=> (u \in Pending /\ u # h)
        BY <2>p, <2>q, <3>1, <3>2, <3>3, <3>4
      <4> QED BY <2>q, <3>1, <3>2, <4>1
    <3> HIDE DEF h
    <3>6. ML!YieldCallback(h)
      BY <2>7, <3>4, <3>5
         DEF YieldCallback, Honoured, ML!YieldCallback, ML!Honoured, ML!DoTick, h
    <3> QED BY <3>1, <3>6 DEF ML!Next
  <2>8. ASSUME Destroy PROVE ML!Next
    <3>1. Len(to_worker') = 0 /\ Len(to_main') = 0 /\ timeout' = None /\ 1 .. 0 = {}
      BY <2>8 DEF Destroy
    <3>2. Pending' = {}
      BY <2>p, <3>1
    <3> QED BY <2>8, <3>2 DEF Destroy, ML!Destroy, ML!Next
  <2>9. ASSUME Stop PROVE ML!Next
    BY <2>9 DEF Stop, ML!Stop, ML!Next, Pending
  <2>10. ASSUME UNCHANGED vars PROVE UNCHANGED ML!vars
    BY <2>10 DEF vars, ML!vars, Pending
  <2> QED BY <2>2, <2>3, <2>4, <2>5, <2>6, <2>7, <2>8, <2>9, <2>10 DEF Next
<1> QED BY <1>1, <1>2, Invariance, PTL DEF Spec, RefinesMainLoop, ML!Spec

-----------------------------------------------------------------------------
\* While the emulator runs the callback that counts is under way, in one of the
\* queues or in the worker's timer: the emulation cannot freeze.
THEOREM TickNeverLost == Spec => []LiveTick
<1>1. ML!Init => LiveTick
  BY DEF ML!Init, LiveTick, ML!LiveTick
<1>2. TypeOK /\ TypeOK' /\ LiveTick /\ [ML!Next]_ML!vars => LiveTick'
  <2> USE DEF LiveTick, ML!LiveTick, TypeOK
  <2> SUFFICES ASSUME TypeOK, TypeOK', LiveTick, [ML!Next]_ML!vars PROVE LiveTick'
    OBVIOUS
  <2>1. ASSUME NEW t \in Ticks, ML!YieldCallback(t) \/ ML!Forget(t) PROVE LiveTick'
    BY <2>1 DEF ML!YieldCallback, ML!Forget, ML!DoTick, ML!Honoured
  <2>2. ASSUME NEW t \in Ticks, ML!NextTick(t), worker' = worker PROVE LiveTick'
    BY <2>2 DEF ML!NextTick
  <2>3. ASSUME NEW t \in Ticks, NEW hlt \in BOOLEAN,
               ML!Run(t) \/ ML!LoopReturns(t, hlt)
        PROVE  LiveTick'
    BY <2>2, <2>3 DEF ML!Run, ML!LoopReturns
  <2>4. ASSUME NEW t \in Ticks, ML!StopIdling(t) PROVE LiveTick'
    <3>1. CASE idle
      BY <2>2, <2>4, <3>1 DEF ML!StopIdling
    <3>2. CASE ~ idle
      BY <2>4, <3>2 DEF ML!StopIdling
    <3> QED BY <3>1, <3>2
  <2>5. CASE ML!Stop
    BY <2>5 DEF ML!Stop
  <2>6. CASE ML!Destroy
    BY <2>6 DEF ML!Destroy
  <2>7. CASE UNCHANGED ML!vars
    BY <2>7 DEF ML!vars
  <2> QED BY <2>1, <2>3, <2>4, <2>5, <2>6, <2>7 DEF ML!Next
<1>3. Inv => TypeOK
  BY DEF Inv
<1> QED BY <1>1, <1>2, <1>3, Invariance, ImplementsMainLoop, PTL DEF RefinesMainLoop, ML!Spec
=============================================================================
