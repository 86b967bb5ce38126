-------------------------- MODULE InterruptsProofs --------------------------
(***************************************************************************)
(* Theorems about Interrupts, for any pins, vectors, priorities and depth  *)
(* of nested handlers.                                                     *)
(***************************************************************************)
EXTENDS Interrupts, TLAPS

-----------------------------------------------------------------------------
(* The inductive invariant, in the parts that actions disturb separately.  *)

\* The I/O APIC on its own: irr follows the lines of level triggered pins and
\* nothing else, and a request of an unmasked pin has been sent.
PinsMatch ==
    \A i \in Pins :
        /\ pending[i] <=> config[i].level /\ line[i]
        /\ pending[i] /\ ~ config[i].masked => config[i].remote
        /\ config[i].remote => config[i].level
        /\ config[i].level => config[i].vector \in LevelVectors
        /\ ~ config[i].masked \/ config[i].level => config[i].vector # NoVector
        /\ ~ config[i].level => config[i].vector \in EdgeVectors \cup {NoVector}

\* Between the two: what is held back is under way.
HeldIsActive == \A i \in Pins : config[i].remote => config[i].vector \in irr \cup isr

\* The local APIC on its own: level vectors are marked.
LevelMarked == (irr \cup isr) \cap LevelVectors \subseteq tmr

Inv == TypeOK /\ PinsMatch /\ HeldIsActive /\ LevelMarked

\* deliver, of a vector in the mode the guest uses it in.
LEMMA DeliverInv ==
    ASSUME TypeOK, LevelMarked, NEW v \in Vectors, NEW b \in BOOLEAN,
           b <=> v \in LevelVectors, Deliver(v, b)
    PROVE  /\ irr' \in SUBSET Vectors /\ isr' = isr /\ tmr' \in SUBSET Vectors
           /\ tpr' = tpr /\ looking' \in BOOLEAN
           /\ LevelMarked' /\ v \in irr' /\ irr \subseteq irr'
<1>1. CASE v \in irr
  BY <1>1 DEF Deliver, TypeOK, LevelMarked
<1>2. CASE v \notin irr
  <2>1. irr' = irr \cup {v} /\ isr' = isr /\ tpr' = tpr
    BY <1>2 DEF Deliver
  <2>2. tmr' = IF b THEN tmr \cup {v} ELSE tmr \ {v}
    BY <1>2 DEF Deliver, ModeAfter
  <2>3. looking' \in BOOLEAN
    BY <1>2 DEF Deliver, CheckVector
  <2> QED
    BY <2>1, <2>2, <2>3 DEF TypeOK, LevelMarked
<1> QED
  BY <1>1, <1>2

\* An entry the guest may write, and the irr bit that goes with it.
Fits(c, p, high) ==
    /\ c \in Entries
    /\ p \in BOOLEAN
    /\ c.remote => c.level
    /\ c.level => c.vector \in LevelVectors
    /\ ~ c.masked \/ c.level => c.vector # NoVector
    /\ ~ c.level => c.vector \in EdgeVectors \cup {NoVector}
    /\ c.level => (p <=> high)
    /\ ~ c.level /\ c.masked => ~ p

\* check_irq keeps everything, whoever calls it.
LEMMA CheckIrqInv ==
    ASSUME Inv, NEW i \in Pins, NEW c, NEW p, NEW high \in BOOLEAN,
           line' = [line EXCEPT ![i] = high],
           Fits(c, p, high), c.remote => c.vector \in irr \cup isr,
           CheckIrq(i, c, p), interrupts' = interrupts, handlers' = handlers
    PROVE  Inv'
<1> DEFINE q == p /\ c.level
           r == IF p /\ ~ c.masked /\ c.level THEN [c EXCEPT !.remote = TRUE] ELSE c
<1>1. c.vector \in Vectors \cup {NoVector} /\ (~ c.masked => c.vector \in Vectors)
  BY DEF Fits, Entries, Vectors
<1>2. /\ config' = [config EXCEPT ![i] = r] /\ pending' = [pending EXCEPT ![i] = q]
      /\ r \in Entries /\ q \in BOOLEAN
      /\ r.vector = c.vector /\ r.level = c.level /\ r.masked = c.masked
      /\ r.remote <=> (c.remote \/ (p /\ ~ c.masked /\ c.level))
  BY DEF CheckIrq, Entry, Fits, Entries
<1> HIDE DEF q, r
<1>3. /\ irr' \in SUBSET Vectors /\ isr' = isr /\ tmr' \in SUBSET Vectors /\ tpr' = tpr
      /\ looking' \in BOOLEAN /\ LevelMarked' /\ irr \subseteq irr'
      /\ p /\ ~ c.masked /\ c.level /\ ~ c.remote => c.vector \in irr'
  <2>1. CASE NoDelivery /\ (~ p \/ c.masked \/ c.remote)
    BY <2>1 DEF NoDelivery, apic, Inv, TypeOK, LevelMarked
  <2>2. CASE p /\ ~ c.masked /\ Deliver(c.vector, c.level)
    <3>1. c.level \in BOOLEAN /\ (c.level <=> c.vector \in LevelVectors)
      BY <2>2, VectorAssumption DEF Fits, Entries, NoVector
    <3> QED
      BY <2>2, <3>1, <1>1, DeliverInv DEF Inv
  <2>3. c.level \in BOOLEAN
    BY DEF Fits, Entries
  <2> QED
    BY <2>1, <2>2, <2>3 DEF CheckIrq
<1>4. TypeOK'
  BY <1>2, <1>3 DEF Inv, TypeOK
<1>5. PinsMatch'
  <2> SUFFICES ASSUME NEW j \in Pins
               PROVE  PinsMatch!(j)'
    BY DEF PinsMatch
  <2>1. CASE j = i
    BY <2>1, <1>2 DEF Fits, Inv, TypeOK, q
  <2>2. CASE j # i
    BY <2>2, <1>2 DEF PinsMatch, Inv, TypeOK
  <2> QED
    BY <2>1, <2>2
<1>6. HeldIsActive'
  <2> SUFFICES ASSUME NEW j \in Pins, config'[j].remote
               PROVE  config'[j].vector \in irr' \cup isr'
    BY DEF HeldIsActive
  <2>1. CASE j = i
    BY <2>1, <1>2, <1>3 DEF Inv, TypeOK
  <2>2. CASE j # i
    BY <2>2, <1>2, <1>3 DEF HeldIsActive, Inv, TypeOK
  <2> QED
    BY <2>1, <2>2
<1> QED
  BY <1>3, <1>4, <1>5, <1>6 DEF Inv

\* remote_eoi: only the pins of the vector that has ended change.
LEMMA EoiInv ==
    ASSUME Inv, Eoi
    PROVE  Inv'
<1>1. PICK v \in isr :
        /\ Highest(isr, v)
        /\ isr' = isr \ {v}
        /\ IF v \in tmr THEN RemoteEoi(v) ELSE UNCHANGED <<config, pending, irr, tmr>>
  BY DEF Eoi
<1>2. /\ line' = line /\ tpr' = tpr /\ interrupts' = interrupts /\ looking' \in BOOLEAN
      /\ isr' \in SUBSET Vectors /\ v \in Vectors
      /\ handlers' \in Seq(Vectors)
  <2>1. handlers' \in Seq(Vectors)
    BY DEF Eoi, Inv, TypeOK
  <2> QED
    BY <1>1, <2>1 DEF Eoi, CheckVector, Inv, TypeOK
<1>3. CASE v \notin tmr
  <2>1. UNCHANGED <<config, pending, irr, tmr>>
    BY <1>1, <1>3
  <2>2. v \notin LevelVectors
    BY <1>1, <1>3, <1>2 DEF Inv, LevelMarked
  <2>3. \A i \in Pins : config[i].remote => config[i].vector # v
    BY <2>2 DEF Inv, PinsMatch
  <2>4. TypeOK' /\ PinsMatch'
    BY <1>2, <2>1 DEF Inv, TypeOK, PinsMatch
  <2>5. HeldIsActive' /\ LevelMarked'
    BY <1>1, <2>1, <2>3 DEF Inv, HeldIsActive, LevelMarked
  <2> QED
    BY <2>4, <2>5 DEF Inv
<1>4. CASE v \in tmr
  <2> DEFINE again == Again(v)
             rem(i) == IF i \in Held(v) THEN i \in again /\ config[i].level ELSE config[i].remote
  <2>1. /\ config' = [i \in Pins |-> [config[i] EXCEPT !.remote = rem(i)]]
        /\ pending' = [i \in Pins |-> pending[i] /\ (i \in again => config[i].level)]
        /\ irr' = IF again = {} THEN irr ELSE irr \cup {v}
        /\ \/ tmr' = tmr
           \/ \E i \in again : tmr' = ModeAfter(v, config[i].level)
    BY <1>1, <1>4 DEF RemoteEoi
  <2>2. \A i \in again : /\ i \in Pins /\ config[i].vector = v /\ config[i].remote
                         /\ pending[i] /\ ~ config[i].masked /\ config[i].level
    BY DEF Again, Held, Inv, PinsMatch
  <2>3. tmr' = tmr
    <3>1. ASSUME NEW i \in again, tmr' = ModeAfter(v, config[i].level) PROVE tmr' = tmr
      BY <3>1, <2>2, <1>4 DEF ModeAfter, Inv, TypeOK, Entries
    <3> QED
      BY <2>1, <3>1
  <2>4. ASSUME NEW i \in Pins
        PROVE  /\ config'[i] \in Entries
               /\ config'[i].vector = config[i].vector
               /\ config'[i].level = config[i].level
               /\ config'[i].masked = config[i].masked
               /\ config'[i].remote = rem(i)
               /\ pending'[i] = pending[i]
    <3>1. config'[i] = [config[i] EXCEPT !.remote = rem(i)] /\ config[i] \in Entries
      BY <2>1 DEF Inv, TypeOK
    <3>2. rem(i) \in BOOLEAN
      BY <3>1 DEF Entries
    <3>3. pending'[i] = pending[i]
      BY <2>1, <2>2 DEF Inv, TypeOK
    <3> HIDE DEF rem
    <3> QED
      BY <3>1, <3>2, <3>3 DEF Entries
  <2> HIDE DEF again
  <2>5. TypeOK'
    <3>1. config' \in [Pins -> Entries]
      <4> HIDE DEF rem
      <4> QED
        BY <2>1, <2>4
    <3>2. pending' \in [Pins -> BOOLEAN]
      BY <2>1
    <3>3. irr' \in SUBSET Vectors /\ tmr' \in SUBSET Vectors
      BY <2>1, <2>3, <1>2 DEF Inv, TypeOK
    <3> QED
      BY <3>1, <3>2, <3>3, <1>2 DEF Inv, TypeOK
  <2>6. PinsMatch'
    <3> SUFFICES ASSUME NEW i \in Pins
                 PROVE  PinsMatch!(i)'
      BY DEF PinsMatch
    <3>1. PinsMatch!(i)
      BY DEF Inv, PinsMatch
    <3>2. pending[i] /\ ~ config[i].masked /\ i \in Held(v) => i \in again
      BY DEF again, Again
    <3>3. rem(i) => config[i].level
      BY <3>1
    <3>4. pending[i] /\ ~ config[i].masked => rem(i)
      BY <3>1, <3>2, <2>2
    <3> HIDE DEF rem
    <3> QED
      BY <3>1, <3>3, <3>4, <2>4, <1>2
  <2>7. HeldIsActive'
    <3> SUFFICES ASSUME NEW i \in Pins, rem(i)
                 PROVE  config[i].vector \in irr' \cup isr'
      BY <2>4 DEF HeldIsActive
    <3>1. CASE i \in Held(v)
      BY <3>1, <2>1, <2>2
    <3>2. CASE i \notin Held(v)
      <4>1. config[i].remote /\ config[i].vector # v
        BY <3>2 DEF Held
      <4> QED
        BY <4>1, <1>1, <2>1 DEF Inv, HeldIsActive
    <3> QED
      BY <3>1, <3>2
  <2>8. LevelMarked'
    BY <1>1, <1>4, <2>1, <2>3 DEF Inv, LevelMarked
  <2> QED
    BY <2>5, <2>6, <2>7, <2>8 DEF Inv
<1> QED
  BY <1>3, <1>4

\* The actions that call check_irq.
LEMMA PinInv ==
    ASSUME Inv, NEW i \in Pins,
           \/ SetIrq(i)
           \/ \E mask \in BOOLEAN : SetMask(i, mask)
           \/ \E v \in Vectors, b, mask \in BOOLEAN : Configure(i, v, b, mask)
    PROVE  Inv'
<1> DEFINE c == config[i]
<1>0. /\ c \in Entries /\ line[i] \in BOOLEAN /\ pending[i] \in BOOLEAN
      /\ line \in [Pins -> BOOLEAN]
      /\ c.remote => c.vector \in irr \cup isr
      /\ PinsMatch!(i)
  BY DEF Inv, TypeOK, HeldIsActive, PinsMatch
<1>1. CASE SetIrq(i)
  <2>0. line' = [line EXCEPT ![i] = TRUE] /\ UNCHANGED <<interrupts, handlers>>
    BY <1>1 DEF SetIrq
  <2>1. CASE c.masked /\ ~ c.level
    <3>1. UNCHANGED <<pending, config, irr, isr, tmr, tpr, looking>>
      BY <1>1, <2>1 DEF SetIrq, NoDelivery, apic
    <3>2. TypeOK'
      BY <2>0, <3>1 DEF Inv, TypeOK
    <3>3. PinsMatch'
      BY <2>0, <2>1, <3>1 DEF Inv, PinsMatch, TypeOK
    <3> QED
      BY <3>1, <3>2, <3>3 DEF Inv, HeldIsActive, LevelMarked
  <2>2. CASE ~ (c.masked /\ ~ c.level)
    <3>1. CheckIrq(i, c, TRUE)
      BY <1>1, <2>2 DEF SetIrq
    <3>2. Fits(c, TRUE, TRUE)
      BY <1>0, <2>2 DEF Fits, Entries
    <3> HIDE DEF c
    <3> QED
      BY <1>0, <2>0, <3>1, <3>2, CheckIrqInv
  <2> QED
    BY <2>1, <2>2
<1>2. ASSUME NEW mask \in BOOLEAN, SetMask(i, mask) PROVE Inv'
  <2> DEFINE d == [c EXCEPT !.masked = mask]
  <2>1. /\ CheckIrq(i, d, pending[i]) /\ c.vector # NoVector
        /\ line' = line /\ UNCHANGED <<interrupts, handlers>>
    BY <1>2 DEF SetMask
  <2>2. /\ d \in Entries /\ d.vector = c.vector /\ d.level = c.level
        /\ d.remote = c.remote /\ d.masked = mask
    BY <1>0 DEF Entries
  <2> HIDE DEF c, d
  <2>3. Fits(d, pending[i], line[i]) /\ (d.remote => d.vector \in irr \cup isr)
    BY <1>0, <2>1, <2>2 DEF Fits, c
  <2>4. line' = [line EXCEPT ![i] = line[i]]
    BY <1>0, <2>1
  <2> QED
    BY <1>0, <2>1, <2>3, <2>4, CheckIrqInv
<1>3. ASSUME NEW v \in Vectors, NEW b \in BOOLEAN, NEW mask \in BOOLEAN, Configure(i, v, b, mask)
      PROVE  Inv'
  <2> DEFINE d == [vector |-> v, level |-> b, masked |-> mask, remote |-> FALSE]
  <2>1. /\ CheckIrq(i, d, pending[i]) /\ ~ line[i]
        /\ v \in IF b THEN LevelVectors ELSE EdgeVectors
        /\ line' = line /\ UNCHANGED <<interrupts, handlers>>
    BY <1>3 DEF Configure
  <2>2. /\ d \in Entries /\ d.vector = v /\ d.level = b
        /\ d.remote = FALSE /\ d.masked = mask /\ v # NoVector
    BY VectorAssumption DEF Entries, NoVector
  <2> HIDE DEF d
  <2>3. Fits(d, pending[i], line[i])
    BY <1>0, <2>1, <2>2 DEF Fits
  <2>4. line' = [line EXCEPT ![i] = line[i]]
    BY <1>0, <2>1
  <2> QED
    BY <1>0, <2>1, <2>2, <2>3, <2>4, CheckIrqInv
<1> QED
  BY <1>1, <1>2, <1>3

\* The others.
LEMMA InvStep == Inv /\ [Next]_vars => Inv'
<1> SUFFICES ASSUME Inv, [Next]_vars PROVE Inv'
  OBVIOUS
<1> USE DEF Inv
<1>1. CASE AcknowledgeIrq
  <2>1. CASE UNCHANGED <<apic, interrupts, handlers>>
    BY <1>1, <2>1 DEF AcknowledgeIrq, apic, ioapic, TypeOK, PinsMatch, HeldIsActive, LevelMarked
  <2>2. ASSUME NEW v \in irr, Take(v) PROVE Inv'
    <3>1. UNCHANGED ioapic /\ looking' = FALSE
      BY <1>1 DEF AcknowledgeIrq
    <3>2. v \in Vectors
      BY DEF TypeOK
    <3>3. /\ irr' = irr \ {v} /\ isr' = isr \cup {v} /\ tmr' = tmr /\ tpr' = tpr
          /\ interrupts' = FALSE /\ handlers' = Append(handlers, v)
      BY <2>2 DEF Take
    <3>4. Append(handlers, v) \in Seq(Vectors)
      BY <3>2 DEF TypeOK
    <3>5. TypeOK'
      BY <3>1, <3>2, <3>3, <3>4 DEF ioapic, TypeOK
    <3>6. PinsMatch' /\ HeldIsActive' /\ LevelMarked'
      BY <3>1, <3>3 DEF ioapic, PinsMatch, HeldIsActive, LevelMarked
    <3> QED
      BY <3>5, <3>6
  <2> QED
    BY <1>1, <2>1, <2>2 DEF AcknowledgeIrq
<1>2. CASE Cli \/ Sti \/ UNCHANGED vars
  BY <1>2 DEF Cli, Sti, vars, apic, ioapic, TypeOK, PinsMatch, HeldIsActive, LevelMarked
<1>3. CASE Eoi
  BY <1>3, EoiInv
<1>4. ASSUME NEW p \in Priorities, SetTpr(p) PROVE Inv'
  BY <1>4 DEF SetTpr, CheckVector, ioapic, TypeOK, PinsMatch, HeldIsActive, LevelMarked
<1>5. ASSUME NEW v \in EdgeVectors, SelfInterrupt(v) PROVE Inv'
  <2>1. v \in Vectors /\ v \notin LevelVectors
    BY VectorAssumption DEF Vectors
  <2>2. Deliver(v, FALSE) /\ UNCHANGED <<ioapic, interrupts, handlers>>
    BY <1>5 DEF SelfInterrupt
  <2>3. /\ irr' \in SUBSET Vectors /\ isr' = isr /\ tmr' \in SUBSET Vectors
        /\ tpr' = tpr /\ looking' \in BOOLEAN /\ LevelMarked' /\ irr \subseteq irr'
    BY <2>1, <2>2, DeliverInv
  <2> QED
    BY <2>2, <2>3 DEF ioapic, TypeOK, PinsMatch, HeldIsActive
<1>6. ASSUME NEW i \in Pins, ClearIrq(i) PROVE Inv'
  <2>1. /\ line' = [line EXCEPT ![i] = FALSE]
        /\ pending' = [pending EXCEPT ![i] = pending[i] /\ ~ config[i].level]
        /\ UNCHANGED <<config, apic, interrupts, handlers, looking>>
    BY <1>6 DEF ClearIrq
  <2> QED
    BY <2>1 DEF apic, TypeOK, PinsMatch, HeldIsActive, LevelMarked
<1> QED
  BY <1>1, <1>2, <1>3, <1>4, <1>5, <1>6, PinInv DEF Next

LEMMA Invariance == Spec => []Inv
<1>1. ASSUME Init PROVE Inv
  <2>1. \A i \in Pins : /\ config[i] \in Entries /\ config[i].vector = NoVector
                        /\ ~ config[i].level /\ config[i].masked /\ ~ config[i].remote
                        /\ ~ line[i] /\ ~ pending[i]
    BY <1>1 DEF Init, Entries
  <2>2. TypeOK
    <3>1. config \in [Pins -> Entries]
      BY <1>1, <2>1 DEF Init
    <3>2. <<>> \in Seq(Vectors)
      OBVIOUS
    <3> QED
      BY <1>1, <3>1, <3>2, PriorityAssumption DEF Init, TypeOK
  <2>3. PinsMatch /\ HeldIsActive
    BY <2>1 DEF PinsMatch, HeldIsActive
  <2> QED
    BY <1>1, <2>2, <2>3 DEF Init, Inv, LevelMarked
<1> QED
  BY <1>1, InvStep, PTL DEF Spec

-----------------------------------------------------------------------------
(* The theorems.                                                           *)

\* The registers of both controllers keep their types.
THEOREM TypeCorrect == Spec => []TypeOK
  BY Invariance, PTL DEF Inv

\* No remote IRR bit is set without the EOI that will clear it: ioapic.ts 176,
\* apic.ts 264.
THEOREM RemoteIrrIsReleased == Spec => []RemoteIrrReleased
<1>1. Inv => RemoteIrrReleased
  BY DEF Inv, PinsMatch, HeldIsActive, LevelMarked, RemoteIrrReleased
<1> QED
  BY <1>1, Invariance, PTL

\* An asserted, unmasked level triggered line is requested or in service.
THEOREM LevelIsNotLost == Spec => []LevelNotLost
<1>1. Inv => LevelNotLost
  BY DEF Inv, PinsMatch, HeldIsActive, LevelNotLost
<1> QED
  BY <1>1, Invariance, PTL

\* check_vector is called wherever a vector may become deliverable.
THEOREM NoInterruptIsLost == Spec => []NoLostInterrupt
<1>1. Init => NoLostInterrupt
  BY DEF Init, NoLostInterrupt
<1>2. Inv /\ NoLostInterrupt /\ [Next]_vars => NoLostInterrupt'
  <2> SUFFICES ASSUME NoLostInterrupt, [Next]_vars, interrupts', ~ looking'
               PROVE  ~ Deliverable(irr, isr, tpr)'
    BY DEF NoLostInterrupt
  <2>1. ASSUME NEW v, NEW b, Deliver(v, b), interrupts' = interrupts, ~ looking
        PROVE  ~ Deliverable(irr, isr, tpr)'
    BY <2>1 DEF Deliver, CheckVector, NoLostInterrupt, Deliverable
  <2>2. ASSUME NEW i, NEW c, NEW p, CheckIrq(i, c, p), interrupts' = interrupts, ~ looking
        PROVE  ~ Deliverable(irr, isr, tpr)'
    <3>1. CASE NoDelivery
      BY <2>2, <3>1 DEF NoDelivery, apic, NoLostInterrupt, Deliverable
    <3> QED
      BY <2>1, <2>2, <3>1 DEF CheckIrq
  <2>3. CASE AcknowledgeIrq
    BY <2>3 DEF AcknowledgeIrq, Take, apic, Deliverable
  <2>4. CASE Cli \/ Sti \/ UNCHANGED vars
    BY <2>4 DEF Cli, Sti, vars, apic, NoLostInterrupt, Deliverable
  <2>5. CASE Eoi
    BY <2>5 DEF Eoi
  <2>6. ASSUME NEW p \in Priorities, SetTpr(p) PROVE ~ Deliverable(irr, isr, tpr)'
    BY <2>6 DEF SetTpr, CheckVector, Deliverable
  <2>7. ASSUME NEW v \in EdgeVectors, SelfInterrupt(v) PROVE ~ Deliverable(irr, isr, tpr)'
    BY <2>1, <2>7 DEF SelfInterrupt
  <2>8. ASSUME NEW i \in Pins, SetIrq(i) PROVE ~ Deliverable(irr, isr, tpr)'
    <3>1. CASE NoDelivery
      BY <2>8, <3>1 DEF SetIrq, NoDelivery, apic, NoLostInterrupt, Deliverable
    <3> QED
      BY <2>2, <2>8, <3>1 DEF SetIrq
  <2>9. ASSUME NEW i \in Pins, ClearIrq(i) PROVE ~ Deliverable(irr, isr, tpr)'
    BY <2>9 DEF ClearIrq, apic, NoLostInterrupt, Deliverable
  <2>10. ASSUME NEW i \in Pins, NEW mask \in BOOLEAN, SetMask(i, mask)
         PROVE  ~ Deliverable(irr, isr, tpr)'
    BY <2>2, <2>10 DEF SetMask
  <2>11. ASSUME NEW i \in Pins, NEW v \in Vectors, NEW b \in BOOLEAN, NEW mask \in BOOLEAN,
                Configure(i, v, b, mask)
         PROVE  ~ Deliverable(irr, isr, tpr)'
    BY <2>2, <2>11 DEF Configure
  <2> QED
    BY <2>3, <2>4, <2>5, <2>6, <2>7, <2>8, <2>9, <2>10, <2>11 DEF Next
<1> QED
  BY <1>1, <1>2, Invariance, PTL DEF Spec

LEMMA WithoutLast ==
    ASSUME NEW S, NEW s \in Seq(S), NEW n, n = Len(s), n # 0
    PROVE  LET t == SubSeq(s, 1, n - 1)
           IN Len(t) = n - 1 /\ \A k \in 1 .. n - 1 : t[k] = s[k]
OBVIOUS

\* The stack of handlers and the bits in service say the same.
THEOREM HandlersAreInService == Spec => []HandlersMatch
<1>1. Init => HandlersMatch
  BY DEF Init, HandlersMatch
<1>2. Inv /\ HandlersMatch /\ [Next]_vars => HandlersMatch'
  <2> SUFFICES ASSUME Inv, HandlersMatch, [Next]_vars PROVE HandlersMatch'
    OBVIOUS
  <2>0. handlers \in Seq(Vectors) /\ Len(handlers) \in Nat /\ Vectors \subseteq Nat
    BY VectorAssumption DEF Inv, TypeOK
  <2>1. CASE UNCHANGED <<isr, handlers>>
    BY <2>1 DEF HandlersMatch
  <2>2. ASSUME NEW v \in irr, Take(v) PROVE HandlersMatch'
    <3>1. /\ v \in Vectors /\ isr' = isr \cup {v} /\ handlers' = Append(handlers, v)
          /\ \A w \in isr : w < v
      BY <2>2 DEF Take, MayInterrupt, Inv, TypeOK
    <3>2. /\ Len(handlers') = Len(handlers) + 1
          /\ handlers'[Len(handlers) + 1] = v
          /\ \A k \in 1 .. Len(handlers) : handlers'[k] = handlers[k] /\ handlers[k] \in isr
      BY <2>0, <3>1 DEF HandlersMatch
    <3>3. isr' = {handlers'[k] : k \in 1 .. Len(handlers')}
      BY <2>0, <3>1, <3>2 DEF HandlersMatch
    <3>4. ASSUME NEW k \in 1 .. Len(handlers'), NEW l \in 1 .. Len(handlers'), k < l
          PROVE  handlers'[k] < handlers'[l]
      <4>1. CASE l = Len(handlers) + 1
        BY <2>0, <3>1, <3>2, <3>4, <4>1
      <4>2. CASE l # Len(handlers) + 1
        BY <2>0, <3>2, <3>4, <4>2 DEF HandlersMatch
      <4> QED
        BY <4>1, <4>2
    <3> QED
      BY <3>3, <3>4 DEF HandlersMatch
  <2>3. CASE Eoi
    <3>n. PICK n \in Nat : n = Len(handlers)
      BY <2>0
    <3>1. PICK v \in isr : Highest(isr, v) /\ isr' = isr \ {v}
      BY <2>3 DEF Eoi
    <3>2. n \in Nat \ {0} /\ handlers' = SubSeq(handlers, 1, n - 1)
      BY <2>0, <2>3, <3>n DEF Eoi
    <3>3. /\ Len(handlers') = n - 1
          /\ \A k \in 1 .. n - 1 : handlers'[k] = handlers[k]
      BY <2>0, <3>2, <3>n, WithoutLast
    <3>4. \A k \in 1 .. n : handlers[k] \in Nat /\ handlers[k] \in isr
      <4>1. \A k \in 1 .. n : handlers[k] \in Vectors
        BY <2>0, <3>n
      <4>2. \A k \in 1 .. n : handlers[k] \in isr
        BY <3>n DEF HandlersMatch
      <4> QED
        BY <4>1, <4>2, <2>0
    <3>5. v = handlers[n]
      <4>1. PICK k \in 1 .. n : v = handlers[k]
        BY <3>1, <3>n DEF HandlersMatch
      <4>2. handlers[n] <= v
        BY <3>1, <3>2, <3>4 DEF Highest
      <4>3. k < n => handlers[k] < handlers[n]
        BY <3>2, <4>1, <3>n DEF HandlersMatch
      <4> QED
        BY <3>2, <3>4, <4>1, <4>2, <4>3
    <3>6. isr' = {handlers[k] : k \in 1 .. n - 1}
      <4>1. ASSUME NEW k \in 1 .. n - 1 PROVE handlers[k] # handlers[n]
        <5>1. k \in 1 .. n /\ n \in 1 .. n /\ k < n
          BY <3>2
        <5>2. handlers[k] < handlers[n]
          BY <5>1, <3>n DEF HandlersMatch
        <5>3. handlers[k] \in Nat /\ handlers[n] \in Nat
          BY <5>1, <3>4
        <5> QED
          BY <5>2, <5>3
      <4>2. isr = {handlers[k] : k \in 1 .. n}
        BY <3>n DEF HandlersMatch
      <4> QED
        BY <3>1, <3>2, <3>5, <4>1, <4>2
    <3>7. isr' = {handlers'[k] : k \in 1 .. Len(handlers')}
      BY <3>3, <3>6
    <3>8. \A k, l \in 1 .. Len(handlers') : k < l => handlers'[k] < handlers'[l]
      BY <3>2, <3>3, <3>n DEF HandlersMatch
    <3> QED
      BY <3>7, <3>8 DEF HandlersMatch
  <2>4. ASSUME NEW v, NEW b, Deliver(v, b) PROVE isr' = isr
    BY <2>4 DEF Deliver
  <2>5. ASSUME NEW i, NEW c, NEW p, CheckIrq(i, c, p) PROVE isr' = isr
    BY <2>4, <2>5 DEF CheckIrq, NoDelivery, apic
  <2>6. AcknowledgeIrq => HandlersMatch'
    BY <2>1, <2>2 DEF AcknowledgeIrq, apic
  <2>7. ASSUME NEW i \in Pins, SetIrq(i) \/ ClearIrq(i) PROVE UNCHANGED <<isr, handlers>>
    BY <2>5, <2>7 DEF SetIrq, ClearIrq, NoDelivery, apic
  <2>8. ASSUME NEW i \in Pins, NEW mask \in BOOLEAN, SetMask(i, mask)
        PROVE  UNCHANGED <<isr, handlers>>
    BY <2>5, <2>8 DEF SetMask
  <2>9. ASSUME NEW i \in Pins, NEW v \in Vectors, NEW b \in BOOLEAN, NEW mask \in BOOLEAN,
               Configure(i, v, b, mask)
        PROVE  UNCHANGED <<isr, handlers>>
    BY <2>5, <2>9 DEF Configure
  <2>10. CASE Cli \/ Sti \/ UNCHANGED vars
    BY <2>1, <2>10 DEF Cli, Sti, vars, apic
  <2>11. ASSUME NEW p \in Priorities, SetTpr(p) PROVE UNCHANGED <<isr, handlers>>
    BY <2>11 DEF SetTpr
  <2>12. ASSUME NEW v \in EdgeVectors, SelfInterrupt(v) PROVE UNCHANGED <<isr, handlers>>
    BY <2>4, <2>12 DEF SelfInterrupt
  <2> QED
    BY <2>1, <2>3, <2>6, <2>7, <2>8, <2>9, <2>10, <2>11, <2>12 DEF Next
<1> QED
  BY <1>1, <1>2, Invariance, PTL DEF Spec
=============================================================================
