------------------------------ MODULE Ps2Proofs ------------------------------
(***************************************************************************)
(* The keyboard controller, for queues of any capacity and any number of   *)
(* parameters owed.  OfferMatches and NoStuckByte are inductive, given the *)
(* types: every action either leaves the offer and the queues alone, ends  *)
(* with an offer from a queue it has just filled, or asks the queues       *)
(* (OfferNext).                                                            *)
(***************************************************************************)
EXTENDS Ps2, TLAPS

IInv == TypeOK /\ OfferMatches /\ NoStuckByte

\* The offer of one device is announced if its interrupt is enabled.
LEMMA OfferKeeps ==
  ASSUME TypeOK, NEW isAux \in BOOLEAN, NEW requested \in SUBSET Irqs, Offer(isAux, requested)
  PROVE  /\ ready' = TRUE /\ aux' = isAux
         /\ announced' \in BOOLEAN /\ latched' \in SUBSET Irqs
         /\ announced' => latched' # {}
<1>1. ready' = TRUE /\ aux' = isAux /\ announced' = (IrqOf(isAux) \in enabled)
  BY DEF Offer
<1>2. announced' \in BOOLEAN
  BY <1>1
<1>3. latched' = requested \cup ({IrqOf(isAux)} \cap enabled)
  BY DEF Offer
<1>4. enabled \subseteq Irqs
  BY DEF TypeOK
<1>5. latched' \in SUBSET Irqs
  BY <1>3, <1>4
<1>6. IrqOf(isAux) \in enabled => latched' # {}
  BY <1>3
<1> QED
  BY <1>1, <1>2, <1>5, <1>6

\* The queues decide what is offered.
LEMMA OfferNextKeeps ==
  ASSUME TypeOK, NEW k \in 0 .. Size, NEW m \in 0 .. Size, NEW requested \in SUBSET Irqs,
         OfferNext(k, m, requested)
  PROVE  /\ ready' \in BOOLEAN /\ aux' \in BOOLEAN
         /\ announced' \in BOOLEAN /\ latched' \in SUBSET Irqs
         /\ ready' <=> k > 0 \/ m > 0
         /\ ready' => IF aux' THEN m > 0 ELSE k > 0
         /\ ready' /\ announced' => latched' # {}
<1>1. CASE k > 0
  <2>1. Offer(FALSE, requested)
    BY <1>1 DEF OfferNext
  <2> QED
    BY <2>1, <1>1, OfferKeeps
<1>2. CASE ~ (k > 0) /\ m > 0
  <2>1. Offer(TRUE, requested)
    BY <1>2 DEF OfferNext
  <2> QED
    BY <2>1, <1>2, OfferKeeps
<1>3. CASE ~ (k > 0) /\ ~ (m > 0)
  BY <1>3 DEF OfferNext, TypeOK
<1> QED
  BY <1>1, <1>2, <1>3

\* What is queued stays within the capacity and is something.
LEMMA PushBounds ==
  ASSUME NEW q \in 0 .. Size, NEW n \in Nat \ {0}
  PROVE  Push(q, n) \in 0 .. Size /\ Push(q, n) > 0
BY SizeAssumption DEF Push

LEMMA ShiftBounds ==
  ASSUME NEW q \in 0 .. Size
  PROVE  Shift(q) \in 0 .. Size
BY SizeAssumption DEF Shift

LEMMA EmptyBounds == 0 \in 0 .. Size
BY SizeAssumption

-----------------------------------------------------------------------------

LEMMA InitHolds == Init => IInv
<1> SUFFICES ASSUME Init PROVE IInv
  OBVIOUS
<1>1. enabled \subseteq Irqs /\ latched \subseteq Irqs /\ expects \subseteq PurposeSet
  BY DEF Init, Irqs
<1>2. TypeOK
  BY <1>1, EmptyBounds DEF Init, TypeOK
<1>3. OfferMatches /\ NoStuckByte
  BY DEF Init, OfferMatches, NoStuckByte
<1> QED
  BY <1>2, <1>3 DEF IInv

\* An event of the host fills one queue and asks for an interrupt if it may.
LEMMA HostKeeps ==
  ASSUME IInv, kbd' \in 0 .. Size, mouse' \in 0 .. Size,
         \/ kbd' > 0 /\ mouse' = mouse
         \/ mouse' > 0 /\ kbd' = kbd,
         RaiseIrq(kbd', mouse'), UNCHANGED <<expects, modes, handling>>
  PROVE  IInv'
<1> USE DEF IInv
<1>1. CASE ready
  <2>1. UNCHANGED offer
    BY <1>1 DEF RaiseIrq
  <2> QED
    BY <2>1, <1>1 DEF TypeOK, OfferMatches, NoStuckByte, offer, modes
<1>2. CASE ~ ready
  <2>1. OfferNext(kbd', mouse', latched) /\ latched \in SUBSET Irqs
    BY <1>2 DEF RaiseIrq, TypeOK
  <2> QED
    BY <2>1, OfferNextKeeps DEF TypeOK, OfferMatches, NoStuckByte, modes
<1> QED
  BY <1>1, <1>2

LEMMA HostEventKeeps == IInv /\ HostEvent => IInv'
<1> SUFFICES ASSUME IInv, HostEvent PROVE IInv'
  OBVIOUS
<1>0. kbd \in 0 .. Size /\ mouse \in 0 .. Size
  BY DEF IInv, TypeOK
<1>1. CASE KbdSendCode
  <2>1. kbd' \in 0 .. Size /\ kbd' > 0 /\ mouse' = mouse
    BY <1>0, <1>1, PushBounds DEF KbdSendCode
  <2>2. RaiseIrq(kbd', mouse') /\ UNCHANGED <<expects, modes, handling>>
    BY <1>1 DEF KbdSendCode
  <2> QED
    BY <1>0, <2>1, <2>2, HostKeeps
<1>2. CASE SendMousePacket
  <2>1. PICK n \in PacketLengths : mouse' = Push(mouse, n)
    BY <1>2 DEF SendMousePacket
  <2>2. mouse' \in 0 .. Size /\ mouse' > 0 /\ kbd' = kbd
    BY <1>0, <1>2, <2>1, PushBounds DEF SendMousePacket, PacketLengths
  <2>3. RaiseIrq(kbd', mouse') /\ UNCHANGED <<expects, modes, handling>>
    BY <1>2 DEF SendMousePacket
  <2> QED
    BY <1>0, <2>2, <2>3, HostKeeps
<1> QED
  BY <1>1, <1>2 DEF HostEvent, MouseMoves, MouseWheel

LEMMA ReadKeeps ==
  ASSUME IInv, Port60Read, handling' \in BOOLEAN
  PROVE  IInv'
<1>0. TypeOK /\ UNCHANGED <<expects, modes>>
  BY DEF IInv, Port60Read
<1>1. CASE kbd = 0 /\ mouse = 0
  <2>1. ready' = FALSE /\ UNCHANGED <<kbd, mouse, aux, latched, announced>>
    BY <1>1 DEF Port60Read, queues
  <2>2. TypeOK'
    BY <1>0, <2>1 DEF TypeOK, modes
  <2>3. OfferMatches' /\ NoStuckByte'
    BY <1>1, <2>1 DEF OfferMatches, NoStuckByte
  <2> QED
    BY <2>2, <2>3 DEF IInv
<1>2. CASE ~ (kbd = 0 /\ mouse = 0)
  <2>1. kbd' \in 0 .. Size /\ mouse' \in 0 .. Size
    BY <1>0, <1>2, ShiftBounds DEF Port60Read, TypeOK
  <2>2. PICK requested \in {latched, latched \ {IrqOf(aux)}} : OfferNext(kbd', mouse', requested)
    BY <1>2 DEF Port60Read
  <2>3. requested \in SUBSET Irqs
    BY <1>0 DEF TypeOK
  <2> QED
    BY <1>0, <2>1, <2>2, <2>3, OfferNextKeeps DEF IInv, TypeOK, OfferMatches, NoStuckByte, modes
<1> QED
  BY <1>1, <1>2

\* A command or a parameter is answered by the device whose queue it has filled.
LEMMA AnswerKeeps ==
  ASSUME IInv, NEW isAux \in BOOLEAN, Offer(isAux, latched),
         kbd' \in 0 .. Size, mouse' \in 0 .. Size, IF isAux THEN mouse' > 0 ELSE kbd' > 0,
         expects' \subseteq PurposeSet, enabled' = enabled, handling' = handling,
         kbd_stream' \in BOOLEAN, mouse_stream' \in BOOLEAN, use_mouse' \in BOOLEAN
  PROVE  IInv'
<1>1. TypeOK /\ latched \in SUBSET Irqs
  BY DEF IInv, TypeOK
<1>2. /\ ready' = TRUE /\ aux' = isAux
      /\ announced' \in BOOLEAN /\ latched' \in SUBSET Irqs
      /\ announced' => latched' # {}
  BY <1>1, OfferKeeps
<1> QED
  BY <1>1, <1>2 DEF IInv, TypeOK, OfferMatches, NoStuckByte

\* The names of the purposes.
LEMMA PurposesNamed ==
  {"resolution", "sample", "led", "scan_code_set", "rate", "command_register",
   "controller_output_port", "output_register", "mouse_command"} \subseteq PurposeSet
<1>1. /\ Purposes[1] = "command_register" /\ Purposes[2] = "output_register"
      /\ Purposes[3] = "sample" /\ Purposes[4] = "resolution" /\ Purposes[5] = "led"
      /\ Purposes[6] = "scan_code_set" /\ Purposes[7] = "rate"
      /\ Purposes[8] = "mouse_command" /\ Purposes[9] = "controller_output_port"
  BY DEF Purposes
<1>2. Len(Purposes) = 9
  BY DEF Purposes
<1>3. \A k \in 1 .. 9 : Purposes[k] \in PurposeSet
  BY <1>2 DEF PurposeSet
<1>4. {1, 2, 3, 4, 5, 6, 7, 8, 9} \subseteq 1 .. 9
  OBVIOUS
<1> QED
  BY <1>1, <1>3, <1>4

-----------------------------------------------------------------------------

LEMMA PortWriteKeeps == IInv /\ Port60Write => IInv'
<1> SUFFICES ASSUME IInv, Port60Write PROVE IInv'
  OBVIOUS
<1>0. TypeOK
  BY DEF IInv
<1>b. kbd \in 0 .. Size /\ mouse \in 0 .. Size /\ expects \subseteq PurposeSet
      /\ kbd_stream \in BOOLEAN /\ mouse_stream \in BOOLEAN /\ use_mouse \in BOOLEAN
  BY <1>0 DEF TypeOK
<1>1. CASE \E irqs \in SUBSET Irqs : WriteCommandRegister(irqs)
  BY <1>1 DEF IInv, TypeOK, OfferMatches, NoStuckByte, WriteCommandRegister, queues, offer
<1>2. CASE WriteOutputPort
  BY <1>2 DEF IInv, TypeOK, OfferMatches, NoStuckByte, WriteOutputPort, queues, offer, modes
<1>3. ASSUME NEW k \in 0 .. Size, NEW n \in Nat \ {0}, MouseAnswers(k, n),
             expects' \subseteq PurposeSet, mouse_stream' \in BOOLEAN, use_mouse' \in BOOLEAN
      PROVE  IInv'
  <2>1. kbd' \in 0 .. Size /\ mouse' \in 0 .. Size /\ mouse' > 0
    BY <1>3, EmptyBounds, PushBounds DEF MouseAnswers
  <2>2. Offer(TRUE, latched) /\ UNCHANGED <<enabled, kbd_stream, handling>>
    BY <1>3 DEF MouseAnswers
  <2> QED
    BY <1>3, <1>b, <2>1, <2>2, AnswerKeeps
<1>4. CASE WriteOutputRegister \/ \E f \in PurposeSet : WriteMouseParameter(f)
  <2>1. MouseAnswers(kbd, 1) /\ expects' \subseteq PurposeSet /\ UNCHANGED <<mouse_stream, use_mouse>>
    BY <1>4, <1>b DEF WriteOutputRegister, WriteMouseParameter
  <2> QED
    BY <1>3, <1>b, <2>1
<1>5. ASSUME NEW f \in PurposeSet, NEW n \in 1 .. 2, WriteKbdParameter(f, n)
      PROVE  IInv'
  <2>1. kbd' \in 0 .. Size /\ kbd' > 0 /\ mouse' \in 0 .. Size
    BY <1>5, <1>b, PushBounds DEF WriteKbdParameter
  <2>2. Offer(FALSE, latched) /\ UNCHANGED <<modes, handling>> /\ expects' \subseteq PurposeSet
    BY <1>5, <1>b DEF WriteKbdParameter
  <2> QED
    BY <1>b, <2>1, <2>2, AnswerKeeps DEF modes
<1>6. CASE WriteMouseCommand
  <2>1. PICK owed \in SUBSET PurposeSet, n \in Nat \ {0} : MouseCommand(owed, n)
    BY <1>6, PurposesNamed DEF WriteMouseCommand, PacketLengths
  <2>2. expects' \subseteq PurposeSet /\ MouseAnswers(0, n)
    BY <1>b, <2>1 DEF MouseCommand
  <2>3. mouse_stream' \in BOOLEAN /\ use_mouse' \in BOOLEAN
    BY <1>6, <1>b DEF WriteMouseCommand
  <2> QED
    BY <1>3, <2>2, <2>3, EmptyBounds
<1>7. CASE WriteKbdCommand
  <2>1. PICK owed \in SUBSET PurposeSet, n \in Nat \ {0} : KbdCommand(owed, n)
    BY <1>7, PurposesNamed DEF WriteKbdCommand
  <2>2. /\ Offer(FALSE, latched) /\ mouse' = 0 /\ kbd' = Push(0, n) /\ expects' = owed
        /\ UNCHANGED <<enabled, mouse_stream, use_mouse, handling>>
    BY <2>1 DEF KbdCommand
  <2>3. kbd' \in 0 .. Size /\ kbd' > 0 /\ mouse' \in 0 .. Size
    BY <2>2, EmptyBounds, PushBounds
  <2>4. kbd_stream' \in BOOLEAN
    BY <1>7, <1>b DEF WriteKbdCommand
  <2> QED
    BY <1>b, <2>2, <2>3, <2>4, AnswerKeeps
<1> QED
  BY <1>1, <1>2, <1>4, <1>5, <1>6, <1>7 DEF Port60Write

LEMMA OtherKeeps ==
  ASSUME IInv,
         \/ ControllerAnswers \/ \E f \in PurposeSet : Announce(f)
         \/ Reset \/ Reload \/ \E i \in Irqs : Interrupt(i)
  PROVE  IInv'
<1>1. CASE ControllerAnswers
  <2>1. Offer(FALSE, latched) /\ mouse' = 0 /\ kbd' = Push(0, 1) /\ UNCHANGED <<expects, modes, handling>>
    BY <1>1 DEF ControllerAnswers
  <2>2. kbd' \in 0 .. Size /\ kbd' > 0 /\ mouse' \in 0 .. Size
    BY <2>1, EmptyBounds, PushBounds
  <2> QED
    BY <2>1, <2>2, AnswerKeeps DEF IInv, TypeOK, modes
<1>2. CASE \E f \in PurposeSet : Announce(f)
  BY <1>2 DEF IInv, TypeOK, OfferMatches, NoStuckByte, Announce, queues, offer, modes
<1>3. CASE Reset
  <2>1. kbd' \in 0 .. Size /\ mouse' \in 0 .. Size
    BY <1>3, EmptyBounds DEF Reset
  <2>2. latched' \subseteq Irqs /\ enabled' \subseteq Irqs /\ expects' \subseteq PurposeSet
    BY <1>3 DEF Reset, IInv, TypeOK, Irqs
  <2>3. TypeOK'
    BY <1>3, <2>1, <2>2 DEF Reset, TypeOK
  <2>4. OfferMatches' /\ NoStuckByte'
    BY <1>3 DEF Reset, OfferMatches, NoStuckByte
  <2> QED
    BY <2>3, <2>4 DEF IInv
<1>4. CASE Reload
  <2>1. kbd' \in 0 .. Size /\ mouse' \in 0 .. Size
    BY <1>4, EmptyBounds DEF Reload
  <2>2. TypeOK'
    BY <1>4, <2>1 DEF Reload, IInv, TypeOK, modes
  <2>3. OfferMatches' /\ NoStuckByte'
    BY <1>4 DEF Reload, OfferMatches, NoStuckByte
  <2> QED
    BY <2>2, <2>3 DEF IInv
<1>5. CASE \E i \in Irqs : Interrupt(i)
  BY <1>5 DEF IInv, TypeOK, OfferMatches, NoStuckByte, Interrupt, queues, modes
<1> QED
  BY <1>1, <1>2, <1>3, <1>4, <1>5

LEMMA NextKeeps == IInv /\ [Next]_vars => IInv'
<1> SUFFICES ASSUME IInv, [Next]_vars PROVE IInv'
  OBVIOUS
<1>0. handling \in BOOLEAN
  BY DEF IInv, TypeOK
<1>1. CASE HostEvent
  BY <1>1, HostEventKeeps
<1>2. CASE Poll
  BY <1>0, <1>2, ReadKeeps DEF Poll
<1>3. CASE HandlerReads
  <2>1. CASE ready
    BY <1>3, <2>1, ReadKeeps DEF HandlerReads
  <2>2. CASE ~ ready
    BY <1>3, <2>2 DEF HandlerReads, IInv, TypeOK, OfferMatches, NoStuckByte, queues, offer, modes
  <2> QED
    BY <2>1, <2>2
<1>4. CASE Port60Write
  BY <1>4, PortWriteKeeps
<1>5. CASE \/ ControllerAnswers \/ \E f \in PurposeSet : Announce(f)
           \/ Reset \/ Reload \/ \E i \in Irqs : Interrupt(i)
  BY <1>5, OtherKeeps
<1>6. CASE UNCHANGED vars
  BY <1>6 DEF vars, queues, offer, modes, IInv, TypeOK, OfferMatches, NoStuckByte
<1> QED
  BY <1>1, <1>2, <1>3, <1>4, <1>5, <1>6 DEF Next

LEMMA Invariance == Spec => []IInv
<1>1. Init => IInv
  BY InitHolds
<1>2. IInv /\ [Next]_vars => IInv'
  BY NextKeeps
<1> QED
  BY <1>1, <1>2, PTL DEF Spec

-----------------------------------------------------------------------------

\* The queues of the keyboard and of the mouse never hold more than their capacity.
THEOREM TypeCorrect == Spec => []TypeOK
BY Invariance, PTL DEF IInv

\* The status register offers a byte exactly when there is one, from a queue that has one.
THEOREM OfferAlwaysMatches == Spec => []OfferMatches
BY Invariance, PTL DEF IInv

\* A byte offered with its interrupt enabled has an interrupt requested or being handled.
THEOREM NoByteIsStuck == Spec => []NoStuckByte
BY Invariance, PTL DEF IInv

\* An event of the host waits while a byte is offered: raise_irq returns at once.
THEOREM StatusIsStable == Spec => StatusStable
<1>1. [Next]_vars => [HostEvent /\ ready => UNCHANGED <<ready, aux>>]_vars
  BY DEF HostEvent, KbdSendCode, MouseMoves, MouseWheel, SendMousePacket, RaiseIrq, offer
<1> QED
  BY <1>1, PTL DEF Spec, StatusStable
=============================================================================
