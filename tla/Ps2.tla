-------------------------------- MODULE Ps2 --------------------------------
(***************************************************************************)
(* The keyboard controller of ps2.ts.  Two devices share one output        *)
(* register: the controller offers one byte at a time, says in the status  *)
(* register whether it comes from the mouse (AUX), and interrupts the      *)
(* guest.  Events of the host come at any moment, between the guest's read *)
(* of the status register and its read of the byte too.  While a byte is   *)
(* offered nothing else is announced: if the guest missed it, both devices *)
(* would be dead.                                                          *)
(*                                                                         *)
(* Only the lengths of the queues are kept: positions, rates, resolutions  *)
(* and the kind of mouse change what a packet says, and whether it has 3   *)
(* bytes or 4.  The guest reads one byte per interrupt.                    *)
(***************************************************************************)
EXTENDS Integers, Sequences, FiniteSets

CONSTANTS Size,        \* the capacity of the queues (1024)
          MaxExpected  \* bounds the parameters the guest owes at the same time

ASSUME SizeAssumption == Size \in Nat \ {0}

Kbd == 1     \* the interrupts
Aux == 12
Irqs == {Kbd, Aux}

\* What the next byte written to port 60h may be for, in the order in which
\* port60_write asks.
Purposes == <<"command_register", "output_register", "sample", "resolution", "led",
              "scan_code_set", "rate", "mouse_command", "controller_output_port">>

PurposeSet == {Purposes[k] : k \in 1 .. Len(Purposes)}

VARIABLES kbd, mouse,        \* the lengths of kbd_buffer and mouse_buffer
          ready, aux,        \* next_byte_is_ready, next_byte_is_aux
          expects,           \* the next_... and read_... flags that are set
          enabled,           \* the interrupts command_register enables
          kbd_stream,        \* enable_keyboard_stream
          mouse_stream,      \* enable_mouse_stream
          use_mouse,
          latched,           \* external: the interrupts requested from the processor
          handling,          \* external: an interrupt handler is about to read
          announced          \* history: the byte offered came with an interrupt

queues == <<kbd, mouse>>
offer == <<ready, aux, latched, announced>>
modes == <<enabled, kbd_stream, mouse_stream, use_mouse>>
vars == <<queues, offer, expects, modes, handling>>

TypeOK ==
    /\ kbd \in 0 .. Size /\ mouse \in 0 .. Size
    /\ ready \in BOOLEAN /\ aux \in BOOLEAN /\ announced \in BOOLEAN
    /\ expects \subseteq PurposeSet
    /\ enabled \subseteq Irqs /\ latched \subseteq Irqs
    /\ kbd_stream \in BOOLEAN /\ mouse_stream \in BOOLEAN /\ use_mouse \in BOOLEAN
    /\ handling \in BOOLEAN

Init ==
    /\ kbd = 0 /\ mouse = 0 /\ ready = FALSE /\ aux = FALSE /\ announced = FALSE
    /\ expects = {} /\ enabled = {Kbd} /\ latched = {}
    /\ kbd_stream = FALSE /\ mouse_stream = FALSE /\ use_mouse = FALSE
    /\ handling = FALSE

-----------------------------------------------------------------------------
(* Queues and interrupts.                                                  *)

\* push: a full queue loses its oldest bytes.
Push(q, n) == IF q + n > Size THEN Size ELSE q + n

\* shift: an empty queue stays empty.
Shift(q) == IF q = 0 THEN 0 ELSE q - 1

IrqOf(isAux) == IF isAux THEN Aux ELSE Kbd

\* A mutant of Offer: the line is pulsed only if no byte was on offer.
OfferOnce(isAux, requested) ==
    /\ ready' = TRUE /\ aux' = isAux
    /\ announced' = (IrqOf(isAux) \in enabled)
    /\ latched' = requested \cup (IF ready THEN {} ELSE {IrqOf(isAux)} \cap enabled)

\* kbd_irq and mouse_irq, with these requests pending.  The line is lowered and
\* raised, which is an edge whatever it was before.
Offer(isAux, requested) ==
    /\ ready' = TRUE /\ aux' = isAux
    /\ announced' = (IrqOf(isAux) \in enabled)
    /\ latched' = requested \cup ({IrqOf(isAux)} \cap enabled)

\* raise_irq while no byte is offered, with k and m bytes queued.
OfferNext(k, m, requested) ==
    IF k > 0 THEN Offer(FALSE, requested)
    ELSE IF m > 0 THEN Offer(TRUE, requested)
         ELSE ready' = FALSE /\ latched' = requested /\ UNCHANGED <<aux, announced>>

\* A mutant of RaiseIrq: the byte that is offered is not waited for.
RaiseIrqAlways(k, m) == OfferNext(k, m, latched)

\* raise_irq: "wait until previous byte is read", then the keyboard comes first.
RaiseIrq(k, m) == IF ready THEN UNCHANGED offer ELSE OfferNext(k, m, latched)

\* A mouse with a wheel has one byte more.
PacketLengths == {3, 4}

-----------------------------------------------------------------------------
(* Events of the host.                                                     *)

KbdSendCode ==
    /\ kbd_stream
    /\ kbd' = Push(kbd, 1) /\ mouse' = mouse
    /\ RaiseIrq(kbd', mouse)
    /\ UNCHANGED <<expects, modes, handling>>

\* send_mouse_packet for a click or a movement, which the guest has to have asked for ...
SendMousePacket ==
    /\ \E n \in PacketLengths : mouse' = Push(mouse, n)
    /\ kbd' = kbd
    /\ RaiseIrq(kbd, mouse')
    /\ UNCHANGED <<expects, modes, handling>>

MouseMoves == use_mouse /\ mouse_stream /\ SendMousePacket

\* ... and for the wheel, which it need not.
MouseWheel == SendMousePacket

HostEvent == KbdSendCode \/ MouseMoves \/ MouseWheel

-----------------------------------------------------------------------------
(* Port 60h, read.                                                         *)

\* Lowering the line may withdraw the request.
Port60Read ==
    /\ IF kbd = 0 /\ mouse = 0
       THEN ready' = FALSE /\ UNCHANGED <<queues, aux, latched, announced>>
       ELSE /\ IF aux THEN mouse' = Shift(mouse) /\ kbd' = kbd
                      ELSE kbd' = Shift(kbd) /\ mouse' = mouse
            /\ \E requested \in {latched, latched \ {IrqOf(aux)}} :
                  OfferNext(kbd', mouse', requested)
    /\ UNCHANGED <<expects, modes>>

-----------------------------------------------------------------------------
(* Port 60h, written.                                                      *)

Rank(f) == CHOOSE k \in 1 .. Len(Purposes) : Purposes[k] = f

\* The byte is taken for purpose f: the first one that is expected.
TakenFor(f) ==
    /\ f \in expects
    /\ \A g \in expects : Rank(f) <= Rank(g)

WriteCommandRegister(irqs) ==
    /\ TakenFor("command_register")
    /\ expects' = expects \ {"command_register"}
    /\ enabled' = irqs
    /\ UNCHANGED <<queues, offer, kbd_stream, mouse_stream, use_mouse, handling>>

WriteOutputPort ==
    /\ TakenFor("controller_output_port")
    /\ expects' = expects \ {"controller_output_port"}
    /\ UNCHANGED <<queues, offer, modes, handling>>

\* A byte for the mouse is answered at once, and what was queued before is lost.
MouseAnswers(k, n) ==
    /\ kbd' = k /\ mouse' = Push(0, n)
    /\ Offer(TRUE, latched)
    /\ UNCHANGED <<enabled, kbd_stream, handling>>

WriteOutputRegister ==
    /\ TakenFor("output_register")
    /\ expects' = expects \ {"output_register"}
    /\ MouseAnswers(kbd, 1)
    /\ UNCHANGED <<mouse_stream, use_mouse>>

\* The sample rate and the resolution.
WriteMouseParameter(f) ==
    /\ TakenFor(f)
    /\ f \in {"sample", "resolution"}
    /\ expects' = expects \ {f}
    /\ MouseAnswers(kbd, 1)
    /\ UNCHANGED <<mouse_stream, use_mouse>>

\* A parameter for the keyboard is acknowledged behind what is queued.
WriteKbdParameter(f, n) ==
    /\ TakenFor(f)
    /\ \/ f \in {"led", "rate"} /\ n = 1
       \/ f = "scan_code_set" /\ n \in 1 .. 2
    /\ expects' = expects \ {f}
    /\ kbd' = Push(kbd, n) /\ mouse' = mouse
    /\ Offer(FALSE, latched)
    /\ UNCHANGED <<modes, handling>>

\* A command for the mouse, after D4h: n bytes of answer.
MouseCommand(owed, n) ==
    /\ TakenFor("mouse_command")
    /\ expects' = (expects \ {"mouse_command"}) \cup owed
    /\ MouseAnswers(0, n)

WriteMouseCommand ==
    \/ /\ \/ MouseCommand({}, 1) \/ MouseCommand({}, 2) \* scaling and others, identify
          \/ MouseCommand({"resolution"}, 1) \/ MouseCommand({"sample"}, 1)
          \/ \E n \in PacketLengths : MouseCommand({}, 1 + n)   \* status request
       /\ UNCHANGED <<mouse_stream, use_mouse>>
    \/ /\ MouseCommand({}, 1)                          \* enable streaming
       /\ mouse_stream' = TRUE /\ use_mouse' = TRUE
    \/ /\ MouseCommand({}, 1)                          \* disable, set defaults
       /\ mouse_stream' = FALSE /\ UNCHANGED use_mouse
    \/ /\ MouseCommand({}, 3)                          \* reset
       /\ mouse_stream' = FALSE /\ use_mouse' = TRUE

\* A command for the keyboard: both queues are emptied first.
KbdCommand(owed, n) ==
    /\ expects = {}
    /\ expects' = owed
    /\ mouse' = 0 /\ kbd' = Push(0, n)
    /\ Offer(FALSE, latched)
    /\ UNCHANGED <<enabled, mouse_stream, use_mouse, handling>>

WriteKbdCommand ==
    \/ /\ \/ \E f \in {"led", "scan_code_set", "rate"} : KbdCommand({f}, 1)
          \/ KbdCommand({}, 1) \/ KbdCommand({}, 3)    \* identify and reset: three bytes
       /\ UNCHANGED kbd_stream
    \/ /\ KbdCommand({}, 1)                            \* enable, disable scanning
       /\ kbd_stream' \in BOOLEAN

-----------------------------------------------------------------------------
(* Port 64h, and the whole device.                                         *)

\* 60h, D1h, D3h and D4h: what the next byte is for.
Announce(f) ==
    /\ Cardinality(expects) < MaxExpected
    /\ f \in {"command_register", "controller_output_port", "output_register", "mouse_command"}
    /\ expects' = expects \cup {f}
    /\ UNCHANGED <<queues, offer, modes, handling>>

\* 20h, A9h, AAh and ABh: one byte of answer.
ControllerAnswers ==
    /\ mouse' = 0 /\ kbd' = Push(0, 1)
    /\ Offer(FALSE, latched)
    /\ UNCHANGED <<expects, modes, handling>>

\* FEh restarts the machine: reset of every device.
Reset ==
    /\ kbd' = 0 /\ mouse' = 0 /\ ready' = FALSE /\ aux' = FALSE /\ announced' = FALSE
    /\ expects' = {} /\ enabled' = {Kbd}
    /\ kbd_stream' = FALSE /\ mouse_stream' = FALSE /\ use_mouse' = FALSE
    /\ handling' = FALSE
    /\ latched' \in {{}, latched}

\* A mutant of Reload: the byte that was offered is still offered.
ReloadKeepsOffer ==
    /\ kbd' = 0 /\ mouse' = 0
    /\ UNCHANGED <<offer, expects, modes, handling>>

\* A saved state is restored: what get_state keeps of this moment, and no bytes.
Reload ==
    /\ kbd' = 0 /\ mouse' = 0 /\ ready' = FALSE /\ aux' = FALSE
    /\ UNCHANGED <<latched, announced, expects, modes, handling>>

-----------------------------------------------------------------------------
(* The guest.                                                              *)

\* An interrupt is taken; its handler reads one byte if there is one.
Interrupt(i) ==
    /\ i \in latched /\ ~ handling
    /\ latched' = latched \ {i}
    /\ handling' = TRUE
    /\ UNCHANGED <<queues, ready, aux, announced, expects, modes>>

HandlerReads ==
    /\ handling
    /\ handling' = FALSE
    /\ IF ready THEN Port60Read
       ELSE UNCHANGED <<queues, offer, expects, modes>>

\* A guest may poll as well.
Poll == Port60Read /\ UNCHANGED handling

Port60Write ==
    \/ \E irqs \in SUBSET Irqs : WriteCommandRegister(irqs)
    \/ \E f \in PurposeSet : WriteMouseParameter(f)
    \/ \E f \in PurposeSet, n \in 1 .. 2 : WriteKbdParameter(f, n)
    \/ WriteOutputPort \/ WriteOutputRegister
    \/ WriteMouseCommand \/ WriteKbdCommand

Next ==
    \/ HostEvent
    \/ Poll \/ HandlerReads \/ \E i \in Irqs : Interrupt(i)
    \/ Port60Write
    \/ ControllerAnswers \/ \E f \in PurposeSet : Announce(f)
    \/ Reset \/ Reload

Spec == Init /\ [][Next]_vars

-----------------------------------------------------------------------------
(* Properties.                                                             *)

\* A byte is offered exactly when one is queued, and it is offered as coming from
\* a device that has one: port60_read's "should not happen" does not happen.
OfferMatches ==
    /\ ready <=> kbd > 0 \/ mouse > 0
    /\ ready => IF aux THEN mouse > 0 ELSE kbd > 0

\* The controller cannot go dead: a byte that was offered with its interrupt
\* enabled still has an interrupt on its way, whatever the guest polls, writes
\* and takes in the meantime.
NoStuckByte == ready /\ announced => latched # {} \/ handling

\* What the status register has told the guest stays true until the guest acts.
StatusStable == [][HostEvent /\ ready => UNCHANGED <<ready, aux>>]_vars

=============================================================================
