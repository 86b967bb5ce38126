----------------------------- MODULE IsaProofs -----------------------------
(***************************************************************************)
(* Theorems about the devices of the ISA bus, for any bounds and sizes:    *)
(* the floppy controller, the serial port, the sound card, the real time   *)
(* clock and the timers.  Each has an inductive invariant kept by its own  *)
(* steps; the theorems are of IsaSpec, in which the device runs or stays   *)
(* as it is.                                                               *)
(***************************************************************************)
EXTENDS Isa, Division, TLAPS

-----------------------------------------------------------------------------
(* The floppy controller.  InStep relates two counts in two stages; to be  *)
(* kept it takes what both sides know in every stage, the level of the     *)
(* line among it, since a line already up makes no request.                *)

\* The results the controller still offers.
Offered == response_length - response_index

\* The bytes of a command under way are those of the driver's command, which the
\* controller remembers or, after a restore, does not.
Sending ==
    /\ doing \in Commands /\ left \in 1 .. Parameters[doing]
    /\ bytes_expecting = left /\ next_command \in {doing, "undefined"}
    /\ Offered = 0

\* What a driver may wait in after command c: the interrupt is requested and the
\* results are there, or the image is at work, or no interrupt will come.
Answered(c) == edge6 /\ irq6 /\ ~ silent /\ moving = 0 /\ Offered = ResultBytes(c)
AtWork(c) == ~ edge6 /\ ~ irq6 /\ ~ silent /\ moving = 1 /\ c = "transfer" /\ Offered = 0
Unanswered(c) == ~ edge6 /\ ~ irq6 /\ silent /\ moving = 0 /\ Offered \in {0, ResultBytes(c)}

Waiting ==
    /\ doing \in Announced /\ left = 0 /\ bytes_expecting = 0
    /\ Answered(doing) \/ AtWork(doing) \/ Unanswered(doing)

\* Nothing is pending for a driver that does not wait, and a line that is up at
\* that time will be lowered by a result about to be read.
InPhase ==
    /\ stage # "wait" => ~ edge6 /\ ~ silent /\ moving = 0
    /\ stage = "idle" => ~ irq6 /\ bytes_expecting = 0 /\ Offered = 0
    /\ stage = "send" => ~ irq6 /\ Sending
    /\ stage = "wait" => Waiting
    /\ stage = "sense" => bytes_expecting = 0 /\ Offered = 0
    /\ stage = "read" => bytes_expecting = 0 /\ left = Offered /\ left > 0

FloppyInv == FloppyTypeOK /\ (DriverAlive => InPhase)

LEMMA ParametersAre ==
    /\ Commands = {"specify", "configure", "check_drive", "transfer", "calibrate", "read_id",
                   "seek", "sense", "version"}
    /\ \A c \in Commands : Parameters[c] \in 0 .. 8
    /\ \A c \in Commands : Parameters[c] = 0 <=> c \in {"sense", "version"}
BY DEF Commands, Parameters

LEMMA FloppyInitInv == FloppyInit => FloppyInv
<1> SUFFICES ASSUME FloppyInit PROVE FloppyInv
  OBVIOUS
<1>1. FloppyFlags
  BY Zenon DEF FloppyInit, DmaInit, FloppyFlags
<1>2. FloppyCounts
  BY DEF FloppyInit, FloppyCounts
<1>3. ~ edge6 /\ ~ silent /\ ~ irq6
  BY Zenon DEF FloppyInit
<1>4. InPhase
  BY <1>3 DEF FloppyInit, InPhase, Offered
<1> QED
  BY <1>1, <1>2, <1>4 DEF FloppyInv, FloppyTypeOK

LEMMA FloppyInvImplies == FloppyInv => InStep /\ WaitServed
<1> SUFFICES ASSUME FloppyInv, DriverAlive PROVE InStep /\ WaitServed
  BY DEF InStep, WaitServed
<1>1. stage = "wait" => Waiting
  BY DEF FloppyInv, InPhase
<1>2. InStep
  BY <1>1 DEF FloppyInv, FloppyTypeOK, FloppyCounts, InPhase, InStep, Sending, Waiting, Offered
<1>3. WaitServed
  BY <1>1 DEF WaitServed, Waiting, Answered, AtWork, Unanswered
<1> QED
  BY <1>2, <1>3

LEMMA RaiseIrq6Does ==
    ASSUME FloppyFlags, ~ edge6, ~ irq6, RaiseIrq6
    PROVE  irq6' \in BOOLEAN /\ edge6' \in BOOLEAN /\ (irq6' <=> irq_enabled) /\ (edge6' <=> irq_enabled)
BY Zenon DEF FloppyFlags, RaiseIrq6, DeviceRaiseIrq6, line6

\* What a command does at its last byte: an exception, or nothing more, or one of
\* the three things a driver that waits may be in.
LEMMA ExecuteDoes ==
    ASSUME FloppyTypeOK, NEW c \in Commands \cup {"none", "undefined"}, Execute(c),
           ~ edge6, ~ irq6, ~ silent, moving = 0, Offered = 0, stopped = "no"
    PROVE  /\ irq6' \in BOOLEAN /\ edge6' \in BOOLEAN /\ silent' \in BOOLEAN
           /\ response_index' \in 0 .. 7 /\ response_length' \in 0 .. 7 /\ moving' \in 0 .. 1
           /\ stopped' \in {"no", "command", "transfer"}
           /\ stopped' = "no" =>
                /\ c \in Commands
                /\ c \notin Announced => /\ ~ edge6' /\ ~ irq6' /\ ~ silent' /\ moving' = 0
                                        /\ Offered' = IF c = "check_drive" THEN 1 ELSE 0
                /\ c \in Announced => Answered(c)' \/ AtWork(c)' \/ Unanswered(c)'
<1> USE ParametersAre DEF line6, response, FloppyTypeOK, FloppyFlags, FloppyCounts
<1>1. CASE c \in {"none", "undefined"}
  BY <1>1 DEF Execute
<1>2. CASE c \in {"specify", "configure", "check_drive"}
  BY <1>2 DEF Execute, Announced, Respond, Offered
<1>3. CASE c \in {"seek", "calibrate"}
  <2>1. /\ RaiseIrq6 /\ silent' = ~ irq_enabled /\ UNCHANGED <<response, moving, stopped>>
        /\ c \in Commands /\ c \in Announced
    BY <1>3 DEF Execute, Announced
  <2>2. silent' \in BOOLEAN /\ (silent' <=> ~ irq_enabled)
    BY <2>1, Zenon
  <2>3. Offered' = 0 /\ ResultBytes(c) = 0
    BY <1>3, <2>1 DEF Offered, ResultBytes
  <2> QED
    BY <2>1, <2>2, <2>3, RaiseIrq6Does DEF Answered, Unanswered
<1>4. CASE c = "read_id"
  <2>1. /\ Respond(7) /\ RaiseIrq6 /\ silent' = ~ irq_enabled /\ UNCHANGED <<moving, stopped>>
        /\ c \in Commands /\ c \in Announced
    BY <1>4 DEF Execute, Announced
  <2>2. silent' \in BOOLEAN /\ (silent' <=> ~ irq_enabled)
    BY <2>1, Zenon
  <2>3. Offered' = 7 /\ ResultBytes(c) = 7
    BY <1>4, <2>1 DEF Offered, ResultBytes, Respond
  <2> QED
    BY <2>1, <2>2, <2>3, RaiseIrq6Does DEF Answered, Unanswered, Respond
<1>5. CASE c = "transfer"
  <2>1. DoSector /\ c \in Announced
    BY <1>5 DEF Execute, Announced
  <2>2. CASE Silence
    BY <1>5, <2>1, <2>2, Zenon DEF Silence, Unanswered, Offered
  <2>3. CASE stopped' = "transfer" /\ UNCHANGED <<response, line6, moving, silent>>
    BY <1>5, <2>1, <2>3
  <2>4. CASE moving' = moving + 1 /\ UNCHANGED <<response, line6, stopped, silent>>
    BY <1>5, <2>1, <2>4 DEF AtWork, Offered
  <2> QED
    BY <2>1, <2>2, <2>3, <2>4 DEF DoSector
<1>6. \/ c \in {"none", "undefined"} \/ c \in {"specify", "configure", "check_drive"}
      \/ c \in {"seek", "calibrate"} \/ c = "read_id" \/ c = "transfer" \/ c \in {"sense", "version"}
  OBVIOUS
<1>7. c \notin {"sense", "version"}
  BY DEF Execute
<1> QED
  BY <1>1, <1>2, <1>3, <1>4, <1>5, <1>6, <1>7

\* Every step of the controller, the driver and the host keeps the invariant.
LEMMA FloppyStep ==
    ASSUME FloppyInv, FloppyNext
    PROVE  FloppyInv'
<1> USE ParametersAre
    DEF command_state, response, line6, floppy_driver, settings, DriverAlive, FloppyTypeOK
<1>1. CASE SendCommand
  <2> USE DEF FloppyInv
  <2>1. PICK c \in Commands :
            /\ Port3F5Write(c)
            /\ IF Parameters[c] > 0 THEN doing' = c /\ stage' = "send" /\ left' = Parameters[c]
               ELSE AfterSending(c)
    BY <1>1 DEF SendCommand
  <2>2. /\ bytes_expecting = 0 /\ stage = "idle" /\ stopped = "no" /\ Offered = 0
        /\ ~ edge6 /\ ~ irq6 /\ ~ silent /\ moving = 0 /\ UNCHANGED settings
    BY <1>1 DEF SendCommand, InPhase
  <2>3. /\ bytes_expecting' = Parameters[c]
        /\ IF Parameters[c] = 0
           THEN Respond(ResultBytes(c)) /\ UNCHANGED next_command
           ELSE next_command' = c /\ UNCHANGED response
        /\ UNCHANGED <<line6, moving, stopped, silent>>
    BY <2>1, <2>2 DEF Port3F5Write
  <2>4. FloppyFlags' /\ ~ edge6' /\ ~ irq6' /\ ~ silent'
    BY <2>2, <2>3, Zenon DEF FloppyFlags
  <2>5. CASE Parameters[c] > 0
    <3>1. FloppyCounts' /\ Offered' = 0
      BY <2>1, <2>2, <2>3, <2>5 DEF FloppyCounts, Offered
    <3>2. stage' = "send" /\ doing' = c /\ left' = Parameters[c] /\ bytes_expecting' = left'
          /\ next_command' = c /\ moving' = 0
      BY <2>1, <2>2, <2>3, <2>5
    <3> QED
      BY <2>4, <2>5, <3>1, <3>2 DEF InPhase, Sending
  <2>6. CASE Parameters[c] = 0
    <3>1. /\ stage' = "read" /\ left' = ResultBytes(c) /\ left' > 0 /\ doing' = c
          /\ moving' = 0 /\ bytes_expecting' = 0
      BY <2>1, <2>2, <2>3, <2>6 DEF AfterSending, Announced, ResultBytes
    <3>2. FloppyCounts' /\ Offered' = left'
      BY <2>2, <2>3, <2>6, <3>1 DEF FloppyCounts, Respond, ResultBytes, Offered
    <3> QED
      BY <2>4, <3>1, <3>2 DEF InPhase
  <2> QED
    BY <2>5, <2>6
<1>2. CASE SendParameter
  <2> USE DEF FloppyInv
  <2>1. /\ stage = "send" /\ stopped = "no" /\ Sending /\ Port3F5Write(doing) /\ UNCHANGED settings
        /\ ~ edge6 /\ ~ irq6 /\ ~ silent /\ moving = 0
        /\ IF left > 1 THEN left' = left - 1 /\ UNCHANGED <<doing, stage>> ELSE AfterSending(doing)
    BY <1>2 DEF SendParameter, InPhase
  <2>2. /\ bytes_expecting' = left - 1 /\ next_command' = next_command
        /\ IF left = 1 THEN Execute(next_command) ELSE UNCHANGED <<response, line6, moving, stopped, silent>>
    BY <2>1 DEF Port3F5Write, Sending
  <2>3. CASE left > 1
    <3>0. UNCHANGED <<response, line6, moving, stopped, silent>>
      BY <2>2, <2>3
    <3>1. FloppyFlags' /\ ~ edge6' /\ ~ irq6' /\ ~ silent'
      BY <2>1, <3>0, Zenon DEF FloppyFlags
    <3>2. FloppyCounts' /\ Offered' = Offered
      BY <2>1, <2>2, <2>3 DEF FloppyCounts, Offered, Sending
    <3> QED
      BY <2>1, <2>2, <2>3, <3>1, <3>2 DEF InPhase, Sending
  <2>4. CASE left = 1
    <3>1. Execute(next_command) /\ AfterSending(doing) /\ bytes_expecting' = 0 /\ Offered = 0
          /\ next_command \in {doing, "undefined"} /\ doing \in Commands
      BY <2>1, <2>2, <2>4 DEF Sending
    <3>2. /\ irq6' \in BOOLEAN /\ edge6' \in BOOLEAN /\ silent' \in BOOLEAN
          /\ response_index' \in 0 .. 7 /\ response_length' \in 0 .. 7 /\ moving' \in 0 .. 1
          /\ stopped' \in {"no", "command", "transfer"}
      BY <2>1, <3>1, ExecuteDoes
    <3>3. FloppyFlags'
      BY <2>1, <3>2, Zenon DEF FloppyFlags
    <3>4. FloppyCounts'
      BY <2>2, <3>1, <3>2 DEF FloppyCounts, AfterSending, ResultBytes
    <3>5. CASE stopped' = "no" /\ doing \notin Announced
      <4>1. /\ ~ edge6' /\ ~ irq6' /\ ~ silent' /\ moving' = 0 /\ next_command = doing
            /\ Offered' = IF doing = "check_drive" THEN 1 ELSE 0
        BY <2>1, <3>1, <3>5, ExecuteDoes
      <4>2. doing \in {"specify", "configure", "check_drive"}
        BY <2>1, <2>4, <3>5 DEF Sending, Announced
      <4>3. /\ left' = (IF doing = "check_drive" THEN 1 ELSE 0)
            /\ stage' = (IF doing = "check_drive" THEN "read" ELSE "idle")
        BY <3>1, <3>5, <4>2 DEF AfterSending, ResultBytes
      <4> QED
        BY <3>1, <3>3, <3>4, <4>1, <4>3 DEF InPhase
    <3>6. CASE stopped' = "no" /\ doing \in Announced
      <4>1. doing' = doing /\ stage' = "wait" /\ left' = 0
        BY <3>1, <3>6 DEF AfterSending
      <4>2. Answered(doing)' \/ AtWork(doing)' \/ Unanswered(doing)'
        BY <2>1, <3>1, <3>6, <4>1, ExecuteDoes DEF Answered, AtWork, Unanswered
      <4>3. Waiting'
        BY <3>1, <3>6, <4>1, <4>2 DEF Waiting
      <4> QED
        BY <3>3, <3>4, <4>1, <4>3 DEF InPhase
    <3>7. CASE stopped' # "no"
      BY <3>3, <3>4, <3>7
    <3> QED
      BY <3>5, <3>6, <3>7
  <2> QED
    BY <2>1, <2>3, <2>4 DEF Sending
<1>3. CASE SendSense
  <2> USE DEF FloppyInv
  <2>1. /\ stage = "sense" /\ stopped = "no" /\ bytes_expecting = 0 /\ UNCHANGED settings
        /\ ~ edge6 /\ ~ silent /\ moving = 0 /\ Port3F5Write("sense") /\ AfterSending("sense")
    BY <1>3 DEF SendSense, InPhase
  <2>2. Parameters["sense"] = 0 /\ "sense" \in Commands /\ ResultBytes("sense") = 2
    BY DEF ResultBytes
  <2>3. /\ bytes_expecting' = 0 /\ Respond(2) /\ UNCHANGED <<next_command, line6, moving, stopped, silent>>
    BY <2>1, <2>2 DEF Port3F5Write
  <2>4. doing' = "sense" /\ stage' = "read" /\ left' = 2
    BY <2>1, <2>2 DEF AfterSending, Announced
  <2>5. FloppyFlags' /\ ~ edge6' /\ ~ silent'
    BY <2>1, <2>3, Zenon DEF FloppyFlags
  <2>6. FloppyCounts' /\ Offered' = 2
    BY <2>1, <2>2, <2>3, <2>4 DEF FloppyCounts, Respond, Offered
  <2> QED
    BY <2>1, <2>3, <2>4, <2>5, <2>6 DEF InPhase
<1>4. CASE TakeInterrupt6
  <2> USE DEF FloppyInv
  <2>1. stage = "wait" /\ Waiting /\ edge6 /\ stopped = "no"
    BY <1>4 DEF TakeInterrupt6, InPhase
  <2>2. Answered(doing) /\ doing \in Announced /\ bytes_expecting = 0
    BY <2>1 DEF Waiting, AtWork, Unanswered
  <2>3. /\ edge6' = FALSE /\ silent' = FALSE /\ left' = ResultBytes(doing)
        /\ stage' = (IF ResultBytes(doing) > 0 THEN "read" ELSE "sense")
        /\ UNCHANGED <<command_state, response, settings, moving, irq6, stopped, doing>>
    BY <1>4, <2>1 DEF TakeInterrupt6
  <2>4. FloppyFlags' /\ ~ edge6' /\ ~ silent'
    BY <2>3, Zenon DEF FloppyFlags
  <2>5. FloppyCounts' /\ Offered' = ResultBytes(doing)
    BY <2>2, <2>3 DEF FloppyCounts, ResultBytes, Offered, Answered
  <2> QED
    BY <2>2, <2>3, <2>4, <2>5 DEF InPhase, ResultBytes, Announced, Answered
<1>5. CASE ReadResult
  <2> USE DEF FloppyInv
  <2>1. /\ stopped = "no" /\ stage = "read"
        /\ bytes_expecting = 0 /\ left = Offered /\ left > 0 /\ ~ edge6 /\ ~ silent /\ moving = 0
    BY <1>5 DEF ReadResult, InPhase
  <2>2. response_index < response_length
    BY <2>1 DEF Offered, FloppyCounts
  <2>3. /\ irq6' = FALSE /\ edge6' = FALSE /\ response_index' = response_index + 1
        /\ response_length' = response_length /\ left' = left - 1
        /\ stage' = (IF left = 1 THEN "idle" ELSE "read")
        /\ doing' = (IF left = 1 THEN "nothing" ELSE doing)
        /\ UNCHANGED <<command_state, settings, moving, stopped, silent>>
    BY <1>5, <2>2 DEF ReadResult, Port3F5Read, DeviceLowerIrq6
  <2>4. FloppyFlags' /\ ~ edge6' /\ ~ irq6' /\ ~ silent'
    BY <2>1, <2>3, Zenon DEF FloppyFlags
  <2>5. FloppyCounts' /\ Offered' = left'
    BY <2>1, <2>2, <2>3 DEF FloppyCounts, Offered
  <2> QED
    BY <2>1, <2>3, <2>4, <2>5 DEF InPhase, FloppyCounts
<1>6. CASE LeaveReset \/ ResetByDsr
  <2> USE DEF FloppyInv
  <2>1. /\ stopped = "no" /\ stage = "idle" /\ bytes_expecting = 0 /\ Offered = 0
        /\ ~ edge6 /\ ~ irq6 /\ ~ silent /\ moving = 0
    BY <1>6 DEF LeaveReset, ResetByDsr, InPhase
  <2>2. /\ DeviceRaiseIrq6 /\ doing' = "reset" /\ stage' = "wait" /\ left' = 0
        /\ running' \in BOOLEAN /\ irq_enabled' \in BOOLEAN
        /\ UNCHANGED <<command_state, response, fda_image, channel_pagehi, moving, stopped, silent>>
    BY <1>6, Zenon DEF LeaveReset, ResetByDsr, FloppyFlags
  <2>3. FloppyFlags' /\ edge6' /\ irq6' /\ ~ silent'
    BY <2>1, <2>2, Zenon DEF FloppyFlags, DeviceRaiseIrq6
  <2>4. FloppyCounts' /\ Offered' = 0 /\ ResultBytes("reset") = 0
    BY <2>1, <2>2 DEF FloppyCounts, Offered, ResultBytes
  <2>5. Waiting'
    BY <2>1, <2>2, <2>3, <2>4 DEF Waiting, Answered, Announced
  <2> QED
    BY <2>2, <2>3, <2>4, <2>5 DEF InPhase
<1>7. CASE EnterReset \/ ChangeImage
  <2>1. UNCHANGED <<command_state, response, moving, line6, floppy_driver, stopped, silent>>
    BY <1>7 DEF EnterReset, ChangeImage
  <2>2. FloppyFlags'
    BY <1>7, Zenon DEF EnterReset, ChangeImage, FloppyInv, FloppyFlags
  <2>3. FloppyCounts'
    BY <2>1 DEF FloppyInv, FloppyCounts
  <2>4. InPhase' <=> InPhase
    BY <2>1 DEF InPhase, Sending, Waiting, Answered, AtWork, Unanswered, Offered
  <2> QED
    BY <2>1, <2>2, <2>3, <2>4 DEF FloppyInv
<1>8. CASE SeeResults
  <2> USE DEF FloppyInv
  <2>1. Waiting /\ silent /\ Offered > 0 /\ stopped = "no"
    BY <1>8 DEF SeeResults, InPhase, Offered, FloppyCounts
  <2>2. Offered = ResultBytes(doing) /\ ~ edge6 /\ moving = 0 /\ bytes_expecting = 0
    BY <2>1 DEF Waiting, Answered, AtWork, Unanswered
  <2>3. FloppyFlags' /\ ~ silent' /\ ~ edge6'
    BY <1>8, <2>2, Zenon DEF SeeResults, FloppyFlags
  <2>4. FloppyCounts' /\ Offered' = Offered /\ stage' = "read" /\ left' = Offered /\ moving' = 0
        /\ bytes_expecting' = 0
    BY <1>8, <2>2 DEF SeeResults, FloppyCounts, ResultBytes, Offered
  <2> QED
    BY <2>1, <2>3, <2>4 DEF InPhase
<1>9. CASE GiveUp
  <2> USE DEF FloppyInv
  <2>1. Waiting /\ silent /\ Offered = 0
    BY <1>9 DEF GiveUp, InPhase, Offered, FloppyCounts
  <2>2. ~ edge6 /\ ~ irq6 /\ moving = 0 /\ bytes_expecting = 0
    BY <2>1 DEF Waiting, Answered, AtWork, Unanswered
  <2>3. FloppyFlags' /\ ~ silent' /\ ~ edge6' /\ ~ irq6'
    BY <1>9, <2>2, Zenon DEF GiveUp, FloppyFlags
  <2>4. FloppyCounts' /\ Offered' = 0 /\ stage' = "idle" /\ moving' = 0 /\ bytes_expecting' = 0
    BY <1>9, <2>1, <2>2 DEF GiveUp, FloppyCounts, Offered
  <2> QED
    BY <2>3, <2>4 DEF InPhase
<1>10. CASE TransferDone
  <2> USE DEF FloppyInv
  <2>1. stage = "wait" /\ Waiting /\ moving = 1 /\ stopped = "no"
    BY <1>10 DEF TransferDone, FloppyCounts, InPhase
  <2>2. /\ doing = "transfer" /\ ~ edge6 /\ ~ irq6 /\ ~ silent /\ left = 0 /\ bytes_expecting = 0
    BY <2>1 DEF Waiting, Answered, AtWork, Unanswered
  <2>3. /\ moving' = 0 /\ Respond(7) /\ RaiseIrq6 /\ silent' = (silent \/ ~ irq_enabled)
        /\ UNCHANGED <<command_state, settings, floppy_driver, stopped>>
    BY <1>10, <2>1 DEF TransferDone
  <2>4. /\ irq6' \in BOOLEAN /\ edge6' \in BOOLEAN
        /\ (irq6' <=> irq_enabled) /\ (edge6' <=> irq_enabled)
    BY <2>2, <2>3, RaiseIrq6Does
  <2>5. FloppyFlags' /\ (silent' <=> ~ irq_enabled)
    BY <2>2, <2>3, <2>4, Zenon DEF FloppyFlags
  <2>6. FloppyCounts' /\ Offered' = 7 /\ ResultBytes("transfer") = 7
    BY <2>3 DEF FloppyCounts, Respond, Offered, ResultBytes
  <2>7. Waiting'
    BY <2>1, <2>2, <2>3, <2>4, <2>5, <2>6 DEF Waiting, Answered, Unanswered, Announced
  <2> QED
    BY <2>1, <2>3, <2>5, <2>6, <2>7 DEF InPhase
<1>11. CASE FloppyRestored
  <2>1. /\ stopped = "no" /\ next_command' = "undefined" /\ moving' = 0 /\ silent' = (silent \/ moving > 0)
        /\ channel_pagehi' \in {channel_pagehi, TRUE}
        /\ UNCHANGED <<bytes_expecting, response, running, irq_enabled, fda_image, line6, floppy_driver, stopped>>
    BY <1>11 DEF FloppyRestored, DmaRestored
  <2>2. FloppyFlags' /\ (silent' <=> silent \/ moving > 0)
    BY <2>1, Zenon DEF FloppyInv, FloppyFlags
  <2>3. FloppyCounts' /\ Offered' = Offered
    BY <2>1 DEF FloppyInv, FloppyCounts, Offered
  <2>4. InPhase
    BY <2>1 DEF FloppyInv
  <2>5. CASE stage = "wait"
    <3>1. Waiting
      BY <2>4, <2>5 DEF InPhase
    <3>2. Waiting'
      BY <2>1, <2>2, <2>3, <3>1 DEF Waiting, Answered, AtWork, Unanswered
    <3> QED
      BY <2>1, <2>2, <2>3, <2>5, <3>2 DEF FloppyInv, InPhase
  <2>6. CASE stage # "wait"
    BY <2>1, <2>2, <2>3, <2>4, <2>6 DEF FloppyInv, InPhase, Sending
  <2> QED
    BY <2>5, <2>6
<1> QED
  BY <1>1, <1>2, <1>3, <1>4, <1>5, <1>6, <1>7, <1>8, <1>9, <1>10, <1>11 DEF FloppyNext

-----------------------------------------------------------------------------
(* The serial port.  PortIsServed is about a driver at rest; between, it   *)
(* takes that the line follows the causes, that a line which is up is      *)
(* known of, and that no cause is cleared while what it tells of is left.  *)

CauseTypes ==
    /\ ints \in SUBSET Causes /\ ier \in SUBSET Enables /\ iir \in Causes \cup {"NO_INT"}
    /\ line \in BOOLEAN /\ requested \in BOOLEAN

PortTypes ==
    /\ fifo \in BOOLEAN /\ dlab \in BOOLEAN /\ data_ready \in BOOLEAN /\ restored \in BOOLEAN
    /\ modem \in SUBSET Lines /\ delta \in SUBSET Lines /\ changed \in SUBSET Lines
    /\ driver \in {"idle", "identify", "receive", "transmit"}

PortCounts == input \in 0 .. MaxInput /\ to_send \in 0 .. MaxToSend

\* What CheckInterrupt leaves is there at any moment.
LineMatches == iir = Identified(ints, ier) /\ (line <=> iir # "NO_INT")

\* A line that is up is requested, or the handler is at it.
LineHeard == line => requested \/ driver # "idle"

\* Bytes not read have a cause thrown for them, and the transmit interrupt, where it
\* is enabled, is thrown except while the handler is about to send or to switch it off.
BytesThrown == ~ restored /\ input > 0 => "CTI" \in ints \/ "RDI" \in ints
TransmitThrown == "THRI" \in ier => "THRI" \in ints \/ driver \in {"receive", "transmit"}

UartInv ==
    /\ CauseTypes /\ PortTypes /\ PortCounts
    /\ LineMatches /\ LineHeard /\ BytesThrown /\ TransmitThrown /\ StatusIsTrue

LEMMA UartInitInv == UartInit => UartInv
<1> SUFFICES ASSUME UartInit PROVE UartInv
  OBVIOUS
<1>1. CauseTypes /\ LineMatches /\ LineHeard /\ TransmitThrown
  BY Zenon DEF UartInit, CauseTypes, LineMatches, LineHeard, TransmitThrown, Identified, Causes
<1>2. PortTypes
  BY Zenon DEF UartInit, PortTypes
<1>3. PortCounts
  BY BoundAssumption DEF UartInit, PortCounts
<1>4. ~ data_ready
  BY Zenon DEF UartInit
<1>5. BytesThrown /\ StatusIsTrue
  BY <1>4 DEF UartInit, BytesThrown, StatusIsTrue, DataReadyIsTrue, DeltasKept
<1> QED
  BY <1>1, <1>2, <1>3, <1>5 DEF UartInv

LEMMA UartInvImplies == UartInv => UartTypeOK /\ PortIsServed /\ StatusIsTrue
<1> SUFFICES ASSUME UartInv PROVE UartTypeOK /\ PortIsServed
  BY DEF UartInv
<1>1. UartTypeOK
  BY Zenon DEF UartInv, UartTypeOK, CauseTypes, PortTypes, PortCounts
<1>2. ASSUME driver = "idle", ~ requested
      PROVE  /\ ~ line
             /\ "RDI" \in ier /\ ~ restored => input = 0
             /\ "THRI" \in ier => to_send = 0
  <2>1. ~ line /\ Identified(ints, ier) = "NO_INT"
    BY <1>2 DEF UartInv, LineHeard, LineMatches
  <2>2. /\ "RDI" \in ier => "CTI" \notin ints /\ "RDI" \notin ints
        /\ "THRI" \in ier => "THRI" \notin ints
    BY <2>1 DEF Identified
  <2> QED
    BY <1>2, <2>1, <2>2 DEF UartInv, BytesThrown, TransmitThrown, PortCounts
<1> QED
  BY <1>1, <1>2 DEF PortIsServed

\* CheckInterrupt makes the line match whatever is thrown and enabled, with an edge
\* for a handler that was not at it.
LEMMA CheckInterruptDoes ==
    ASSUME CauseTypes, LineMatches, LineHeard, NEW C \in SUBSET Causes, NEW E \in SUBSET Enables,
           CheckInterrupt(C, E)
    PROVE  /\ CauseTypes' /\ LineMatches' /\ ints' = C /\ ier' = E
           /\ line' => requested' \/ driver # "idle"
<1>1. ints' = C /\ ier' = E /\ iir' = Identified(C, E) /\ SetLine(iir' # "NO_INT")
  BY DEF CheckInterrupt
<1>2. Identified(C, E) \in Causes \cup {"NO_INT"}
  BY DEF Identified, Causes
<1>3. line' \in BOOLEAN /\ (line' <=> iir' # "NO_INT")
  BY <1>1, Zenon DEF SetLine
<1>4. requested' \in BOOLEAN /\ (line' => requested' \/ (line /\ ~ requested))
  BY <1>1, <1>3, Zenon DEF SetLine, CauseTypes
<1>5. CauseTypes'
  BY <1>1, <1>2, <1>3, <1>4 DEF CauseTypes
<1>6. LineMatches'
  BY <1>1, <1>3 DEF LineMatches
<1> QED
  BY <1>1, <1>4, <1>5, <1>6 DEF LineHeard

\* The same when nothing is thrown, enabled or cleared.
LEMMA CauseUnchanged ==
    ASSUME CauseTypes, LineMatches, LineHeard, UNCHANGED cause
    PROVE  CauseTypes' /\ LineMatches' /\ ints' = ints /\ ier' = ier /\ (line' => requested' \/ driver # "idle")
BY Zenon DEF cause, CauseTypes, LineMatches, LineHeard

\* A read of port 0: the causes of the receiver go with its last byte.
LEMMA ReadDataDoes ==
    ASSUME UartInv, ReadData
    PROVE  /\ CauseTypes' /\ LineMatches' /\ (line' => requested' \/ driver # "idle")
           /\ data_ready' \in BOOLEAN /\ restored' \in BOOLEAN /\ input' \in 0 .. MaxInput
           /\ BytesThrown' /\ DataReadyIsTrue'
           /\ ier' = ier /\ ("THRI" \in ints => "THRI" \in ints')
<1> USE BoundAssumption DEF UartInv
<1>1. input' \in 0 .. MaxInput /\ (input' > 0 => input > 0)
  BY DEF ReadData, PortCounts
<1>2. CASE input' = 0
  <2>1. data_ready' = FALSE /\ restored' = FALSE /\ CheckInterrupt(ints \ {"CTI", "RDI"}, ier)
    BY <1>2 DEF ReadData
  <2>2. ints \ {"CTI", "RDI"} \in SUBSET Causes /\ ier \in SUBSET Enables
    BY DEF CauseTypes
  <2>3. /\ CauseTypes' /\ LineMatches' /\ (line' => requested' \/ driver # "idle")
        /\ ier' = ier /\ ints' = ints \ {"CTI", "RDI"}
    BY <2>1, <2>2, CheckInterruptDoes
  <2>4. data_ready' \in BOOLEAN /\ restored' \in BOOLEAN /\ ~ data_ready'
    BY <2>1, Zenon
  <2> QED
    BY <1>1, <1>2, <2>3, <2>4 DEF BytesThrown, DataReadyIsTrue
<1>3. CASE input' # 0
  <2>1. UNCHANGED <<cause, data_ready, restored>>
    BY <1>3 DEF ReadData
  <2>2. /\ CauseTypes' /\ LineMatches' /\ (line' => requested' \/ driver # "idle")
        /\ ints' = ints /\ ier' = ier
    BY <2>1, CauseUnchanged
  <2>3. data_ready' \in BOOLEAN /\ restored' \in BOOLEAN
        /\ (data_ready' <=> data_ready) /\ (restored' <=> restored)
    BY <2>1, Zenon DEF PortTypes
  <2>4. input' > 0 /\ input > 0
    BY <1>1, <1>3
  <2> QED
    BY <1>1, <2>2, <2>3, <2>4 DEF BytesThrown, DataReadyIsTrue, StatusIsTrue
<1> QED
  BY <1>2, <1>3

\* Writes throw, and clear nothing.
LEMMA WriteDataDoes ==
    ASSUME UartInv, WriteData
    PROVE  /\ CauseTypes' /\ LineMatches' /\ (line' => requested' \/ driver # "idle")
           /\ ints \subseteq ints' /\ "THRI" \in ints' /\ ier' = ier
<1>1. CheckInterrupt(ints \cup {"THRI"}, ier)
  BY DEF WriteData
<1>2. ints \cup {"THRI"} \in SUBSET Causes /\ ier \in SUBSET Enables
  BY DEF UartInv, CauseTypes, Causes
<1> QED
  BY <1>1, <1>2, CheckInterruptDoes DEF UartInv

LEMMA WriteIerDoes ==
    ASSUME UartInv, NEW on \in SUBSET Enables, WriteIer(on)
    PROVE  /\ CauseTypes' /\ LineMatches' /\ (line' => requested' \/ driver # "idle")
           /\ ints \subseteq ints' /\ ier' = on
           /\ "THRI" \in on \ ier => "THRI" \in ints'
<1> DEFINE C == IF "THRI" \in on \ ier THEN ints \cup {"THRI"} ELSE ints
<1>1. CheckInterrupt(C, on)
  BY DEF WriteIer
<1>2. C \in SUBSET Causes
  BY DEF UartInv, CauseTypes, Causes
<1> QED
  BY <1>1, <1>2, CheckInterruptDoes DEF UartInv

\* A step of the guest that leaves the receiver alone and clears no cause.
LEMMA GuestStep ==
    ASSUME UartInv, UNCHANGED <<receiver, modem_status, control>>,
           CauseTypes', LineMatches', ints \subseteq ints',
           line' => requested' \/ driver' # "idle", TransmitThrown',
           driver' \in {"idle", "identify", "receive", "transmit"}, to_send' \in 0 .. MaxToSend
    PROVE  UartInv'
<1> USE DEF UartInv, receiver, modem_status, control
<1>1. PortTypes' /\ StatusIsTrue'
  BY Zenon DEF PortTypes, StatusIsTrue, DataReadyIsTrue, DeltasKept
<1>2. PortCounts' /\ BytesThrown'
  BY DEF PortCounts, BytesThrown
<1> QED
  BY <1>1, <1>2 DEF LineHeard

LEMMA UartStep ==
    ASSUME UartInv, UartNext
    PROVE  UartInv'
<1> USE BoundAssumption DEF UartInv, uart_vars, receiver, modem_status, control, guest
<1>0. ints \in SUBSET Causes /\ ier \in SUBSET Enables
  BY DEF CauseTypes
<1>1. CASE DataReceived
  <2> DEFINE C == ints \cup {IF fifo THEN "CTI" ELSE "RDI"}
  <2>1. C \in SUBSET Causes
    BY <1>0 DEF Causes
  <2>2. CheckInterrupt(C, ier) /\ UNCHANGED <<modem_status, control, guest>>
    BY <1>1 DEF DataReceived
  <2>3. /\ CauseTypes' /\ LineMatches' /\ ints' = C /\ ier' = ier
        /\ line' => requested' \/ driver # "idle"
    BY <1>0, <2>1, <2>2, CheckInterruptDoes
  <2>4. PortTypes' /\ data_ready' /\ ~ restored'
    BY <1>1, <2>2, Zenon DEF DataReceived, PortTypes
  <2>5. PortCounts' /\ input' > 0
    BY <1>1, <2>2 DEF DataReceived, PortCounts
  <2>6. "CTI" \in ints' \/ "RDI" \in ints'
    BY <2>3
  <2>7. DeltasKept'
    BY <2>2 DEF StatusIsTrue, DeltasKept
  <2> QED
    BY <2>2, <2>3, <2>4, <2>5, <2>6, <2>7
    DEF LineHeard, BytesThrown, TransmitThrown, StatusIsTrue, DataReadyIsTrue
<1>2. CASE ModemStatusInput
  <2>1. PICK up \in SUBSET Lines, marked \in SUBSET Lines : SetModemStatus(up, marked)
    BY <1>2 DEF ModemStatusInput, PortTypes
  <2>2. UNCHANGED <<cause, receiver, control, guest>>
    BY <2>1 DEF SetModemStatus
  <2>3. /\ CauseTypes' /\ LineMatches' /\ ints' = ints /\ ier' = ier
        /\ line' => requested' \/ driver # "idle"
    BY <2>2, CauseUnchanged
  <2>4. PortTypes' /\ DeltasKept'
    BY <2>1, Zenon DEF SetModemStatus, Deltas, Differ, PortTypes, StatusIsTrue, DeltasKept
  <2>5. PortCounts' /\ BytesThrown' /\ DataReadyIsTrue'
    BY <2>2, <2>3 DEF PortCounts, BytesThrown, DataReadyIsTrue, StatusIsTrue
  <2> QED
    BY <2>2, <2>3, <2>4, <2>5 DEF LineHeard, TransmitThrown, StatusIsTrue
<1>3. CASE SerialInterrupt
  <2>1. /\ driver' = "identify" /\ requested' = FALSE /\ driver = "idle"
        /\ UNCHANGED <<ints, ier, iir, line, receiver, modem_status, control, to_send>>
    BY <1>3 DEF SerialInterrupt
  <2>2. CauseTypes' /\ PortTypes'
    BY <2>1, Zenon DEF CauseTypes, PortTypes
  <2>3. LineMatches' /\ LineHeard' /\ BytesThrown' /\ StatusIsTrue' /\ PortCounts'
    BY <2>1 DEF LineMatches, LineHeard, BytesThrown, StatusIsTrue, DataReadyIsTrue, DeltasKept, PortCounts
  <2>4. TransmitThrown'
    BY <2>1 DEF TransmitThrown
  <2> QED
    BY <2>2, <2>3, <2>4
<1>4. CASE Identify
  <2>1. /\ driver = "identify" /\ ReadIir /\ driver' = (IF iir = "NO_INT" THEN "idle" ELSE "receive")
        /\ UNCHANGED <<receiver, modem_status, control, to_send>>
    BY <1>4 DEF Identify
  <2>2. /\ CauseTypes' /\ LineMatches' /\ ier' = ier
        /\ ints' = IF iir = "THRI" THEN ints \ {"THRI"} ELSE ints
    BY <1>0, <2>1, CheckInterruptDoes, CauseUnchanged DEF ReadIir
  <2>3. PortTypes' /\ StatusIsTrue'
    BY <2>1, Zenon DEF PortTypes, StatusIsTrue, DataReadyIsTrue, DeltasKept
  <2>4. PortCounts' /\ BytesThrown'
    BY <2>1, <2>2 DEF PortCounts, BytesThrown
  <2>5. CASE iir = "NO_INT"
    <3>1. UNCHANGED cause
      BY <2>1, <2>5 DEF ReadIir
    <3>2. ~ line'
      BY <2>5, <3>1, Zenon DEF LineMatches, cause
    <3> QED
      BY <2>1, <2>2, <2>3, <2>4, <2>5, <3>2 DEF LineHeard, TransmitThrown
  <2>6. CASE iir # "NO_INT"
    BY <2>1, <2>2, <2>3, <2>4, <2>6 DEF LineHeard, TransmitThrown
  <2> QED
    BY <2>5, <2>6
<1>5. CASE Receive
  <2>1. driver = "receive" /\ UNCHANGED <<modem_status, control, to_send>>
    BY <1>5 DEF Receive
  <2>2. CASE data_ready
    <3>1. ReadData /\ driver' = driver
      BY <1>5, <2>2 DEF Receive
    <3>2. PortTypes'
      BY <2>1, <3>1, ReadDataDoes, Zenon DEF PortTypes
    <3> QED
      BY <2>1, <3>1, <3>2, ReadDataDoes
      DEF LineHeard, PortCounts, TransmitThrown, StatusIsTrue, DeltasKept
  <2>3. CASE ~ data_ready
    <3>1. driver' = "transmit" /\ UNCHANGED <<cause, receiver>>
      BY <1>5, <2>3 DEF Receive
    <3>2. PortTypes' /\ StatusIsTrue'
      BY <2>1, <3>1, Zenon DEF PortTypes, StatusIsTrue, DataReadyIsTrue, DeltasKept
    <3>3. CauseTypes' /\ LineMatches' /\ ints' = ints /\ ier' = ier
      BY <3>1, CauseUnchanged
    <3> QED
      BY <2>1, <3>1, <3>2, <3>3 DEF LineHeard, PortCounts, TransmitThrown, BytesThrown
  <2> QED
    BY <2>2, <2>3
<1>6. CASE Transmit
  <2>1. driver = "transmit" /\ UNCHANGED <<receiver, modem_status, control>>
    BY <1>6 DEF Transmit
  <2>2. CASE WriteData /\ to_send > 0 /\ to_send' = to_send - 1 /\ driver' \in {"transmit", "identify"}
    <3>1. to_send' \in 0 .. MaxToSend
      BY <2>2 DEF PortCounts
    <3> QED
      BY <2>1, <2>2, <3>1, WriteDataDoes, GuestStep DEF TransmitThrown
  <2>3. CASE WriteIer(ier \ {"THRI"}) /\ driver' = "identify" /\ to_send' = to_send
    <3>1. to_send' \in 0 .. MaxToSend
      BY <2>3 DEF PortCounts
    <3>2. ier \ {"THRI"} \in SUBSET Enables
      BY <1>0
    <3> QED
      BY <2>1, <2>3, <3>1, <3>2, WriteIerDoes, GuestStep DEF TransmitThrown
  <2>4. CASE "THRI" \notin ier /\ driver' = "identify" /\ UNCHANGED <<cause, to_send>>
    <3>1. to_send' \in 0 .. MaxToSend
      BY <2>4 DEF PortCounts
    <3>2. CauseTypes' /\ LineMatches' /\ ints' = ints /\ ier' = ier
      BY <2>4, CauseUnchanged
    <3> QED
      BY <2>1, <2>4, <3>1, <3>2, GuestStep DEF TransmitThrown
  <2> QED
    BY <1>6, <2>2, <2>3, <2>4 DEF Transmit
<1>7. CASE StartTransmit
  <2>1. /\ driver = "idle" /\ driver' = driver /\ to_send' = to_send + 1 /\ to_send < MaxToSend
        /\ UNCHANGED <<receiver, modem_status, control>>
    BY <1>7 DEF StartTransmit
  <2>2. to_send' \in 0 .. MaxToSend
    BY <2>1 DEF PortCounts
  <2>3. CASE UNCHANGED cause
    <3>1. CauseTypes' /\ LineMatches' /\ ints' = ints /\ ier' = ier
          /\ (line' => requested' \/ driver # "idle")
      BY <2>3, CauseUnchanged
    <3> QED
      BY <2>1, <2>2, <3>1, GuestStep DEF TransmitThrown
  <2>4. CASE WriteIer(ier \cup {"THRI"})
    <3>1. ier \cup {"THRI"} \in SUBSET Enables
      BY <1>0 DEF Enables
    <3> QED
      BY <2>1, <2>2, <2>4, <3>1, WriteIerDoes, GuestStep DEF TransmitThrown
  <2> QED
    BY <1>7, <2>3, <2>4 DEF StartTransmit
<1>8. CASE PortAccess
  <2>0. driver = "idle"
    BY <1>8 DEF PortAccess
  <2>1. ASSUME WriteData \/ \E on \in SUBSET Enables : WriteIer(on),
               UNCHANGED <<receiver, modem_status, control, guest>>
        PROVE  UartInv'
    <3>1. to_send' \in 0 .. MaxToSend /\ driver' = driver
      BY <2>1 DEF PortCounts
    <3> QED
      BY <2>0, <2>1, <3>1, WriteDataDoes, WriteIerDoes, GuestStep DEF TransmitThrown
  <2>2. CASE ReadData /\ UNCHANGED <<modem_status, control, guest>>
    <3>1. PortTypes'
      BY <2>2, ReadDataDoes, Zenon DEF PortTypes
    <3> QED
      BY <2>0, <2>2, <3>1, ReadDataDoes
      DEF LineHeard, PortCounts, TransmitThrown, StatusIsTrue, DeltasKept
  <2>3. ASSUME UNCHANGED <<cause, receiver, guest>>, PortTypes', DeltasKept'
        PROVE  UartInv'
    <3>1. CauseTypes' /\ LineMatches' /\ ints' = ints /\ ier' = ier /\ (line' => requested' \/ driver # "idle")
      BY <2>3, CauseUnchanged
    <3>2. DataReadyIsTrue'
      BY <2>3 DEF DataReadyIsTrue, StatusIsTrue
    <3> QED
      BY <2>3, <3>1, <3>2 DEF LineHeard, PortCounts, TransmitThrown, StatusIsTrue, BytesThrown
  <2>4. ASSUME ReadModemStatus PROVE UartInv'
    <3>1. PortTypes' /\ DeltasKept' /\ UNCHANGED <<cause, receiver, guest>>
      BY <2>4, Zenon DEF ReadModemStatus, PortTypes, DeltasKept
    <3> QED
      BY <2>3, <3>1
  <2>5. ASSUME \/ fifo' \in BOOLEAN /\ UNCHANGED <<cause, receiver, modem_status, dlab, guest>>
               \/ dlab' = ~ dlab /\ UNCHANGED <<cause, receiver, modem_status, fifo, guest>>
        PROVE  UartInv'
    <3>1. PortTypes' /\ DeltasKept' /\ UNCHANGED <<cause, receiver, guest>>
      BY <2>5, Zenon DEF PortTypes, DeltasKept, StatusIsTrue
    <3> QED
      BY <2>3, <3>1
  <2> QED
    BY <1>8, <2>1, <2>2, <2>3, <2>4, <2>5 DEF PortAccess
<1>9. CASE SerialRestored
  <2>1. /\ input' \in 0 .. MaxInput /\ restored' = TRUE
        /\ UNCHANGED <<cause, data_ready, modem_status, control, guest>>
    BY <1>9 DEF SerialRestored
  <2>2. PortTypes' /\ restored'
    BY <2>1, Zenon DEF PortTypes
  <2>3. CauseTypes' /\ LineMatches' /\ ints' = ints /\ ier' = ier /\ (line' => requested' \/ driver # "idle")
    BY <2>1, CauseUnchanged
  <2> QED
    BY <2>1, <2>2, <2>3
    DEF LineHeard, PortCounts, TransmitThrown, StatusIsTrue, DeltasKept, BytesThrown, DataReadyIsTrue
<1> QED
  BY <1>1, <1>2, <1>3, <1>4, <1>5, <1>6, <1>7, <1>8, <1>9 DEF UartNext, HostSide

-----------------------------------------------------------------------------
(* The sound card.  PlaysInTime compares a DMA channel, a count of bytes   *)
(* and a line with what was played; it takes that the channel's two        *)
(* counters agree, that a block is of whole samples, and that a buffer     *)
(* which does not start over has room for what is to come.                 *)

Channel == [addr : Nat, count : 0 .. CountWrap - 1, init : 0 .. CountWrap - 1, auto : BOOLEAN]

\* address and count of a channel move together, within the buffer or, when it does
\* not start over, up to its end, where count underflows.
Stands(ch) ==
    /\ ch.init + 1 < CountWrap
    /\ ch.addr <= ch.init + (IF ch.auto THEN 0 ELSE 1)
    /\ ch.count = (ch.init - ch.addr) % CountWrap

LEMMA GivenIs ==
    ASSUME NEW ch \in Channel, Stands(ch)
    PROVE  (ch.count + 1) % CountWrap = (ch.init + 1) - ch.addr
<1> DEFINE W == CountWrap
<1>1. W \in Nat \ {0} /\ ch.init \in 0 .. W - 1 /\ ch.init + 1 < W /\ ch.addr \in Nat /\ ch.addr <= ch.init + 1
  BY DmaAssumption DEF Channel, Stands
<1>2. ch.count = (ch.init - ch.addr) % W
  BY DEF Stands
<1> HIDE DEF W
<1>3. CASE ch.addr <= ch.init
  <2>1. ch.init - ch.addr \in 0 .. W - 1 /\ ch.init - ch.addr + 1 \in 0 .. W - 1
    BY <1>1, <1>3
  <2>2. ch.count = ch.init - ch.addr
    BY <1>1, <1>2, <2>1, Small
  <2> QED
    BY <1>1, <2>1, <2>2, Small DEF W
<1>4. CASE ch.addr = ch.init + 1
  <2>1. ch.init - ch.addr = -1 /\ W - 1 + 1 = W
    BY <1>1, <1>4
  <2>2. ch.count = W - 1
    BY <1>1, <1>2, <2>1, AtTheEnds
  <2> QED
    BY <1>1, <1>4, <2>1, <2>2, AtTheEnds DEF W
<1> QED
  BY <1>1, <1>3, <1>4

\* do_write moves a channel by what it is asked for, around the buffer when it
\* starts over.
LEMMA DoWriteDoes ==
    ASSUME NEW ch \in Channel, Stands(ch), NEW n \in Nat, ~ ch.auto => n <= (ch.init + 1) - ch.addr
    PROVE  /\ DoWrite(ch, n) \in Channel /\ Stands(DoWrite(ch, n))
           /\ DoWrite(ch, n).init = ch.init /\ DoWrite(ch, n).auto = ch.auto
           /\ DoWrite(ch, n).addr = IF ch.auto THEN (ch.addr + n) % (ch.init + 1) ELSE ch.addr + n
<1> DEFINE W == CountWrap
           B == ch.init + 1
           again == [ch EXCEPT !.addr = 0, !.count = ch.init]
           Moved(c, k) == [c EXCEPT !.addr = @ + k, !.count = (@ - k) % W]
<1>1. /\ W \in Nat \ {0} /\ ch.init \in 0 .. W - 1 /\ B \in Nat \ {0} /\ B < W
      /\ ch.addr \in Nat /\ ch.addr <= B /\ (ch.auto => ch.addr <= ch.init)
  <2>1. ch.init \in 0 .. W - 1 /\ ch.addr \in Nat /\ W \in Nat \ {0}
    BY DmaAssumption DEF Channel
  <2>2. ch.init + 1 < W /\ ch.addr <= ch.init + 1 /\ (ch.auto => ch.addr <= ch.init)
    BY <2>1 DEF Stands
  <2> QED
    BY <2>1, <2>2
<1>0. ch.count = (ch.init - ch.addr) % W
  BY DEF Stands
<1>2. (ch.count + 1) % W = B - ch.addr
  BY GivenIs, Zenon
<1>3. again \in Channel /\ again.init = ch.init /\ again.addr = 0 /\ again.count = ch.init /\ again.auto = ch.auto
  BY <1>1 DEF Channel
<1>4. (again.count + 1) % W = B
  <2>1. again.count + 1 = B /\ B \in 0 .. W - 1
    BY <1>1, <1>3
  <2> QED
    BY <1>1, <2>1, Small
<1>5. /\ n < B - ch.addr => DoWrite(ch, n) = Moved(ch, n)
      /\ ~ (n < B - ch.addr) /\ ~ ch.auto => DoWrite(ch, n) = Moved(ch, B - ch.addr)
      /\ ~ (n < B - ch.addr) /\ ch.auto => DoWrite(ch, n) = Moved(again, (n - (B - ch.addr)) % B)
  BY <1>2, <1>4, Zenon DEF DoWrite
<1>6. ASSUME NEW c \in Channel, NEW k \in Nat
      PROVE  /\ Moved(c, k) \in Channel
             /\ Moved(c, k).addr = c.addr + k /\ Moved(c, k).count = (c.count - k) % W
             /\ Moved(c, k).init = c.init /\ Moved(c, k).auto = c.auto
  <2> DEFINE x == (c.count - k) % W
             a == c.addr + k
             d == Moved(c, k)
  <2>1. x \in 0 .. W - 1
    <3>1. c.count - k \in Int
      BY <1>6, <1>1 DEF Channel
    <3> QED
      BY <3>1, <1>1, DivMod
  <2>2. a \in Nat
    BY DEF Channel
  <2>3. d = [c EXCEPT !.addr = a, !.count = x]
    OBVIOUS
  <2> HIDE DEF x, a, d
  <2>4. d \in Channel /\ d.addr = a /\ d.count = x /\ d.init = c.init /\ d.auto = c.auto
    BY <2>1, <2>2, <2>3 DEF Channel
  <2> QED
    BY <2>4 DEF x, a, d
<1> HIDE DEF W, B, again, Moved
<1>7. CASE n < B - ch.addr
  <2>1. DoWrite(ch, n) = Moved(ch, n) /\ ch.count = ch.init - ch.addr
    <3>1. ch.init - ch.addr \in 0 .. W - 1
      BY <1>1, <1>7 DEF B
    <3> QED
      BY <1>0, <1>1, <1>5, <1>7, <3>1, Small
  <2>2. (ch.count - n) % W = (ch.init - (ch.addr + n)) % W
    <3>1. ch.count - n = ch.init - (ch.addr + n)
      BY <1>1, <2>1
    <3> QED
      BY <3>1
  <2>3. (ch.addr + n) % B = ch.addr + n
    <3>1. ch.addr + n \in 0 .. B - 1
      BY <1>1, <1>7
    <3>2. B \in Nat \ {0}
      BY <1>1
    <3> QED
      BY <3>1, <3>2, Small
  <2>4. Stands(Moved(ch, n))
    <3>1. /\ Moved(ch, n).addr = ch.addr + n /\ Moved(ch, n).count = (ch.count - n) % W
          /\ Moved(ch, n).init = ch.init /\ Moved(ch, n).auto = ch.auto
      BY <1>6
    <3>2. ch.init + 1 < W /\ ch.addr + n <= ch.init
      BY <1>1, <1>7 DEF B
    <3> QED
      BY <1>1, <2>2, <3>1, <3>2 DEF Stands, W
  <2> QED
    BY <1>6, <2>1, <2>3, <2>4 DEF B
<1>8. CASE n >= B - ch.addr /\ ~ ch.auto
  <2>1. n = B - ch.addr
    BY <1>1, <1>8 DEF B
  <2>2. DoWrite(ch, n) = Moved(ch, n)
    BY <1>1, <1>5, <2>1, <1>8
  <2>3. (ch.count - n) % W = (ch.init - (ch.addr + n)) % W
    <3>1. ch.init - (ch.addr + n) = -1
      BY <1>1, <2>1 DEF B
    <3>2. CASE n = 0
      <4>1. ch.init - ch.addr = -1 /\ ch.count = W - 1 /\ ch.count - n = W - 1
        BY <1>0, <1>1, <3>1, <3>2, AtTheEnds
      <4> QED
        BY <1>1, <3>1, <4>1, AtTheEnds, Small
    <3>3. CASE n > 0
      <4>1. ch.init - ch.addr \in 0 .. W - 1
        BY <1>1, <2>1, <3>3 DEF B
      <4>2. ch.count - n = -1
        BY <1>0, <1>1, <2>1, <4>1, Small DEF B
      <4> QED
        BY <3>1, <4>2
    <3> QED
      BY <3>2, <3>3
  <2>4. Stands(Moved(ch, n))
    <3>1. /\ Moved(ch, n).addr = ch.addr + n /\ Moved(ch, n).count = (ch.count - n) % W
          /\ Moved(ch, n).init = ch.init /\ Moved(ch, n).auto = ch.auto
      BY <1>6
    <3>2. ch.init + 1 < W /\ ch.addr + n <= ch.init + 1
      BY <1>1, <2>1 DEF B
    <3> QED
      BY <1>1, <1>8, <2>3, <3>1, <3>2 DEF Stands, W
  <2> QED
    BY <1>6, <1>8, <2>2, <2>4
<1>9. CASE n >= B - ch.addr /\ ch.auto
  <2> DEFINE k == (n - (B - ch.addr)) % B
  <2>1. k \in 0 .. B - 1 /\ DoWrite(ch, n) = Moved(again, k)
    <3>1. n - (B - ch.addr) \in Int /\ ~ (n < B - ch.addr)
      BY <1>1, <1>9
    <3> QED
      <4>1. B \in Nat \ {0}
        BY <1>1
      <4>2. k \in 0 .. B - 1
        BY <3>1, <4>1, DivMod
      <4> QED
        BY <1>5, <1>9, <3>1, <4>2, Zenon
  <2>2. k = (ch.addr + n) % B
    <3>1. B * (-1) + (ch.addr + n) = n - (B - ch.addr) /\ ch.addr + n \in Int
      BY <1>1
    <3>2. B \in Nat \ {0} /\ -1 \in Int
      BY <1>1
    <3>3. (B * (-1) + (ch.addr + n)) % B = (ch.addr + n) % B
      BY <3>1, <3>2, AddMul
    <3> QED
      BY <3>1, <3>3
  <2> HIDE DEF k
  <2>3. k \in Nat /\ k <= ch.init
    BY <1>1, <2>1 DEF B
  <2>4. Stands(Moved(again, k))
    <3>1. /\ Moved(again, k).addr = 0 + k /\ Moved(again, k).count = (ch.init - k) % W
          /\ Moved(again, k).init = ch.init /\ Moved(again, k).auto = ch.auto
      BY <1>3, <1>6, <2>3
    <3>2. ch.init + 1 < W /\ 0 + k = k
      BY <1>1, <2>3 DEF B
    <3> QED
      BY <1>1, <1>9, <2>3, <3>1, <3>2 DEF Stands, W
  <2>5. /\ Moved(again, k) \in Channel /\ Moved(again, k).addr = k
        /\ Moved(again, k).init = ch.init /\ Moved(again, k).auto = ch.auto
    BY <1>3, <1>6, <2>3
  <2> QED
    BY <1>9, <2>1, <2>2, <2>4, <2>5 DEF B
<1> QED
  BY <1>1, <1>7, <1>8, <1>9

\* In a buffer of B transfers of u bytes, p bytes reach to the a-th.
Reaches(p, a, B, u) == a * u = p % (B * u)

\* Bytes played and transfers taken go round the buffer together.
LEMMA PositionMoves ==
    ASSUME NEW u \in {1, 2}, NEW B \in Nat \ {0}, NEW a \in Nat, NEW p \in Nat, NEW n \in Nat,
           Reaches(p, a, B, u)
    PROVE  Reaches(p + n * u, (a + n) % B, B, u)
<1>0. a * u = p % (B * u)
  BY DEF Reaches
<1> SUFFICES ((a + n) % B) * u = (p + n * u) % (B * u)
  BY DEF Reaches
<1>1. B * u \in Nat \ {0} /\ p \in Int
  OBVIOUS
<1>2. PICK q \in Int : p = (B * u) * q + (p % (B * u))
  BY <1>1, DivMod
<1>3. p + n * u = (B * u) * q + (a + n) * u
  <2> DEFINE m == (B * u) * q
  <2>1. p = m + a * u /\ m \in Int
    BY <1>0, <1>1, <1>2
  <2> HIDE DEF m
  <2>2. p + n * u = m + (a + n) * u
    BY <2>1
  <2> QED
    BY <2>2 DEF m
<1>4. (a + n) * u \in Int /\ a + n \in Int
  OBVIOUS
<1>5. (p + n * u) % (B * u) = ((a + n) * u) % (B * u)
  <2> DEFINE m == B * u
             r == (a + n) * u
  <2>1. m \in Nat \ {0} /\ r \in Int
    BY <1>1, <1>4
  <2>2. PICK k \in Int : p + n * u = m * k + r
    BY <1>2, <1>3
  <2> HIDE DEF m, r
  <2>3. (p + n * u) % m = r % m
    BY <2>1, <2>2, AddMul
  <2> QED
    BY <2>3 DEF m, r
<1>6. CASE u = 1
  BY <1>5, <1>6
<1>7. CASE u = 2
  <2>1. (2 * (a + n)) % (2 * B) = 2 * ((a + n) % B)
    BY <1>4, Doubled
  <2>2. (a + n) * u = 2 * (a + n) /\ B * u = 2 * B /\ (a + n) % B \in Int
    BY <1>4, <1>7, DivMod
  <2> QED
    BY <1>5, <1>7, <2>1, <2>2
<1> QED
  BY <1>6, <1>7

SoundFlags ==
    /\ dma_autoinit \in BOOLEAN /\ dma_waiting_transfer \in BOOLEAN /\ dma_paused \in BOOLEAN
    /\ irq5 \in BOOLEAN /\ edge5 \in BOOLEAN /\ handling5 \in BOOLEAN /\ probed \in BOOLEAN

SoundCounts ==
    /\ dma_channel \in Types \cup {None} /\ dma_irq \in Types \cup {None} /\ playing \in Types \cup {None}
    /\ irq_triggered \in SUBSET Types /\ masked \in SUBSET Types
    /\ dma_sample_count \in Nat /\ dma_bytes_count \in Nat /\ dma_bytes_block \in Nat
    /\ dma_bytes_left \in Nat /\ played \in Nat /\ begun \in Nat /\ signals \in Nat

ChannelsStand == channels \in [Types -> Channel] /\ \A c \in Types : Stands(channels[c])

\* The card transfers on the channel its driver plays on, and no more than it was told.
Owned ==
    /\ dma_channel # None => /\ playing = dma_channel /\ dma_irq = dma_channel
                             /\ dma_bytes_count > 0 /\ dma_bytes_block > 0
                             /\ dma_bytes_left <= dma_bytes_count
    /\ dma_channel = None => dma_bytes_left = 0 /\ ~ dma_waiting_transfer
    /\ dma_waiting_transfer => dma_bytes_left = 0

\* Blocks are of whole samples.
WholeSamples ==
    dma_channel = 16 =>
        dma_bytes_left % 2 = 0 /\ dma_bytes_count % 2 = 0 /\ dma_bytes_block % 2 = 0

\* What is to come fits into a buffer that does not start over.
ToCome == IF dma_waiting_transfer THEN dma_bytes_count ELSE dma_bytes_left
HasRoom ==
    dma_channel # None /\ ~ channels[dma_channel].auto =>
        /\ ~ dma_autoinit
        /\ ToCome <= ((channels[dma_channel].init + 1) - channels[dma_channel].addr) * Unit(dma_channel)

\* A line that is up is up for something the handler will see.
Triggered == irq5 => irq_triggered # {} \/ probed

SoundInv ==
    /\ SoundFlags /\ SoundCounts /\ ChannelsStand
    /\ Owned /\ WholeSamples /\ HasRoom /\ Triggered /\ PlaysInTime

LEMMA ProgrammedStands ==
    ASSUME NEW size \in 1 .. CountWrap - 1, NEW auto \in BOOLEAN
    PROVE  Programmed(size, auto) \in Channel /\ Stands(Programmed(size, auto))
<1>1. size - 1 \in 0 .. CountWrap - 1 /\ CountWrap \in Nat \ {0} /\ (size - 1) - 0 = size - 1
  BY DmaAssumption
<1>2. (size - 1) % CountWrap = size - 1
  BY <1>1, Small
<1> QED
  BY <1>1, <1>2 DEF Programmed, Channel, Stands

LEMMA Sb16InitInv == Sb16Init => SoundInv
<1> SUFFICES ASSUME Sb16Init PROVE SoundInv
  OBVIOUS
<1>1. SoundFlags /\ Triggered /\ SoundHeard /\ ~ dma_waiting_transfer
  BY Zenon DEF Sb16Init, SoundFlags, Triggered, SoundHeard
<1>2. SoundCounts
  BY DEF Sb16Init, SoundCounts, Types, None
<1>3. ChannelsStand
  <2>1. Programmed(1, FALSE) \in Channel /\ Stands(Programmed(1, FALSE))
    <3>1. 1 \in 1 .. CountWrap - 1 /\ FALSE \in BOOLEAN
      BY DmaAssumption
    <3> QED
      BY <3>1, ProgrammedStands
  <2>2. channels = [c \in Types |-> Programmed(1, FALSE)]
    BY DEF Sb16Init
  <2> QED
    BY <2>1, <2>2 DEF ChannelsStand
<1>4. Owned /\ WholeSamples /\ HasRoom /\ InPlace /\ SignalPerCount
  BY <1>1 DEF Sb16Init, Owned, WholeSamples, HasRoom, InPlace, SignalPerCount, None, Types
<1> QED
  BY <1>1, <1>2, <1>3, <1>4 DEF SoundInv, PlaysInTime

LEMMA SoundInvImplies == SoundInv => Sb16TypeOK /\ PlaysInTime
BY DEF SoundInv, SoundFlags, SoundCounts, ChannelsStand, Channel, Sb16TypeOK

\* A block: the channel, the count and the line move as one.
LEMMA BlockPlayed ==
    ASSUME SoundInv, DacHandleRequest
    PROVE  SoundInv'
<1> USE DEF SoundInv
<1> DEFINE c == dma_channel
           u == Unit(c)
           size == AtMostOf(dma_bytes_left, dma_bytes_block)
           n == size \div u
           ch == channels[c]
<1>1. /\ c \in Types /\ u \in {1, 2} /\ (c = 8 => u = 1) /\ (c = 16 => u = 2)
      /\ playing = c /\ dma_irq = c /\ dma_bytes_left > 0 /\ dma_bytes_count > 0
      /\ ~ dma_waiting_transfer /\ ch \in Channel /\ Stands(ch)
  BY DEF DacHandleRequest, Owned, SoundCounts, ChannelsStand, Unit, Types, None
<1>2. /\ channels' = [channels EXCEPT ![c] = DoWrite(ch, n)]
      /\ dma_bytes_left' = BytesLeft(dma_bytes_left, size)
      /\ played' = played + size
      /\ IF dma_bytes_left = size
         THEN RaiseIrq5({dma_irq}) /\ signals' = signals + 1
         ELSE UNCHANGED <<sound_line, signals>>
  BY DEF DacHandleRequest, DmaTransferNext
<1>3. UNCHANGED <<dma_channel, dma_irq, dma_autoinit, dma_sample_count, dma_bytes_count, dma_bytes_block,
                  dma_waiting_transfer, dma_paused, masked, handling5, playing, begun, probed>>
  BY DEF DacHandleRequest
<1>4. /\ size \in Nat /\ size > 0 /\ size <= dma_bytes_left /\ dma_bytes_left <= dma_bytes_count
      /\ (c = 16 => size % 2 = 0)
  BY <1>1 DEF AtMostOf, SoundCounts, Owned, WholeSamples, None, Types
<1>5. n \in Nat /\ size = n * u
  BY <1>1, <1>4 DEF Types
<1>6. ~ ch.auto => n <= (ch.init + 1) - ch.addr
  <2>1. ASSUME ~ ch.auto PROVE size <= ((ch.init + 1) - ch.addr) * u
    BY <1>1, <1>4, <2>1 DEF HasRoom, ToCome, Channel, None, Types, SoundCounts
  <2> QED
    BY <1>1, <1>5, <2>1 DEF Channel
<1>7. /\ DoWrite(ch, n) \in Channel /\ Stands(DoWrite(ch, n))
      /\ DoWrite(ch, n).init = ch.init /\ DoWrite(ch, n).auto = ch.auto
      /\ DoWrite(ch, n).addr = IF ch.auto THEN (ch.addr + n) % (ch.init + 1) ELSE ch.addr + n
  BY <1>1, <1>5, <1>6, DoWriteDoes
<1> HIDE DEF c, u, size, n, ch
<1>8. ChannelsStand' /\ channels'[c] = DoWrite(ch, n) /\ (\A d \in Types : d # c => channels'[d] = channels[d])
  BY <1>1, <1>2, <1>7 DEF ChannelsStand
<1>9. InPlace'
  <2> DEFINE B == ch.init + 1
  <2>1. /\ ch.addr * u = IF ch.auto THEN played % (B * u) ELSE played
        /\ ch.addr \in Nat /\ B \in Nat \ {0} /\ played \in Nat
    BY <1>1 DEF PlaysInTime, InPlace, c, u, ch, Channel, SoundCounts
  <2>2. DoWrite(ch, n).addr * u = IF ch.auto THEN played' % (B * u) ELSE played'
    <3>1. CASE ch.auto
      <4> DEFINE a == ch.addr
      <4>1. a * u = played % (B * u) /\ a \in Nat /\ B \in Nat \ {0} /\ played \in Nat
        BY <2>1, <3>1
      <4>2. u \in {1, 2} /\ n \in Nat
        BY <1>1, <1>5
      <4>3. DoWrite(ch, n).addr = (a + n) % B
        BY <1>7, <3>1
      <4> HIDE DEF a, B
      <4>4. ((a + n) % B) * u = (played + n * u) % (B * u)
        <5>1. Reaches(played, a, B, u)
          BY <4>1 DEF Reaches
        <5>2. Reaches(played + n * u, (a + n) % B, B, u)
          BY <4>1, <4>2, <5>1, PositionMoves
        <5> QED
          BY <5>2 DEF Reaches
      <4> QED
        BY <1>2, <1>5, <3>1, <4>3, <4>4
    <3>2. CASE ~ ch.auto
      <4>1. DoWrite(ch, n).addr = ch.addr + n
        BY <1>7, <3>2
      <4>2. ch.addr * u = played /\ ch.addr \in Nat /\ n \in Nat /\ u \in {1, 2}
        BY <1>1, <1>5, <2>1, <3>2
      <4>3. (ch.addr + n) * u = ch.addr * u + n * u
        BY <4>2
      <4> QED
        BY <1>2, <1>5, <3>2, <4>1, <4>2, <4>3
    <3> QED
      BY <3>1, <3>2
  <2>3. SUFFICES ASSUME NEW d \in Types, playing' = d
                 PROVE  channels'[d].addr * Unit(d) =
                            IF channels'[d].auto THEN played' % ((channels'[d].init + 1) * Unit(d)) ELSE played'
    BY DEF InPlace
  <2>4. d = c /\ Unit(d) = u /\ channels'[d] = DoWrite(ch, n)
    BY <1>1, <1>3, <1>8, <2>3 DEF u
  <2> QED
    BY <1>7, <2>2, <2>4
<1>10. SignalPerCount'
  <2> DEFINE p == signals * dma_bytes_count
  <2>1. /\ played \in Nat /\ begun \in Nat /\ signals \in Nat
        /\ dma_bytes_count \in Nat /\ dma_bytes_left \in Nat
    BY DEF SoundCounts
  <2>2. p \in Int /\ (signals + 1) * dma_bytes_count = p + dma_bytes_count
    BY <2>1
  <2>3. played - begun = p + (dma_bytes_count - dma_bytes_left)
    BY <1>1, <2>1 DEF PlaysInTime, SignalPerCount, c, Types, None
  <2> HIDE DEF p
  <2>4. CASE dma_bytes_left = size
    <3>1. signals' = signals + 1 /\ dma_bytes_left' = IF dma_autoinit THEN dma_bytes_count ELSE 0
      BY <1>2, <1>4, <2>4 DEF BytesLeft
    <3>2. signals' * dma_bytes_count = p + dma_bytes_count
      BY <2>2, <3>1
    <3>3. played' - begun = p + dma_bytes_count
      BY <1>2, <1>4, <2>1, <2>2, <2>3, <2>4
    <3> QED
      BY <1>1, <1>3, <2>1, <2>2, <3>1, <3>2, <3>3 DEF SignalPerCount
  <2>5. CASE dma_bytes_left # size
    <3>1. signals' = signals /\ dma_bytes_left' = dma_bytes_left - size /\ dma_bytes_left' > 0
      BY <1>2, <1>4, <2>1, <2>5 DEF BytesLeft, sound_line
    <3>2. signals' * dma_bytes_count = p
      BY <3>1 DEF p
    <3>3. played' - begun = p + (dma_bytes_count - dma_bytes_left')
      BY <1>2, <1>4, <2>1, <2>2, <2>3, <3>1
    <3> QED
      BY <1>3, <2>1, <2>2, <3>1, <3>2, <3>3 DEF SignalPerCount
  <2> QED
    BY <2>4, <2>5
<1>11. SoundFlags' /\ Triggered' /\ SoundHeard' /\ irq_triggered' \in SUBSET Types
  <2>1. CASE dma_bytes_left = size
    <3>1. RaiseIrq5({c})
      BY <1>1, <1>2, <2>1
    <3>2. SoundFlags'
      BY <1>3, <3>1, Zenon DEF RaiseIrq5, SoundFlags
    <3>3. c \in irq_triggered' /\ irq_triggered' \in SUBSET Types
      BY <1>1, <3>1 DEF RaiseIrq5, SoundCounts
    <3>4. SoundHeard'
      BY <1>3, <3>1, Zenon DEF RaiseIrq5, PlaysInTime, SoundHeard, SoundFlags
    <3> QED
      BY <3>2, <3>3, <3>4 DEF Triggered
  <2>2. CASE dma_bytes_left # size
    <3>1. UNCHANGED <<sound_line, dma_autoinit, dma_waiting_transfer, dma_paused, handling5, probed>>
      BY <1>2, <1>3, <2>2
    <3> QED
      BY <3>1, Zenon DEF sound_line, SoundFlags, Triggered, PlaysInTime, SoundHeard, SoundCounts
  <2> QED
    BY <2>1, <2>2
<1>12. SoundCounts' /\ Owned' /\ WholeSamples'
  <2>1. /\ dma_bytes_left' \in Nat /\ dma_bytes_left' <= dma_bytes_count
        /\ (c = 16 => dma_bytes_left' % 2 = 0)
    <3>1. dma_bytes_left \in Nat /\ dma_bytes_count \in Nat
          /\ (c = 16 => dma_bytes_left % 2 = 0 /\ dma_bytes_count % 2 = 0)
      BY DEF SoundCounts, WholeSamples, c
    <3> QED
      BY <1>2, <1>4, <3>1 DEF BytesLeft
  <2>2. played' \in Nat /\ signals' \in Nat
    BY <1>2, <1>4 DEF SoundCounts, sound_line
  <2>3. SoundCounts'
    BY <1>3, <1>11, <2>1, <2>2 DEF SoundCounts
  <2>4. Owned'
    BY <1>1, <1>3, <2>1 DEF Owned, c, Types, None
  <2>5. WholeSamples'
    BY <1>3, <2>1 DEF WholeSamples, c
  <2> QED
    BY <2>3, <2>4, <2>5
<1>13. HasRoom'
  <2>1. SUFFICES ASSUME ~ channels'[c].auto
                 PROVE  /\ ~ dma_autoinit'
                        /\ ToCome' <= ((channels'[c].init + 1) - channels'[c].addr) * u
    BY <1>3 DEF HasRoom, c, u
  <2>2. /\ ~ dma_autoinit /\ dma_bytes_left <= ((ch.init + 1) - ch.addr) * u /\ ~ ch.auto
    BY <1>1, <1>7, <1>8, <2>1 DEF HasRoom, ToCome, c, u, ch, Types, None
  <2>3. ToCome' = dma_bytes_left - size
    BY <1>1, <1>2, <1>3, <1>4, <2>2 DEF ToCome, BytesLeft, SoundCounts
  <2>4. channels'[c].init = ch.init /\ channels'[c].addr = ch.addr + n
    BY <1>7, <1>8, <2>2
  <2>5. dma_bytes_left - size <= ((ch.init + 1) - (ch.addr + n)) * u
    BY <1>1, <1>4, <1>5, <2>2 DEF Channel, SoundCounts
  <2> QED
    BY <1>3, <2>2, <2>3, <2>4, <2>5
<1> QED
  BY <1>8, <1>9, <1>10, <1>11, <1>12, <1>13 DEF PlaysInTime

\* A step that plays nothing and only touches the line, a mask, a pause or autoinit.
LEMMA Undisturbed ==
    ASSUME SoundInv, SoundFlags', Triggered', SoundHeard',
           irq_triggered' \in SUBSET Types, masked' \in SUBSET Types, dma_autoinit' => dma_autoinit,
           UNCHANGED <<dma_channel, dma_irq, dma_sample_count, dma_bytes_count, dma_bytes_block,
                       dma_bytes_left, dma_waiting_transfer, channels, playing, played, begun, signals>>
    PROVE  SoundInv'
<1> USE DEF SoundInv, PlaysInTime
<1>1. SoundCounts'
  BY DEF SoundCounts
<1>2. ChannelsStand' /\ InPlace'
  BY DEF ChannelsStand, InPlace
<1>3. Owned' /\ WholeSamples' /\ SignalPerCount'
  BY DEF Owned, WholeSamples, SignalPerCount
<1>4. HasRoom'
  BY DEF HasRoom, ToCome
<1> QED
  BY <1>1, <1>2, <1>3, <1>4

\* A transfer that begins: the counts start from nothing.
LEMMA BeginDoes ==
    ASSUME Begin, played \in Nat, dma_bytes_count' \in Nat, dma_bytes_count' > 0, played' = played
    PROVE  /\ ~ dma_waiting_transfer' /\ dma_waiting_transfer' \in BOOLEAN /\ dma_paused' \in BOOLEAN
           /\ dma_bytes_left' = dma_bytes_count' /\ begun' \in Nat /\ signals' = 0
           /\ SignalPerCount'
<1>1. ~ dma_waiting_transfer' /\ dma_waiting_transfer' \in BOOLEAN /\ dma_paused' \in BOOLEAN
  BY Zenon DEF Begin
<1>2. dma_bytes_left' = dma_bytes_count' /\ begun' = played /\ signals' = 0
  BY DEF Begin
<1>3. PICK d \in Nat : dma_bytes_count' = d
  OBVIOUS
<1>4. PICK b \in Nat : played = b
  OBVIOUS
<1>5. 0 * d = 0 /\ d - d = 0 /\ b - b = 0
  BY <1>3, <1>4
<1>6. played' = b /\ begun' = b /\ signals' = 0 /\ dma_bytes_left' = d
  BY <1>2, <1>3, <1>4
<1>7. b - b = 0 * d + IF d = 0 THEN 0 ELSE d - d
  BY <1>5
<1>8. SignalPerCount'
  BY <1>3, <1>6, <1>7, Zenon DEF SignalPerCount
<1>9. begun' \in Nat
  BY <1>2
<1> QED
  BY <1>1, <1>2, <1>8, <1>9, Zenon

LEMMA Sb16Step ==
    ASSUME SoundInv, Sb16Next
    PROVE  SoundInv'
<1> USE DEF SoundInv, PlaysInTime
<1>1. ASSUME NEW c \in Types, NEW size \in Buffers, NEW auto \in BOOLEAN, ProgramDma(c, size, auto)
      PROVE  SoundInv'
  <2>1. /\ playing = None /\ playing' = c /\ masked' = masked \cup {c}
        /\ channels' = [channels EXCEPT ![c] = Programmed(size, auto)]
        /\ played' = 0 /\ begun' = 0 /\ signals' = 0
        /\ UNCHANGED <<transfer, sound_line, handling5, probed>>
    BY <1>1 DEF ProgramDma
  <2>2. Programmed(size, auto) \in Channel /\ Stands(Programmed(size, auto))
    BY Sb16Assumption, ProgrammedStands
  <2>3. ChannelsStand' /\ channels'[c] = Programmed(size, auto)
    BY <2>1, <2>2 DEF ChannelsStand
  <2>4. dma_channel = None /\ dma_channel' = None
    BY <2>1 DEF Owned, transfer, SoundCounts, Types, None
  <2>5. SoundFlags' /\ Triggered' /\ SoundHeard'
    BY <2>1, Zenon DEF transfer, sound_line, SoundFlags, Triggered, SoundHeard
  <2>6. SoundCounts'
    BY <2>1 DEF transfer, sound_line, SoundCounts
  <2>7. Owned' /\ WholeSamples' /\ HasRoom' /\ SignalPerCount'
    BY <2>1, <2>4 DEF transfer, Owned, WholeSamples, HasRoom, SignalPerCount, Types, None
  <2>8. InPlace'
    <3>1. (size - 1) + 1 = size /\ size \in Nat \ {0} /\ size * Unit(c) \in Nat \ {0}
      BY Sb16Assumption, DmaAssumption DEF Unit
    <3>2. 0 % (size * Unit(c)) = 0
      BY <3>1, Small
    <3>3. SUFFICES ASSUME NEW d \in Types, playing' = d
                   PROVE  channels'[d].addr * Unit(d) =
                            IF channels'[d].auto THEN played' % ((channels'[d].init + 1) * Unit(d)) ELSE played'
      BY DEF InPlace
    <3>4. /\ d = c /\ channels'[d].addr = 0 /\ channels'[d].init = size - 1 /\ played' = 0
      BY <2>1, <2>3, <3>3 DEF Programmed
    <3>5. 0 * Unit(c) = 0
      BY DEF Unit
    <3>6. (channels'[d].init + 1) * Unit(d) = size * Unit(c)
      BY <3>1, <3>4
    <3> QED
      BY <3>2, <3>4, <3>5, <3>6, Zenon
  <2> QED
    BY <2>3, <2>5, <2>6, <2>7, <2>8
<1>2. ASSUME NEW c \in Types, Unmask(c)
      PROVE  SoundInv'
  <2>1. UNCHANGED <<dma_channel, dma_irq, dma_autoinit, dma_sample_count, dma_bytes_count, dma_bytes_block,
                    sound_line, channels, handling5, playing, played, probed>>
        /\ masked' = masked \ {c}
    BY <1>2 DEF Unmask
  <2>2. CASE dma_channel = c /\ dma_waiting_transfer
    <3>1. Begin /\ dma_bytes_count > 0 /\ dma_bytes_count \in Nat /\ played \in Nat
      BY <1>2, <2>2 DEF Unmask, Owned, SoundCounts, Types, None
    <3>2. /\ ~ dma_waiting_transfer' /\ dma_waiting_transfer' \in BOOLEAN /\ dma_paused' \in BOOLEAN
          /\ dma_bytes_left' = dma_bytes_count /\ begun' \in Nat /\ signals' = 0
          /\ SignalPerCount'
      BY <2>1, <3>1, BeginDoes
    <3>3. SoundFlags' /\ Triggered' /\ SoundHeard'
      BY <2>1, <3>2, Zenon DEF SoundFlags, Triggered, SoundHeard, sound_line
    <3>4. SoundCounts' /\ ChannelsStand' /\ InPlace'
      BY <2>1, <3>1, <3>2 DEF SoundCounts, ChannelsStand, InPlace, sound_line
    <3>5. Owned' /\ WholeSamples'
      <4>1. /\ dma_channel # None /\ playing = dma_channel /\ dma_irq = dma_channel
            /\ dma_bytes_block > 0 /\ dma_bytes_count <= dma_bytes_count
        BY <2>2, <3>1 DEF Owned, Types, None
      <4>2. Owned'
        BY <2>1, <3>1, <3>2, <4>1 DEF Owned
      <4>3. WholeSamples'
        BY <2>1, <3>2 DEF WholeSamples
      <4> QED
        BY <4>2, <4>3
    <3>6. HasRoom'
      BY <2>1, <2>2, <3>2 DEF HasRoom, ToCome
    <3> QED
      BY <3>2, <3>3, <3>4, <3>5, <3>6
  <2>3. CASE ~ (dma_channel = c /\ dma_waiting_transfer)
    <3>1. UNCHANGED <<dma_waiting_transfer, dma_paused, dma_bytes_left, begun, signals>>
      BY <1>2, <2>3 DEF Unmask
    <3>2. SoundFlags' /\ Triggered' /\ SoundHeard' /\ (dma_autoinit' => dma_autoinit)
      BY <2>1, <3>1, Zenon DEF SoundFlags, Triggered, SoundHeard, sound_line
    <3>3. irq_triggered' \in SUBSET Types /\ masked' \in SUBSET Types
      BY <2>1 DEF SoundCounts, sound_line
    <3> QED
      BY <2>1, <3>1, <3>2, <3>3, Undisturbed
  <2> QED
    BY <2>2, <2>3
<1>3. ASSUME NEW c \in Types, NEW samples \in Counts, NEW auto \in {FALSE, channels[c].auto},
             StartCommand(c, samples, auto)
      PROVE  SoundInv'
  <2> DEFINE count == samples * Unit(c)
             block == AtMostOf(AtLeastOf((count \div 16) * 4, LeastBlock), BlockSamples * Unit(c))
             ch == channels[c]
  <2>1. /\ playing = c /\ dma_bytes_left = 0 /\ ~ dma_waiting_transfer
        /\ ch.auto \/ ch.addr + samples <= ch.init + 1
        /\ UNCHANGED <<sound_line, dma_channels, handling5, playing, played, probed>>
    BY <1>3 DEF StartCommand
  <2>2. /\ dma_channel' = c /\ dma_irq' = c /\ dma_autoinit' = auto /\ dma_sample_count' = samples
        /\ dma_bytes_count' = count /\ dma_bytes_block' = block
        /\ IF c \in masked
           THEN dma_waiting_transfer' = TRUE /\ UNCHANGED <<dma_paused, dma_bytes_left, begun, signals>>
           ELSE Begin
    BY <1>3 DEF StartCommand, Start
  <2>3. /\ samples \in Nat \ {0} /\ count \in Nat \ {0} /\ (c = 16 => count % 2 = 0)
        /\ Unit(c) \in {1, 2} /\ (c = 8 => Unit(c) = 1) /\ (c = 16 => Unit(c) = 2)
    BY Sb16Assumption DEF Unit, Types
  <2>4. block \in Nat \ {0} /\ (c = 16 => block % 2 = 0)
    <3>1. PICK k \in Nat : count \div 16 = k
      BY <2>3
    <3>2. BlockSamples * Unit(c) \in Nat \ {0} /\ (c = 16 => (BlockSamples * Unit(c)) % 2 = 0)
      BY <2>3, Sb16Assumption
    <3> QED
      BY <3>1, <3>2, Sb16Assumption DEF AtMostOf, AtLeastOf
  <2>5. auto \in BOOLEAN /\ (~ ch.auto => ~ auto) /\ ch \in Channel
    BY DEF ChannelsStand, Channel
  <2>6. /\ SignalPerCount' /\ dma_bytes_left' \in Nat /\ begun' \in Nat /\ signals' \in Nat
        /\ dma_waiting_transfer' \in BOOLEAN /\ dma_paused' \in BOOLEAN
        /\ dma_bytes_left' = IF dma_waiting_transfer' THEN 0 ELSE count
    <3>1. CASE c \in masked
      <4>1. dma_waiting_transfer' /\ dma_waiting_transfer' \in BOOLEAN /\ dma_paused' \in BOOLEAN
        BY <2>2, <3>1, Zenon DEF SoundFlags
      <4>2. dma_bytes_left' = 0 /\ begun' \in Nat /\ signals' \in Nat
        BY <2>1, <2>2, <3>1 DEF SoundCounts
      <4> QED
        BY <4>1, <4>2 DEF SignalPerCount
    <3>2. CASE c \notin masked
      <4>1. Begin /\ dma_bytes_count' \in Nat /\ dma_bytes_count' > 0 /\ played \in Nat /\ played' = played
        BY <2>1, <2>2, <2>3, <3>2 DEF SoundCounts
      <4> QED
        BY <2>2, <2>3, <4>1, BeginDoes
    <3> QED
      BY <3>1, <3>2
  <2> HIDE DEF count, block
  <2>7. SoundFlags' /\ Triggered' /\ SoundHeard'
    BY <2>1, <2>2, <2>5, <2>6, Zenon DEF SoundFlags, Triggered, SoundHeard, sound_line
  <2>8. SoundCounts' /\ ChannelsStand' /\ InPlace'
    BY <2>1, <2>2, <2>3, <2>4, <2>6 DEF SoundCounts, ChannelsStand, InPlace, sound_line, dma_channels
  <2>9. Owned' /\ WholeSamples'
    BY <2>1, <2>2, <2>3, <2>4, <2>6 DEF Owned, WholeSamples, Types, None
  <2>10. HasRoom'
    <3>1. SUFFICES ASSUME ~ ch.auto
                   PROVE  ~ dma_autoinit' /\ ToCome' <= ((ch.init + 1) - ch.addr) * Unit(c)
      BY <2>1, <2>2 DEF HasRoom, dma_channels
    <3>2. ~ dma_autoinit'
      BY <2>2, <2>5, <3>1
    <3>3. ToCome' = count
      BY <2>2, <2>6 DEF ToCome
    <3>4. count <= ((ch.init + 1) - ch.addr) * Unit(c)
      BY <2>1, <2>3, <2>5, <3>1 DEF count, Channel
    <3> QED
      BY <3>2, <3>3, <3>4
  <2> QED
    BY <2>6, <2>7, <2>8, <2>9, <2>10
<1>4. CASE PauseOrExit
  <2>1. /\ UNCHANGED <<dma_channel, dma_irq, dma_sample_count, dma_bytes_count, dma_bytes_block, dma_bytes_left,
                        dma_waiting_transfer, sound_line, dma_channels, handling5, playing, sound_history>>
    BY <1>4 DEF PauseOrExit
  <2>2. SoundFlags' /\ (dma_autoinit' => dma_autoinit)
    <3>1. UNCHANGED <<irq5, edge5, handling5, probed, dma_waiting_transfer>>
      BY <2>1 DEF sound_line, sound_history
    <3>2. CASE dma_paused' = ~ dma_paused /\ UNCHANGED dma_autoinit
      BY <3>1, <3>2, Zenon DEF SoundFlags
    <3>3. CASE dma_autoinit' = FALSE /\ UNCHANGED dma_paused
      BY <3>1, <3>3, Zenon DEF SoundFlags
    <3> QED
      BY <1>4, <3>2, <3>3, Zenon DEF PauseOrExit
  <2>3. Triggered' /\ SoundHeard' /\ irq_triggered' \in SUBSET Types /\ masked' \in SUBSET Types
    BY <2>1, Zenon DEF Triggered, SoundHeard, SoundCounts, sound_line, dma_channels, sound_history
  <2> QED
    BY <2>1, <2>2, <2>3, Undisturbed DEF dma_channels, sound_history
<1>5. CASE ResetDsp
  <2>1. /\ TransferReset /\ LowerIrq5(Types) /\ playing' = None
        /\ UNCHANGED <<dma_channels, handling5, played, begun, signals>>
    BY <1>5 DEF ResetDsp
  <2>2. ~ irq5' /\ SoundFlags' /\ ~ dma_waiting_transfer'
    BY <1>5, <2>1, Zenon DEF ResetDsp, TransferReset, LowerIrq5, SoundFlags
  <2>3. SoundCounts'
    BY <2>1 DEF TransferReset, LowerIrq5, SoundCounts, dma_channels, None
  <2>4. ChannelsStand' /\ Owned' /\ WholeSamples' /\ HasRoom' /\ InPlace' /\ SignalPerCount'
    BY <2>1, <2>2 DEF TransferReset, ChannelsStand, dma_channels, Owned, WholeSamples, HasRoom, InPlace,
       SignalPerCount, None, Types
  <2> QED
    BY <2>2, <2>3, <2>4 DEF Triggered, SoundHeard
<1>6. CASE TriggerIrq \/ TakeInterrupt5 \/ SoundHandler \/ SoundRestored
  <2>1. UNCHANGED <<transfer, dma_channels, playing, played, begun, signals>>
    BY <1>6 DEF TriggerIrq, TakeInterrupt5, SoundHandler, SoundRestored, sound_history
  <2>2. irq_triggered' \in SUBSET Types
    BY <1>6 DEF TriggerIrq, TakeInterrupt5, SoundHandler, SoundRestored, RaiseIrq5, Acknowledge, LowerIrq5,
       SoundCounts, sound_line
  <2>3. UNCHANGED <<dma_channel, dma_irq, dma_autoinit, dma_sample_count, dma_bytes_count, dma_bytes_block,
                    dma_bytes_left, dma_waiting_transfer, dma_paused, channels, masked>>
    BY <2>1 DEF transfer, dma_channels
  <2>4. SoundFlags' /\ Triggered' /\ SoundHeard'
    <3>1. CASE TriggerIrq
      <4>1. irq5' = TRUE /\ edge5' = (edge5 \/ ~ irq5) /\ probed' = TRUE /\ handling5' = handling5
        BY <3>1 DEF TriggerIrq, RaiseIrq5
      <4> QED
        BY <2>3, <4>1, Zenon DEF SoundFlags, Triggered, SoundHeard
    <3>2. CASE TakeInterrupt5
      <4>1. edge5' = FALSE /\ handling5' = TRUE /\ UNCHANGED <<irq_triggered, irq5, probed>>
        BY <3>2 DEF TakeInterrupt5, sound_history
      <4> QED
        BY <2>3, <4>1, Zenon DEF SoundFlags, Triggered, SoundHeard
    <3>3. CASE SoundHandler
      <4>1. handling5 /\ handling5' = FALSE /\ probed' = probed
            /\ Acknowledge(IF 16 \in irq_triggered THEN 16 ELSE 8)
        BY <3>3 DEF SoundHandler, sound_history
      <4>2. CASE irq_triggered # {}
        <5>1. irq5' = FALSE /\ edge5' = FALSE
          BY <4>1, <4>2 DEF Acknowledge, LowerIrq5, SoundCounts, Types
        <5> QED
          BY <2>3, <4>1, <5>1, Zenon DEF SoundFlags, Triggered, SoundHeard
      <4>3. CASE irq_triggered = {}
        <5>1. UNCHANGED <<irq5, edge5, irq_triggered>>
          BY <4>1, <4>3 DEF Acknowledge, sound_line
        <5>2. irq5 => probed
          BY <4>3, Zenon DEF Triggered
        <5> QED
          BY <2>3, <4>1, <5>1, <5>2, Zenon DEF SoundFlags, Triggered, SoundHeard
      <4> QED
        BY <4>2, <4>3
    <3>4. CASE SoundRestored
      <4>1. UNCHANGED <<irq5, edge5, irq_triggered, handling5, probed>>
        BY <3>4 DEF SoundRestored, sound_line, sound_history
      <4> QED
        BY <2>3, <4>1, Zenon DEF SoundFlags, Triggered, SoundHeard
    <3> QED
      BY <1>6, <3>1, <3>2, <3>3, <3>4
  <2>5. masked' \in SUBSET Types /\ (dma_autoinit' => dma_autoinit)
    BY <2>3, Zenon DEF SoundCounts
  <2> QED
    BY <2>1, <2>2, <2>3, <2>4, <2>5, Undisturbed
<1> QED
  BY <1>1, <1>2, <1>3, <1>4, <1>5, <1>6, BlockPlayed DEF Sb16Next, SoundDriver

-----------------------------------------------------------------------------
(* The real time clock.  Its three promises do not depend on each other;   *)
(* what each takes is: that the line is up exactly for a reason, since a   *)
(* line already up makes no edge; that timer has not been called later     *)
(* than now; and that the loop wakes for whatever it knew of when it went  *)
(* to sleep, rather than that nothing has passed so far.                   *)

RtcFlags ==
    /\ periodic_enabled \in BOOLEAN /\ rate_set \in BOOLEAN /\ irq8 \in BOOLEAN /\ edge \in BOOLEAN
    /\ clock_handler \in BOOLEAN /\ asleep \in BOOLEAN

RtcCounts ==
    /\ now \in Nat \ {0} /\ period \in Periods /\ next_interrupt \in Nat /\ alarm \in Nat
    /\ wake \in Int /\ phase \in Nat /\ checked \in Nat /\ checked <= now

LineTells == (irq8 <=> flags # {}) /\ ReasonIsAnnounced

\* Enabling the interrupt sets its time, which is never 0, "none".
TimeIsSet == periodic_enabled => next_interrupt > 0

WakesInTime ==
    asleep /\ now < wake =>
        /\ periodic_interrupt => wake <= next_interrupt
        /\ alarm # 0 => wake <= alarm

RtcInv == RtcFlags /\ RtcCounts /\ LineTells /\ KeepsPhase /\ TimeIsSet /\ WakesInTime

LEMMA RtcInitInv == RtcInit => RtcInv
<1> SUFFICES ASSUME RtcInit PROVE RtcInv
  OBVIOUS
<1>1. RtcFlags /\ LineTells
  BY Zenon DEF RtcInit, RtcFlags, LineTells, ReasonIsAnnounced
<1>2. ~ periodic_enabled /\ ~ asleep
  BY Zenon DEF RtcInit
<1>3. period \in Periods
  BY TimeAssumption DEF RtcInit
<1>4. RtcCounts
  BY <1>3, TimeAssumption DEF RtcInit, RtcCounts
<1> QED
  BY <1>1, <1>2, <1>4 DEF RtcInv, KeepsPhase, TimeIsSet, WakesInTime, periodic_interrupt

LEMMA RtcInvImplies == RtcInv => KeepsTime
<1> SUFFICES ASSUME RtcInv, asleep, now < wake
             PROVE  /\ periodic_interrupt => next_interrupt >= now
                    /\ alarm # 0 => alarm >= now
  BY DEF RtcInv, KeepsTime, NothingMissed, LineTells
<1> QED
  BY DEF RtcInv, WakesInTime, RtcCounts

\* The soonest of at least one time and at most three.
LEMMA SoonestIs ==
    ASSUME NEW a \in Int, NEW B \in SUBSET Int, NEW C \in SUBSET Int,
           \A b, d \in B : b = d, \A c, d \in C : c = d
    PROVE  /\ Soonest({a} \cup B \cup C) \in Int
           /\ \A t \in {a} \cup B \cup C : Soonest({a} \cup B \cup C) <= t
<1> DEFINE S == {a} \cup B \cup C
<1>1. \E t \in S : \A u \in S : t <= u
  <2>1. PICK e \in {a} \cup B : \A u \in {a} \cup B : e <= u
    <3>1. CASE B = {}
      BY <3>1
    <3>2. ASSUME NEW b \in B PROVE \E t \in {a} \cup B : \A u \in {a} \cup B : t <= u
      <4>1. B = {b} /\ b \in Int
        BY <3>2
      <4> QED
        BY <4>1
    <3> QED
      BY <3>1, <3>2
  <2>2. CASE C = {}
    BY <2>1, <2>2
  <2>3. ASSUME NEW c \in C PROVE \E t \in S : \A u \in S : t <= u
    <3>1. C = {c} /\ c \in Int /\ e \in Int
      BY <2>1, <2>3
    <3>2. CASE e <= c
      BY <2>1, <3>1, <3>2
    <3>3. CASE ~ (e <= c)
      <4>1. \A u \in {a} \cup B : u \in Int
        OBVIOUS
      <4>2. \A u \in S : c <= u
        BY <2>1, <3>1, <3>3, <4>1
      <4> QED
        BY <4>2, <3>1
    <3> QED
      BY <3>2, <3>3
  <2> QED
    BY <2>2, <2>3
<1>2. Soonest(S) \in S /\ \A u \in S : Soonest(S) <= u
  BY <1>1 DEF Soonest
<1> QED
  BY <1>2

\* A sleep ends no later than anything it was computed from.
LEMMA SleepIs ==
    ASSUME NEW n \in Nat, NEW a \in Nat, now \in Nat
    PROVE  /\ Sleep(n, a) \in Int
           /\ periodic_interrupt /\ n # 0 => Sleep(n, a) <= AtLeast(0, n - now)
           /\ a # 0 => Sleep(n, a) <= AtLeast(0, a - now)
<1> DEFINE B == IF periodic_interrupt /\ n # 0 THEN {AtLeast(0, n - now)} ELSE {}
           C == IF a # 0 THEN {AtLeast(0, a - now)} ELSE {}
<1>1. AtLeast(0, n - now) \in Int /\ AtLeast(0, a - now) \in Int /\ MaxSleep \in Int
  BY TimeAssumption DEF AtLeast
<1>2. B \in SUBSET Int /\ C \in SUBSET Int /\ (\A b, d \in B : b = d) /\ (\A c, d \in C : c = d)
  BY <1>1
<1>3. Sleep(n, a) = Soonest({MaxSleep} \cup B \cup C)
  BY DEF Sleep
<1> HIDE DEF B, C
<1>4. /\ Soonest({MaxSleep} \cup B \cup C) \in Int
      /\ \A t \in {MaxSleep} \cup B \cup C : Soonest({MaxSleep} \cup B \cup C) <= t
  <2>1. MaxSleep \in Int /\ B \in SUBSET Int /\ C \in SUBSET Int
    BY <1>1, <1>2
  <2>2. (\A b, d \in B : b = d) /\ (\A c, d \in C : c = d)
    BY <1>2
  <2> QED
    BY <2>1, <2>2, SoonestIs
<1>5. /\ Sleep(n, a) \in Int
      /\ \A t \in B : Sleep(n, a) <= t
      /\ \A t \in C : Sleep(n, a) <= t
  <2>1. PICK z : z = Sleep(n, a) /\ z \in Int /\ \A t \in {MaxSleep} \cup B \cup C : z <= t
    BY <1>3, <1>4
  <2> QED
    BY <2>1
<1> QED
  BY <1>5 DEF B, C

\* A tick is moved on by whole periods, to now or less than a period later.
LEMMA NextTickIs ==
    ASSUME NEW n \in Nat, NEW t \in Nat, n < t, period \in Nat \ {0}
    PROVE  \E k \in Nat \ {0} :
               NextTick(n, t) = n + period * k /\ NextTick(n, t) \in t .. t + period - 1
<1>1. PICK p \in Nat \ {0} : p = period
  OBVIOUS
<1> DEFINE x == (t - n + p) - 1
           k == x \div p
<1>2. x \in Nat /\ x % p \in 0 .. p - 1 /\ x = p * k + (x % p) /\ k \in Int
  OBVIOUS
<1>3. NextTick(n, t) = n + p * k
  BY <1>1 DEF NextTick, CeilDiv
<1> HIDE DEF k
<1>4. p * k >= t - n /\ p * k <= (t - n + p) - 1 /\ p * k \in Int
  BY <1>2
<1>5. k \in Nat \ {0}
  BY <1>2, <1>4
<1> QED
  BY <1>1, <1>3, <1>4, <1>5

\* What the lines tell moves with a reason to interrupt.
LEMMA RaiseTells ==
    ASSUME RtcFlags, LineTells, NEW why, Raise(why), clock_handler' = clock_handler
    PROVE  LineTells' /\ irq8' \in BOOLEAN /\ edge' \in BOOLEAN
<1>1. flags' # {}
  BY DEF Raise
<1> QED
  BY <1>1, Zenon DEF Raise, RtcFlags, LineTells, ReasonIsAnnounced

\* timer: it moves the tick on, or says that none is due; then it says how long to sleep.
LEMMA TimerStep ==
    ASSUME RtcInv, Timer
    PROVE  RtcInv'
<1> USE DEF RtcInv
<1>1. /\ UNCHANGED <<now, periodic_enabled, rate_set, clock_handler, phase, period>>
      /\ wake' = now + Sleep(next_interrupt', alarm') /\ asleep' \in BOOLEAN
      /\ checked' = IF periodic_interrupt THEN now ELSE checked
  BY DEF Timer, enables, schedule
<1>2. periodic_interrupt' = periodic_interrupt
  BY <1>1, Zenon DEF periodic_interrupt
<1>3. /\ now \in Nat \ {0} /\ period \in Nat \ {0} /\ next_interrupt \in Nat /\ alarm \in Nat
      /\ phase \in Nat /\ checked \in Nat /\ checked <= now
  BY TimeAssumption DEF RtcCounts
<1>4. RtcFlags' /\ LineTells'
  <2>1. CASE Raise("PF") \/ Raise("AF")
    BY <1>1, <2>1, RaiseTells, Zenon DEF RtcFlags
  <2>2. CASE UNCHANGED <<schedule, reason>>
    <3>1. UNCHANGED <<flags, irq8, edge>>
      BY <2>2 DEF reason
    <3> QED
      BY <1>1, <3>1, Zenon DEF RtcFlags, LineTells, ReasonIsAnnounced
  <2> QED
    BY <2>1, <2>2 DEF Timer
<1>5. /\ next_interrupt' \in Nat /\ alarm' \in Nat
      /\ next_interrupt >= now => next_interrupt' = next_interrupt
      /\ next_interrupt' >= next_interrupt
  <2>1. CASE TickDue /\ next_interrupt' = NextTick(next_interrupt, now) /\ UNCHANGED <<period, alarm>>
    <3>1. next_interrupt < now
      BY <2>1 DEF TickDue
    <3>2. next_interrupt' \in now .. now + period - 1
      BY <1>3, <2>1, <3>1, NextTickIs
    <3> QED
      BY <1>3, <2>1, <3>1, <3>2
  <2>2. CASE alarm' = 0 /\ UNCHANGED <<period, next_interrupt>>
    BY <1>3, <2>2
  <2>3. CASE UNCHANGED schedule
    BY <1>3, <2>3 DEF schedule
  <2> QED
    BY <2>1, <2>2, <2>3 DEF Timer
<1>6. ASSUME periodic_interrupt
      PROVE  /\ next_interrupt' \in now .. now + period - 1 \/ next_interrupt' = phase
             /\ next_interrupt' >= now
             /\ next_interrupt' = phase \/ (next_interrupt' - phase) % period = 0
  <2>1. CASE TickDue /\ next_interrupt' = NextTick(next_interrupt, now)
    <3>1. next_interrupt < now
      BY <2>1 DEF TickDue
    <3>2. PICK k \in Nat \ {0} :
              next_interrupt' = next_interrupt + period * k /\ next_interrupt' \in now .. now + period - 1
      BY <1>3, <2>1, <3>1, NextTickIs
    <3>3. (next_interrupt' - phase) % period = 0
      <4>1. (next_interrupt - phase) % period = 0
        <5>1. CASE next_interrupt = phase
          <6>1. 0 % period = 0
            BY <1>3, Small
          <6> QED
            BY <1>3, <5>1, <6>1
        <5>2. CASE next_interrupt # phase
          BY <1>6, <5>2 DEF KeepsPhase
        <5> QED
          BY <5>1, <5>2
      <4> DEFINE m == period
                 r == next_interrupt - phase
      <4>2. m \in Nat \ {0} /\ r \in Int /\ r % m = 0 /\ k \in Int
        BY <1>3, <4>1
      <4>3. next_interrupt' - phase = m * k + r
        BY <1>3, <3>2
      <4> HIDE DEF m, r
      <4>4. (m * k + r) % m = 0
        BY <4>2, AddMul
      <4> QED
        BY <4>3, <4>4 DEF m
    <3> QED
      BY <1>3, <3>2, <3>3
  <2>2. CASE ~ TickDue /\ next_interrupt' = next_interrupt
    <3>1. next_interrupt >= now
      BY <1>3, <1>6, <2>2 DEF TickDue
    <3>2. next_interrupt # phase =>
              (next_interrupt - phase) % period = 0 /\ next_interrupt \in checked .. checked + period - 1
      BY <1>6 DEF KeepsPhase
    <3> QED
      BY <1>3, <2>2, <3>1, <3>2
  <2> QED
    BY <2>1, <2>2 DEF Timer, schedule
<1>7. KeepsPhase'
  <2>1. SUFFICES ASSUME periodic_interrupt', next_interrupt' # phase'
                 PROVE  /\ (next_interrupt' - phase') % period' = 0
                        /\ next_interrupt' \in checked' .. checked' + period' - 1
    BY DEF KeepsPhase
  <2>2. checked' = now /\ periodic_interrupt
    BY <1>1, <1>2, <2>1
  <2> QED
    BY <1>1, <1>6, <2>1, <2>2
<1>8. wake' \in Int /\ WakesInTime'
  <2>1. /\ Sleep(next_interrupt', alarm') \in Int
        /\ periodic_interrupt /\ next_interrupt' # 0 =>
               Sleep(next_interrupt', alarm') <= AtLeast(0, next_interrupt' - now)
        /\ alarm' # 0 => Sleep(next_interrupt', alarm') <= AtLeast(0, alarm' - now)
    BY <1>3, <1>5, SleepIs
  <2>2. PICK n \in Nat : n = next_interrupt'
    BY <1>5
  <2>3. PICK a \in Nat : a = alarm'
    BY <1>5
  <2>4. PICK s \in Int : s = Sleep(next_interrupt', alarm')
    BY <2>1
  <2>5. wake' = now + s /\ now' = now /\ now \in Nat
    BY <1>1, <1>3, <2>4
  <2>6. ASSUME periodic_interrupt, now < wake' PROVE wake' <= next_interrupt'
    <3>1. n # 0
      BY <1>3, <1>5, <2>2, <2>6 DEF TimeIsSet, periodic_interrupt
    <3>2. s <= AtLeast(0, n - now)
      BY <2>1, <2>2, <2>4, <2>6, <3>1
    <3>3. now < now + s
      BY <2>5, <2>6
    <3>4. now + s <= n
      BY <2>5, <3>2, <3>3 DEF AtLeast
    <3> QED
      BY <2>2, <2>5, <3>4, Zenon
  <2>7. ASSUME alarm' # 0, now < wake' PROVE wake' <= alarm'
    <3>1. s <= AtLeast(0, a - now)
      BY <2>1, <2>3, <2>4, <2>7
    <3>2. now < now + s
      BY <2>5, <2>7
    <3>3. now + s <= a
      BY <2>5, <3>1, <3>2 DEF AtLeast
    <3> QED
      BY <2>3, <2>5, <3>3, Zenon
  <2> QED
    BY <1>2, <2>5, <2>6, <2>7 DEF WakesInTime
<1>9. RtcCounts' /\ TimeIsSet'
  BY <1>1, <1>3, <1>5, <1>8, TimeAssumption DEF RtcCounts, TimeIsSet
<1> QED
  BY <1>4, <1>7, <1>8, <1>9

LEMMA RtcStep ==
    ASSUME RtcInv, [RtcNext]_rtc_vars
    PROVE  RtcInv'
<1> USE DEF RtcInv
<1>1. CASE WriteRate
  <2>1. /\ ~ asleep /\ rate_set' \in BOOLEAN /\ period' \in Periods /\ phase' = next_interrupt
        /\ UNCHANGED <<now, periodic_enabled, next_interrupt, alarm, flags, irq8, edge, clock_handler, wake,
                       asleep, checked>>
    BY <1>1 DEF WriteRate, reason, loop
  <2>2. RtcFlags' /\ LineTells' /\ ~ asleep'
    BY <2>1, Zenon DEF RtcFlags, LineTells, ReasonIsAnnounced
  <2> QED
    BY <2>1, <2>2 DEF RtcCounts, KeepsPhase, TimeIsSet, WakesInTime
<1>2. CASE WriteEnables
  <2>1. /\ ~ asleep /\ periodic_enabled' \in BOOLEAN
        /\ IF periodic_enabled' THEN next_interrupt' = now /\ phase' = now
           ELSE UNCHANGED <<next_interrupt, phase>>
        /\ alarm' \in {alarm} \cup {t \in 1 .. MaxTime : t % Step = 0}
        /\ UNCHANGED <<now, rate_set, period, flags, irq8, edge, clock_handler, wake, asleep, checked>>
    BY <1>2 DEF WriteEnables, reason, loop
  <2>2. RtcFlags' /\ LineTells' /\ ~ asleep'
    BY <2>1, Zenon DEF RtcFlags, LineTells, ReasonIsAnnounced
  <2>3. next_interrupt' \in {now, next_interrupt} /\ phase' \in {now, phase} /\ alarm' \in Nat
    BY <2>1 DEF RtcCounts
  <2>4. TimeIsSet'
    BY <2>1 DEF RtcCounts, TimeIsSet
  <2>5. RtcCounts'
    BY <2>1, <2>3 DEF RtcCounts
  <2> QED
    BY <2>1, <2>2, <2>4, <2>5 DEF KeepsPhase, WakesInTime, periodic_interrupt
<1>3. CASE ReadRegisterC
  <2>1. /\ flags' = {} /\ irq8' = FALSE /\ edge' \in {edge, FALSE} /\ clock_handler' = FALSE
        /\ UNCHANGED <<now, periodic_enabled, rate_set, period, next_interrupt, alarm, wake, asleep, phase, checked>>
    BY <1>3 DEF ReadRegisterC, ReadReason, enables, schedule, loop
  <2>2. RtcFlags' /\ LineTells'
    BY <2>1, Zenon DEF RtcFlags, LineTells, ReasonIsAnnounced
  <2> QED
    BY <2>1, <2>2 DEF RtcCounts, KeepsPhase, TimeIsSet, WakesInTime, periodic_interrupt
<1>4. CASE ClockInterrupt
  <2>1. /\ clock_handler' = TRUE /\ edge' = FALSE /\ asleep' = FALSE
        /\ UNCHANGED <<now, periodic_enabled, rate_set, period, next_interrupt, alarm, flags, irq8, wake, phase,
                       checked>>
    BY <1>4 DEF ClockInterrupt, enables, schedule
  <2>2. RtcFlags' /\ LineTells' /\ ~ asleep'
    BY <2>1, Zenon DEF RtcFlags, LineTells, ReasonIsAnnounced
  <2> QED
    BY <2>1, <2>2 DEF RtcCounts, KeepsPhase, TimeIsSet, WakesInTime, periodic_interrupt
<1>5. CASE ClockMoves
  <2>1. /\ now' = now + Step
        /\ UNCHANGED <<periodic_enabled, rate_set, period, next_interrupt, alarm, flags, irq8, edge, clock_handler,
                       wake, asleep, phase, checked>>
    BY <1>5 DEF ClockMoves, enables, schedule, reason, loop
  <2>2. RtcFlags' /\ LineTells'
    BY <2>1, Zenon DEF RtcFlags, LineTells, ReasonIsAnnounced
  <2>3. RtcCounts' /\ now < now'
    BY <2>1, TimeAssumption DEF RtcCounts
  <2> QED
    BY <2>1, <2>2, <2>3 DEF RtcCounts, KeepsPhase, TimeIsSet, WakesInTime, periodic_interrupt
<1>6. CASE ClockRestored
  <2>1. /\ now' \in now .. MaxTime /\ asleep' = FALSE
        /\ UNCHANGED <<periodic_enabled, rate_set, period, next_interrupt, alarm, flags, irq8, edge, clock_handler,
                       wake, phase, checked>>
    BY <1>6 DEF ClockRestored, enables, schedule, reason
  <2>2. RtcFlags' /\ LineTells' /\ ~ asleep'
    BY <2>1, Zenon DEF RtcFlags, LineTells, ReasonIsAnnounced
  <2>3. RtcCounts'
    BY <2>1, TimeAssumption DEF RtcCounts
  <2> QED
    BY <2>1, <2>2, <2>3 DEF KeepsPhase, TimeIsSet, WakesInTime, periodic_interrupt
<1>7. CASE UNCHANGED rtc_vars
  <2>1. UNCHANGED <<now, periodic_enabled, rate_set, period, next_interrupt, alarm, flags, irq8, edge,
                    clock_handler, wake, asleep, phase, checked>>
    BY <1>7 DEF rtc_vars, enables, schedule, reason, loop
  <2>2. RtcFlags' /\ LineTells'
    BY <2>1, Zenon DEF RtcFlags, LineTells, ReasonIsAnnounced
  <2> QED
    BY <2>1, <2>2 DEF RtcCounts, KeepsPhase, TimeIsSet, WakesInTime, periodic_interrupt
<1> QED
  BY <1>1, <1>2, <1>3, <1>4, <1>5, <1>6, <1>7, TimerStep DEF RtcNext

LEMMA RtcInvariance == RtcSpec => []RtcInv
BY RtcInitInv, RtcStep, PTL DEF RtcSpec

-----------------------------------------------------------------------------
(* The power management timer.                                             *)

\* The timer is not ahead of the clock but for its own small steps.
PmInv ==
    /\ time \in Nat /\ timer_last_value \in Nat /\ timer_imprecision_offset \in 0 .. Imprecision
    /\ timer_last_value <= PmTime

PmTimeAt(t) == (2 * t * PmTicks + PmUnits) \div (2 * PmUnits)

LEMMA PmTimeGrows ==
    ASSUME NEW t \in Nat, NEW u \in Nat, t <= u
    PROVE  PmTimeAt(t) \in Nat /\ PmTimeAt(t) <= PmTimeAt(u)
<1> DEFINE x == 2 * t * PmTicks + PmUnits
           y == 2 * u * PmTicks + PmUnits
           m == 2 * PmUnits
<1>1. 2 * t * PmTicks \in Nat /\ 2 * u * PmTicks \in Nat /\ 2 * t * PmTicks <= 2 * u * PmTicks
  BY TimersAssumption
<1>2. x \in Int /\ y \in Int /\ x <= y /\ x >= 0 /\ m \in Nat \ {0}
  BY <1>1, TimersAssumption
<1> HIDE DEF x, y, m
<1>3. x \div m <= y \div m /\ x \div m \in Int /\ x \div m >= 0
  BY <1>2, DivGrows
<1> QED
  BY <1>3 DEF x, y, m, PmTimeAt

LEMMA PmInitInv == TimersInit => PmInv
<1> SUFFICES ASSUME TimersInit PROVE PmInv
  OBVIOUS
<1>1. time = 0 /\ timer_last_value = 0 /\ timer_imprecision_offset = 0
  BY DEF TimersInit
<1>2. PmTime = PmTimeAt(0) /\ PmTimeAt(0) \in Nat
  BY <1>1, PmTimeGrows DEF PmTime, PmTimeAt
<1> QED
  BY <1>1, <1>2, TimersAssumption DEF PmInv

LEMMA PmStep ==
    ASSUME PmInv, [PmTimerNext]_timers_vars
    PROVE  PmInv' /\ PmRead' >= PmRead /\ PmRead' <= PmTime' + Imprecision
<1>1. CASE ReadPmTimer
  <2>1. time' = time /\ PmTime' = PmTime /\ PmTime \in Nat
    <3>1. PmTime = PmTimeAt(time) /\ PmTimeAt(time) \in Nat
      BY PmTimeGrows DEF PmTime, PmTimeAt, PmInv
    <3> QED
      BY <1>1, <3>1 DEF ReadPmTimer, PmTime
  <2>2. \/ /\ PmTime = timer_last_value /\ timer_last_value' = timer_last_value
           /\ timer_imprecision_offset' \in {timer_imprecision_offset, timer_imprecision_offset + 1}
           /\ timer_imprecision_offset' <= Imprecision
        \/ PmRead <= PmTime /\ timer_imprecision_offset' = 0 /\ timer_last_value' = PmTime
        \/ UNCHANGED <<timer_imprecision_offset, timer_last_value>>
    BY <1>1, TimersAssumption DEF ReadPmTimer, GetTimer, PmInv
  <2> HIDE DEF PmTime
  <2> QED
    BY <2>1, <2>2, TimersAssumption DEF PmInv, PmRead
<1>2. CASE TimePasses
  <2>1. /\ time' = time + 1 /\ timer_last_value' = timer_last_value
        /\ timer_imprecision_offset' = timer_imprecision_offset
    BY <1>2 DEF TimePasses, pm_timer
  <2>2. PmTime \in Nat /\ PmTime' \in Nat /\ PmTime <= PmTime'
    <3>1. PICK t \in Nat : t = time
      BY DEF PmInv
    <3>2. PmTime = PmTimeAt(t) /\ PmTime' = PmTimeAt(t + 1)
      BY <2>1, <3>1 DEF PmTime, PmTimeAt
    <3>3. t + 1 \in Nat /\ t <= t + 1
      OBVIOUS
    <3>4. PmTimeAt(t) \in Nat /\ PmTimeAt(t + 1) \in Nat /\ PmTimeAt(t) <= PmTimeAt(t + 1)
      BY <3>3, PmTimeGrows
    <3> QED
      BY <3>2, <3>4
  <2>3. PmInv'
    BY <2>1, <2>2 DEF PmInv
  <2>4. PICK r \in Nat : r = PmRead /\ PmRead' = r
    BY <2>1, TimersAssumption DEF PmInv, PmRead
  <2>5. PICK q \in Nat : q = PmTime'
    BY <2>2
  <2>6. PICK p \in Nat : p = PmTime
    BY <2>2
  <2>7. timer_last_value <= q /\ timer_last_value \in Nat
    BY <2>2, <2>5, <2>6 DEF PmInv
  <2>8. r <= q + Imprecision
    BY <2>4, <2>7, TimersAssumption DEF PmInv, PmRead
  <2> QED
    BY <2>3, <2>4, <2>5, <2>8
<1>3. CASE UNCHANGED timers_vars
  <2>1. UNCHANGED <<time, timer_last_value, timer_imprecision_offset>> /\ PmTime' = PmTime /\ PmTime \in Nat
    <3>1. PmTime = PmTimeAt(time) /\ PmTimeAt(time) \in Nat
      BY PmTimeGrows DEF PmTime, PmTimeAt, PmInv
    <3> QED
      BY <1>3, <3>1 DEF timers_vars, pm_timer, PmTime
  <2> QED
    BY <2>1, TimersAssumption DEF PmInv, PmRead
<1> QED
  BY <1>1, <1>2, <1>3 DEF PmTimerNext

-----------------------------------------------------------------------------
(* The counter of the interval timer.  What PitKeepsTime takes: the state  *)
(* of the port between the two bytes of a write, since a byte alone leaves *)
(* a reload value that is neither the old nor the new one; a reload value  *)
(* that is not zero while the counter runs; a clock not behind the start   *)
(* of the counter unless a state was restored; and a sleep that ends       *)
(* before the counter rolls over, at whatever time one looks at it.        *)

PitFlags ==
    /\ counter_enabled \in BOOLEAN /\ irq0 \in BOOLEAN /\ edge0 \in BOOLEAN
    /\ sleeping \in BOOLEAN /\ heard \in BOOLEAN

PitCounts ==
    /\ time \in Nat /\ counter_reload \in 0 .. Largest /\ counter_start_value \in Nat
    /\ counter_start_time \in Nat /\ counter_next_low \in {0, 1}
    /\ access \in {"none", "program", "write", "read"} /\ wanted \in 0 .. Largest
    /\ wake_up \in Int /\ zero \in Int /\ slips \in Nat

Programming ==
    /\ access = "program" => counter_next_low = 1
    /\ access = "write" => counter_next_low = 0 /\ counter_reload % Byte = wanted % Byte

Reloads == counter_enabled /\ access # "write" => counter_reload > 0

ClockRuns == zero # Unknown => counter_start_time <= time

WakesForIt ==
    sleeping /\ counter_enabled =>
        /\ counter_start_time <= time
        /\ wake_up - counter_start_time < (counter_start_value + 1) * Tick

PitInv ==
    /\ PitFlags /\ PitCounts /\ Programming /\ Reloads /\ ClockRuns
    /\ PhaseKept /\ WakesForIt /\ RolloverHeard /\ CountsFromWritten

LEMMA PitInitInv == TimersInit => PitInv
<1> SUFFICES ASSUME TimersInit PROVE PitInv
  OBVIOUS
<1>1. PitFlags /\ RolloverHeard /\ ~ counter_enabled /\ ~ sleeping
  BY Zenon DEF TimersInit, PitFlags, RolloverHeard
<1>2. 0 \in 0 .. Largest
  <2>1. Byte * Byte \in Nat /\ Byte * Byte > 0
    BY TimersAssumption
  <2> QED
    BY <2>1 DEF Largest
<1>3. PitCounts /\ Programming /\ ClockRuns
  BY <1>2 DEF TimersInit, PitCounts, Programming, ClockRuns, Unknown
<1> QED
  BY <1>1, <1>3 DEF PitInv, Reloads, PhaseKept, WakesForIt, CountsFromWritten

\* A counter that has not rolled over by the time the loop is to wake does not
\* before.
LEMMA PitInvImplies == PitInv => PitKeepsTime
<1> USE DEF PitInv
<1> SUFFICES ASSUME PitInv, sleeping, time < wake_up, counter_enabled
             PROVE  ~ DidRollover
  BY DEF PitKeepsTime, NotOverslept
<1>1. PICK d \in Nat : d = time - counter_start_time
  BY DEF PitCounts, WakesForIt
<1>2. PICK v \in Nat : v = counter_start_value
  BY DEF PitCounts
<1>3. d < (v + 1) * Tick
  <2>1. (v + 1) * Tick \in Int
    BY TimersAssumption
  <2>2. wake_up - counter_start_time < (v + 1) * Tick
    BY <1>2 DEF WakesForIt
  <2> QED
    BY <1>1, <2>1, <2>2 DEF PitCounts
<1>4. d \div Tick <= v
  <2> DEFINE e == d \div Tick
  <2>1. e \in Int /\ Tick * e <= d
    BY TimersAssumption
  <2> HIDE DEF e
  <2>2. ASSUME e >= v + 1 PROVE FALSE
    <3>1. Tick * e >= Tick * (v + 1) /\ Tick * (v + 1) = (v + 1) * Tick /\ Tick * (v + 1) \in Int
      BY <2>1, <2>2, TimersAssumption
    <3>2. Tick * e \in Int
      BY <2>1, TimersAssumption
    <3> QED
      BY <1>3, <2>1, <3>1, <3>2
  <2> QED
    BY <2>1, <2>2 DEF e
<1>5. Elapsed = d \div Tick /\ d \div Tick \in Int
  BY <1>1, TimersAssumption DEF Elapsed
<1> QED
  BY <1>1, <1>2, <1>4, <1>5 DEF DidRollover, WakesForIt, PitCounts

-----------------------------------------------------------------------------
(* Bytes.                                                                  *)

LEMMA BytesOf ==
    ASSUME NEW w \in 0 .. Largest
    PROVE  /\ w % Byte \in 0 .. Byte - 1 /\ w \div Byte \in 0 .. Byte - 1
           /\ w = (w \div Byte) * Byte + (w % Byte)
<1> DEFINE h == w \div Byte
           l == w % Byte
<1>1. Byte \in Nat /\ Byte > 1 /\ w \in Nat /\ w < Byte * Byte /\ Byte * Byte \in Nat
  BY TimersAssumption DEF Largest
<1>2. l \in 0 .. Byte - 1 /\ h \in Int /\ w = Byte * h + l
  BY <1>1
<1> HIDE DEF h, l
<1>3. Byte * h \in Int /\ h * Byte = Byte * h
  BY <1>1, <1>2
<1>4. ASSUME h >= Byte PROVE FALSE
  <2>1. Byte * h >= Byte * Byte
    BY <1>1, <1>2, <1>4
  <2> QED
    BY <1>1, <1>2, <1>3, <2>1
<1>5. ASSUME h < 0 PROVE FALSE
  <2>1. Byte * h <= Byte * (-1)
    BY <1>1, <1>2, <1>5
  <2> QED
    BY <1>1, <1>2, <1>3, <2>1
<1>6. h \in 0 .. Byte - 1
  BY <1>1, <1>2, <1>4, <1>5
<1> QED
  BY <1>2, <1>3, <1>6 DEF h, l

LEMMA WordOf ==
    ASSUME NEW h \in 0 .. Byte - 1, NEW l \in 0 .. Byte - 1
    PROVE  h * Byte + l \in 0 .. Largest /\ (h * Byte + l) % Byte = l
<1>1. Byte \in Nat \ {0} /\ h \in Int /\ Byte * Byte \in Nat
  BY TimersAssumption
<1>2. h * Byte = Byte * h /\ Byte * h \in Nat /\ Byte * h <= Byte * Byte - Byte
  <2>1. Byte * h <= Byte * (Byte - 1) /\ Byte * (Byte - 1) = Byte * Byte - Byte
    BY <1>1
  <2> QED
    BY <1>1, <2>1
<1>3. (Byte * h + l) % Byte = l
  BY <1>1, ModUnique
<1> QED
  BY <1>1, <1>2, <1>3 DEF Largest

-----------------------------------------------------------------------------
(* A rollover.                                                             *)

\* A counter started at s with v ticks to go reaches zero in phase with z, but
\* for what k rollovers have dropped.
PhaseAt(s, v, z, R, k) == ((s + v * Tick) - z) % (R * Tick) \in 0 .. k * (Tick - 1)

LEMMA PhaseKeptIs ==
    PhaseKept <=>
        (counter_enabled /\ zero # Unknown /\ access # "write" =>
            PhaseAt(counter_start_time, counter_start_value, zero, counter_reload, slips))
BY DEF PhaseKept, PhaseAt

\* Started again where it should be by time t, the counter is at most a tick less
\* one unit later than it was.
LEMMA RolloverInPhase ==
    ASSUME NEW R \in Nat \ {0}, NEW t \in Nat, NEW s \in Nat, s <= t, NEW v \in Nat, NEW z \in Int,
           NEW k \in Nat, PhaseAt(s, v, z, R, k)
    PROVE  PhaseAt(t, R - ((((t - s) \div Tick) - v) % R), z, R, k + 1)
<1> DEFINE e == (t - s) \div Tick
           r == (t - s) % Tick
           m == (e - v) % R
           q == (e - v) \div R
           M == R * Tick
           x == (s + v * Tick) - z
           y == x % M
           p == x \div M
<1>0. Tick \in Nat \ {0} /\ t - s \in Nat
  BY TimersAssumption
<1>1. e \in Int /\ r \in 0 .. Tick - 1 /\ t - s = Tick * e + r
  BY <1>0
<1> HIDE DEF e, r
<1>2. m \in 0 .. R - 1 /\ q \in Int /\ e - v = R * q + m
  BY <1>1
<1> HIDE DEF m, q
<1>3. x \in Int /\ v * Tick \in Int
  BY <1>0
<1>4. M \in Nat \ {0}
  BY <1>0
<1>5. (t + (R - m) * Tick) - z = M * (q + 1) + (x + r)
  <2>1. (R - m) * Tick = M - m * Tick /\ M * (q + 1) = M * q + M
    BY <1>0, <1>1, <1>2
  <2>2. M * q = (R * q) * Tick /\ R * q \in Int /\ m * Tick \in Int /\ M * q \in Int
    BY <1>0, <1>2
  <2>3. (R * q) * Tick = e * Tick - v * Tick - m * Tick
    <3>1. R * q = (e - v) - m
      BY <1>1, <1>2, <2>2
    <3>2. ((e - v) - m) * Tick = (e * Tick - v * Tick) - m * Tick
      BY <1>0, <1>1, <1>2
    <3>3. e * Tick \in Int /\ (e * Tick - v * Tick) - m * Tick = e * Tick - v * Tick - m * Tick
      BY <1>0, <1>1, <1>3, <2>2
    <3> QED
      BY <3>1, <3>2, <3>3
  <2>4. e * Tick = Tick * e /\ e * Tick \in Int
    BY <1>0, <1>1
  <2> DEFINE a == m * Tick
             b == v * Tick
             c == e * Tick
             d == M * q
  <2>5. d = c - b - a /\ t - s = c + r /\ a \in Int /\ b \in Int /\ c \in Int /\ d \in Int /\ M \in Int
        /\ (R - m) * Tick = M - a /\ M * (q + 1) = d + M /\ x = (s + b) - z
    BY <1>1, <1>3, <1>4, <2>1, <2>2, <2>3, <2>4
  <2> HIDE DEF a, b, c, d, M, x
  <2> QED
    BY <1>1, <2>5
<1> HIDE DEF x, M
<1>6. y \in 0 .. M - 1 /\ p \in Int /\ x = M * p + y
  BY <1>3, <1>4
<1>7. y \in 0 .. k * (Tick - 1)
  BY DEF PhaseAt, x, M
<1> HIDE DEF y, p
<1>8. (M * (q + 1) + (x + r)) % M = (y + r) % M
  <2>1. x + r = M * p + (y + r) /\ y + r \in Int /\ x + r \in Int /\ q + 1 \in Int
    <3>1. M * p \in Int
      BY <1>4, <1>6
    <3> QED
      BY <1>1, <1>2, <1>3, <1>6, <3>1
  <2>2. (M * p + (y + r)) % M = (y + r) % M
    BY <1>4, <1>6, <2>1, AddMul
  <2>3. (M * (q + 1) + (x + r)) % M = (x + r) % M
    BY <1>4, <2>1, AddMul
  <2> QED
    BY <2>1, <2>2, <2>3
<1>9. (y + r) % M \in 0 .. y + r
  <2>1. y + r \in Nat
    BY <1>1, <1>6
  <2> QED
    BY <1>4, <2>1, AtMostItself
<1>10. y + r <= (k + 1) * (Tick - 1)
  <2>1. (k + 1) * (Tick - 1) = k * (Tick - 1) + (Tick - 1) /\ k * (Tick - 1) \in Nat
    BY <1>0
  <2> QED
    BY <1>0, <1>1, <1>7, <2>1
<1>11. ((t + (R - m) * Tick) - z) % M \in 0 .. (k + 1) * (Tick - 1)
  <2>1. (k + 1) * (Tick - 1) \in Int
    BY <1>0
  <2> QED
    BY <1>1, <1>5, <1>6, <1>8, <1>9, <1>10, <2>1
<1> QED
  BY <1>11 DEF PhaseAt, M, m, e

LEMMA CounterValueIs ==
    ASSUME PitCounts
    PROVE  /\ CounterValue \in Nat /\ Elapsed \in Int
           /\ counter_reload > 0 /\ counter_start_value < Elapsed =>
                  CounterValue = counter_reload - ((Elapsed - counter_start_value) % counter_reload)
<1>1. PICK R \in Nat : R = counter_reload
  BY DEF PitCounts
<1>2. PICK v \in Nat : v = counter_start_value
  BY DEF PitCounts
<1>3. Elapsed \in Int
  <2>1. time - counter_start_time \in Int
    BY DEF PitCounts
  <2> QED
    BY <2>1, TimersAssumption DEF Elapsed
<1>4. PICK e \in Int : e = Elapsed
  BY <1>3
<1>5. CounterValue = IF R = 0 THEN 0
                     ELSE IF v - e >= R THEN (v - e) % R
                     ELSE IF v - e < 0 THEN R - ((- (v - e)) % R)
                     ELSE v - e
  BY <1>1, <1>2, <1>4 DEF CounterValue
<1>6. - (v - e) = e - v
  OBVIOUS
<1>7. R # 0 => (v - e) % R \in 0 .. R - 1 /\ (e - v) % R \in 0 .. R - 1
  OBVIOUS
<1>8. CounterValue \in Nat
  BY <1>5, <1>6, <1>7
<1>9. R > 0 /\ v < e => CounterValue = R - ((e - v) % R)
  <2> SUFFICES ASSUME R > 0, v < e PROVE CounterValue = R - ((e - v) % R)
    OBVIOUS
  <2>1. R # 0 /\ v - e < 0 /\ ~ (v - e >= R)
    OBVIOUS
  <2> QED
    BY <1>5, <1>6, <2>1
<1> QED
  BY <1>1, <1>2, <1>3, <1>4, <1>8, <1>9

\* What the timer returns brings the loop back before the counter is below zero.
LEMMA WakeIs ==
    ASSUME NEW t \in Nat, NEW s \in Nat, s <= t, NEW v \in Nat, NEW w \in Int,
           w <= t + ((v - ((t - s) \div Tick)) * Tick)
    PROVE  w - s < (v + 1) * Tick
<1> DEFINE e == (t - s) \div Tick
           r == (t - s) % Tick
<1>1. Tick \in Nat \ {0} /\ t - s \in Nat
  BY TimersAssumption
<1>2. e \in Int /\ r \in 0 .. Tick - 1 /\ t - s = Tick * e + r
  BY <1>1
<1>3. w <= t + ((v - e) * Tick)
  OBVIOUS
<1> HIDE DEF e, r
<1>4. (v - e) * Tick = v * Tick - Tick * e /\ (v + 1) * Tick = v * Tick + Tick
      /\ v * Tick \in Int /\ Tick * e \in Int
  BY <1>1, <1>2
<1> DEFINE a == v * Tick
           b == Tick * e
<1>5. w <= t + (a - b) /\ t - s = b + r /\ (v + 1) * Tick = a + Tick /\ a \in Int /\ b \in Int
  BY <1>2, <1>3, <1>4
<1> HIDE DEF a, b
<1> QED
  BY <1>1, <1>2, <1>5

LEMMA RunTimersStep ==
    ASSUME PitInv, RunHardwareTimers
    PROVE  PitInv'
<1> USE DEF PitInv
<1>1. /\ PitTimer /\ sleeping' \in BOOLEAN
      /\ wake_up' = IF ~ sleeping' THEN 0
                    ELSE time + IF TimeToNextInterrupt < LongestSleep THEN TimeToNextInterrupt ELSE LongestSleep
      /\ UNCHANGED <<time, counter_next_low, access, wanted>>
  BY DEF RunHardwareTimers, port_state
<1>2. CASE counter_enabled /\ DidRollover
  <2>1. /\ counter_start_value' = CounterValue /\ counter_start_time' = time
        /\ irq0' = TRUE /\ edge0' = TRUE /\ counter_enabled' = (counter_mode # 0)
        /\ slips' = slips + 1 /\ heard' = FALSE
        /\ UNCHANGED <<counter_mode, counter_reload, zero>>
    BY <1>1, <1>2 DEF PitTimer, Rollover, Interrupt0
  <2>2. PitFlags' /\ RolloverHeard'
    BY <1>1, <2>1, Zenon DEF PitFlags, RolloverHeard
  <2>3. CounterValue \in Nat
    BY CounterValueIs
  <2>4. counter_enabled
    BY <1>2
  <2>5. Programming' /\ Reloads' /\ ClockRuns' /\ CountsFromWritten'
    BY <1>1, <2>1, <2>4 DEF Programming, Reloads, ClockRuns, CountsFromWritten, PitCounts
  <2>6. PhaseKept'
    <3>1. SUFFICES ASSUME zero # Unknown, access # "write"
                   PROVE  PhaseAt(time, CounterValue, zero, counter_reload, slips + 1)
      <4>1. PhaseKept' <=>
                (counter_enabled' /\ zero' # Unknown /\ access' # "write" =>
                    PhaseAt(counter_start_time', counter_start_value', zero', counter_reload', slips'))
        BY DEF PhaseKept, PhaseAt, Unknown
      <4> QED
        BY <1>1, <2>1, <4>1
    <3>2. counter_start_time <= time /\ counter_reload > 0
      BY <2>4, <3>1 DEF ClockRuns, Reloads
    <3>3. counter_start_value < Elapsed
      BY <1>2, <3>2 DEF DidRollover, PitCounts
    <3>4. CounterValue = counter_reload - ((((time - counter_start_time) \div Tick) - counter_start_value)
                                           % counter_reload)
      BY <3>2, <3>3, CounterValueIs DEF Elapsed
    <3>5. PhaseAt(counter_start_time, counter_start_value, zero, counter_reload, slips)
      BY <2>4, <3>1, PhaseKeptIs
    <3>6. /\ counter_reload \in Nat \ {0} /\ time \in Nat /\ counter_start_time \in Nat
          /\ counter_start_value \in Nat /\ zero \in Int /\ slips \in Nat
      BY <3>2 DEF PitCounts
    <3>7. PhaseAt(time, counter_reload - ((((time - counter_start_time) \div Tick) - counter_start_value)
                                           % counter_reload), zero, counter_reload, slips + 1)
      BY <3>2, <3>5, <3>6, RolloverInPhase
    <3> QED
      BY <3>4, <3>7
  <2>7. wake_up' \in Int /\ WakesForIt'
    <3>1. PICK v \in Nat : v = CounterValue
      BY <2>3
    <3>2. PICK t \in Nat : t = time
      BY DEF PitCounts
    <3>3. (t - t) \div Tick = 0 /\ LongestSleep \in Nat
      BY TimersAssumption
    <3>4. counter_enabled' => TimeToNextInterrupt = (v - 0) * Tick
      BY <2>1, <3>1, <3>2, <3>3 DEF TimeToNextInterrupt
    <3>5. ~ counter_enabled' => TimeToNextInterrupt = LongestSleep
      BY DEF TimeToNextInterrupt
    <3>6. v * Tick \in Nat /\ (v + 1) * Tick = v * Tick + Tick /\ (v - 0) * Tick = v * Tick /\ Tick > 0
      BY TimersAssumption
    <3>7. TimeToNextInterrupt \in Int
      BY <3>3, <3>4, <3>5, <3>6
    <3>8. PICK i \in Int : i = TimeToNextInterrupt
      BY <3>7
    <3>9. wake_up' \in Int /\ (sleeping' => wake_up' <= t + i)
      BY <1>1, <3>2, <3>3, <3>8
    <3>10. ASSUME sleeping', counter_enabled' PROVE wake_up' - t < (v + 1) * Tick
      <4>1. i = v * Tick /\ v * Tick \in Int /\ Tick \in Int
        BY <3>4, <3>6, <3>8, <3>10, TimersAssumption
      <4>2. PICK w \in Int : w = wake_up'
        BY <3>9
      <4>3. w <= t + (v * Tick)
        BY <3>9, <3>10, <4>1, <4>2
      <4>4. w - t < (v + 1) * Tick
        BY <3>6, <4>1, <4>3
      <4> QED
        BY <4>2, <4>4
    <3> QED
      BY <1>1, <2>1, <3>1, <3>2, <3>9, <3>10 DEF WakesForIt
  <2>8. PitCounts'
    BY <1>1, <2>1, <2>3, <2>7 DEF PitCounts
  <2> QED
    BY <2>2, <2>5, <2>6, <2>7, <2>8
<1>3. CASE ~ (counter_enabled /\ DidRollover)
  <2>1. /\ irq0' = FALSE /\ edge0' \in {edge0, FALSE}
        /\ UNCHANGED <<counter_enabled, counter_mode, counter_reload, counter_start_value, counter_start_time,
                       zero, slips, heard>>
    BY <1>1, <1>3 DEF PitTimer, LowerIrq0, counter, phase0
  <2>2. PitFlags' /\ RolloverHeard'
    BY <1>1, <2>1, Zenon DEF PitFlags, RolloverHeard
  <2>3. Programming' /\ Reloads' /\ ClockRuns' /\ CountsFromWritten' /\ PhaseKept'
    BY <1>1, <2>1 DEF Programming, Reloads, ClockRuns, CountsFromWritten, PhaseKept
  <2>4. counter_enabled => counter_start_time <= time
    BY <1>3 DEF DidRollover, PitCounts
  <2>5. PICK v \in Nat : v = counter_start_value
    BY DEF PitCounts
  <2>6. PICK t \in Nat : t = time
    BY DEF PitCounts
  <2>7. PICK s \in Nat : s = counter_start_time
    BY DEF PitCounts
  <2>8. (t - s) \div Tick \in Int /\ ((v - ((t - s) \div Tick)) * Tick) \in Int /\ LongestSleep \in Nat
    <3>1. (t - s) \div Tick \in Int
      BY TimersAssumption
    <3> QED
      BY <3>1, TimersAssumption
  <2>9. /\ counter_enabled' => TimeToNextInterrupt = (v - ((t - s) \div Tick)) * Tick
        /\ ~ counter_enabled' => TimeToNextInterrupt = LongestSleep
    BY <2>1, <2>5, <2>6, <2>7 DEF TimeToNextInterrupt
  <2>10. PICK i \in Int : i = TimeToNextInterrupt
    BY <2>8, <2>9
  <2>11. wake_up' \in Int /\ (sleeping' => wake_up' <= t + i)
    BY <1>1, <2>6, <2>8, <2>10
  <2>12. ASSUME sleeping', counter_enabled' PROVE wake_up' - s < (v + 1) * Tick
    <3>1. PICK w \in Int : w = wake_up'
      BY <2>11
    <3>2. w <= t + ((v - ((t - s) \div Tick)) * Tick) /\ s <= t
      BY <2>1, <2>4, <2>6, <2>7, <2>9, <2>10, <2>11, <2>12, <3>1
    <3>3. w - s < (v + 1) * Tick
      BY <3>2, WakeIs
    <3> QED
      BY <3>1, <3>3
  <2>13. WakesForIt'
    BY <1>1, <2>1, <2>4, <2>5, <2>7, <2>12 DEF WakesForIt
  <2>14. PitCounts'
    BY <1>1, <2>1, <2>11 DEF PitCounts
  <2> QED
    BY <2>2, <2>3, <2>13, <2>14
<1> QED
  BY <1>2, <1>3

\* The first byte: nothing counts from it yet.
LEMMA WriteLowStep ==
    ASSUME PitInv, WriteLow
    PROVE  PitInv'
<1> USE DEF PitInv
<1>1. /\ ~ sleeping /\ access = "program" /\ access' = "write" /\ counter_next_low = 1
      /\ CounterWrite(wanted % Byte)
      /\ UNCHANGED <<time, wanted, irq0, edge0, wake_up, sleeping>>
  BY DEF WriteLow, Guest, Programming, irq0_line, main_loop
<1>2. /\ counter_next_low' = 1 - counter_next_low
      /\ counter_reload' = (counter_reload \div Byte) * Byte + (wanted % Byte)
      /\ UNCHANGED <<counter_enabled, counter_start_value, counter_start_time, zero, slips, heard>>
  BY <1>1 DEF CounterWrite, phase0
<1>3. counter_reload' \in 0 .. Largest /\ counter_reload' % Byte = wanted % Byte
  <2>1. wanted % Byte \in 0 .. Byte - 1 /\ counter_reload \div Byte \in 0 .. Byte - 1
    BY BytesOf DEF PitCounts
  <2>2. /\ (counter_reload \div Byte) * Byte + (wanted % Byte) \in 0 .. Largest
        /\ ((counter_reload \div Byte) * Byte + (wanted % Byte)) % Byte = wanted % Byte
    BY <2>1, WordOf
  <2> QED
    BY <1>2, <2>2, Zenon
<1>4. PitFlags' /\ RolloverHeard' /\ ~ sleeping'
  BY <1>1, <1>2, Zenon DEF PitFlags, RolloverHeard
<1>5. PitCounts'
  BY <1>1, <1>2, <1>3 DEF PitCounts
<1> QED
  BY <1>1, <1>2, <1>3, <1>4, <1>5 DEF Programming, Reloads, ClockRuns, WakesForIt, PhaseKept, CountsFromWritten

\* The second byte starts the counter, with the value the guest has wanted.
LEMMA WriteHighStep ==
    ASSUME PitInv, WriteHigh
    PROVE  PitInv'
<1> USE DEF PitInv
<1> DEFINE reload == (wanted \div Byte) * Byte + (counter_reload % Byte)
           started == IF wanted = 0 THEN Largest ELSE wanted
<1>1. /\ ~ sleeping /\ access = "write" /\ access' = "none" /\ counter_next_low = 0
      /\ counter_reload % Byte = wanted % Byte
      /\ CounterWrite(wanted \div Byte)
      /\ UNCHANGED <<time, wanted, irq0, edge0, wake_up, sleeping>>
  BY DEF WriteHigh, Guest, Programming, irq0_line, main_loop
<1>2. /\ counter_next_low' = 1 - counter_next_low
      /\ counter_reload' = IF reload = 0 THEN Largest ELSE reload
      /\ counter_start_value' = counter_reload' /\ counter_start_time' = time
      /\ counter_enabled' = TRUE
      /\ zero' = time + counter_reload' * Tick /\ slips' = 0 /\ heard' = heard
  BY <1>1 DEF CounterWrite
<1>3. reload = wanted
  BY <1>1, BytesOf DEF PitCounts
<1> HIDE DEF reload
<1>4. Largest \in Nat \ {0}
  <2>1. Byte * Byte \in Nat /\ Byte * Byte >= Byte
    BY TimersAssumption
  <2> QED
    BY <2>1, TimersAssumption DEF Largest
<1>5. started \in 1 .. Largest
  BY <1>4 DEF PitCounts
<1>6. counter_reload' = started
  BY <1>2, <1>3
<1> HIDE DEF started
<1>7. PICK R \in 1 .. Largest : R = started
  BY <1>5
<1>8. PICK t \in Nat : t = time
  BY DEF PitCounts
<1>9. R * Tick \in Nat \ {0} /\ R \in Nat
  BY <1>4, TimersAssumption
<1>10. /\ counter_reload' = R /\ counter_start_value' = R /\ counter_start_time' = t
       /\ zero' = t + R * Tick /\ slips' = 0 /\ time' = t
  BY <1>1, <1>2, <1>6, <1>7, <1>8
<1>11. PitFlags' /\ RolloverHeard' /\ ~ sleeping'
  BY <1>1, <1>2, Zenon DEF PitFlags, RolloverHeard
<1>12. PitCounts'
  BY <1>1, <1>2, <1>9, <1>10 DEF PitCounts
<1>13. PhaseKept'
  <2>1. (t + R * Tick) - (t + R * Tick) = 0 /\ 0 % (R * Tick) = 0 /\ 0 * (Tick - 1) = 0
    <3>1. 0 % (R * Tick) = 0
      BY <1>9, Small
    <3> QED
      BY <1>9, <3>1, TimersAssumption
  <2>2. ((counter_start_time' + counter_start_value' * Tick) - zero') % (counter_reload' * Tick)
            \in 0 .. slips' * (Tick - 1)
    BY <1>10, <2>1
  <2> QED
    BY <2>2 DEF PhaseKept
<1>14. Programming' /\ Reloads' /\ ClockRuns' /\ WakesForIt'
  BY <1>1, <1>9, <1>10, <1>11 DEF Programming, Reloads, ClockRuns, WakesForIt
<1>15. CountsFromWritten'
  BY <1>1, <1>6 DEF CountsFromWritten, started
<1> QED
  BY <1>11, <1>12, <1>13, <1>14, <1>15

LEMMA PitStep ==
    ASSUME PitInv, [TimersNext]_timers_vars
    PROVE  PitInv'
<1> USE DEF PitInv
<1>1. CASE TakeInterrupt0
  <2>1. /\ edge0' = FALSE /\ heard' = TRUE /\ sleeping' = FALSE /\ wake_up' = 0
        /\ UNCHANGED <<time, counter_enabled, counter_reload, counter_start_value, counter_start_time,
                       counter_next_low, access, wanted, irq0, zero, slips>>
    BY <1>1 DEF TakeInterrupt0, counter, port_state
  <2>2. PitFlags' /\ RolloverHeard' /\ ~ sleeping'
    BY <2>1, Zenon DEF PitFlags, RolloverHeard
  <2>3. PitCounts'
    BY <2>1 DEF PitCounts
  <2> QED
    BY <2>1, <2>2, <2>3 DEF Programming, Reloads, ClockRuns, WakesForIt, PhaseKept, CountsFromWritten
<1>2. CASE TimePasses
  <2>1. /\ time' = time + 1
        /\ UNCHANGED <<counter_enabled, counter_reload, counter_start_value, counter_start_time,
                       counter_next_low, access, wanted, irq0, edge0, wake_up, sleeping, zero, slips, heard>>
    BY <1>2 DEF TimePasses, counter, port_state, irq0_line, main_loop, phase0
  <2>2. PitFlags' /\ RolloverHeard'
    BY <2>1, Zenon DEF PitFlags, RolloverHeard
  <2>3. PitCounts' /\ ClockRuns'
    BY <2>1 DEF PitCounts, ClockRuns
  <2>4. WakesForIt'
    BY <2>1 DEF WakesForIt, PitCounts
  <2> QED
    BY <2>1, <2>2, <2>3, <2>4 DEF Programming, Reloads, PhaseKept, CountsFromWritten
<1>3. CASE Port43Write
  <2>1. /\ ~ sleeping /\ access' = "program" /\ counter_next_low' = 1 /\ wanted' \in 0 .. Largest
        /\ access = "none" /\ irq0' = FALSE /\ edge0' \in {edge0, FALSE}
        /\ UNCHANGED <<time, counter_enabled, counter_reload, counter_start_value, counter_start_time,
                       wake_up, sleeping, zero, slips, heard>>
    BY <1>3 DEF Port43Write, Guest, LowerIrq0, main_loop, phase0
  <2>2. PitFlags' /\ RolloverHeard' /\ ~ sleeping'
    BY <2>1, Zenon DEF PitFlags, RolloverHeard
  <2>3. PitCounts'
    BY <2>1 DEF PitCounts
  <2> QED
    BY <2>1, <2>2, <2>3 DEF Programming, Reloads, ClockRuns, WakesForIt, PhaseKept, CountsFromWritten
<1>4. CASE ReadCounter
  <2>1. /\ ~ sleeping /\ access \in {"none", "read"} /\ access' \in {"none", "read"}
        /\ counter_next_low' \in {counter_next_low, 1 - counter_next_low}
        /\ UNCHANGED <<time, counter_enabled, counter_reload, counter_start_value, counter_start_time,
                       wanted, irq0, edge0, wake_up, sleeping, zero, slips, heard>>
    BY <1>4 DEF ReadCounter, Guest, counter, irq0_line, main_loop, phase0
  <2>2. PitFlags' /\ RolloverHeard' /\ ~ sleeping'
    BY <2>1, Zenon DEF PitFlags, RolloverHeard
  <2>3. PitCounts'
    BY <2>1 DEF PitCounts
  <2> QED
    BY <2>1, <2>2, <2>3 DEF Programming, Reloads, ClockRuns, WakesForIt, PhaseKept, CountsFromWritten
<1>5. CASE CounterRestored
  <2>1. /\ time' \in 0 .. LastTime /\ sleeping' = FALSE /\ wake_up' = 0
        /\ zero' = Unknown /\ slips' = 0 /\ heard' = heard
        /\ UNCHANGED <<counter_enabled, counter_reload, counter_start_value, counter_start_time,
                       counter_next_low, access, wanted, irq0, edge0>>
    BY <1>5 DEF CounterRestored, counter, port_state, irq0_line
  <2>2. PitFlags' /\ RolloverHeard' /\ ~ sleeping'
    BY <2>1, Zenon DEF PitFlags, RolloverHeard
  <2>3. PitCounts'
    BY <2>1, TimersAssumption DEF PitCounts, Unknown
  <2>4. PhaseKept' /\ ClockRuns'
    BY <2>1 DEF PhaseKept, ClockRuns, Unknown
  <2> QED
    BY <2>1, <2>2, <2>3, <2>4 DEF Programming, Reloads, WakesForIt, CountsFromWritten
<1>6. CASE ReadPmTimer \/ UNCHANGED timers_vars
  <2>1. UNCHANGED <<time, counter_enabled, counter_reload, counter_start_value, counter_start_time,
                    counter_next_low, access, wanted, irq0, edge0, wake_up, sleeping, zero, slips, heard>>
    BY <1>6 DEF ReadPmTimer, timers_vars, counter, port_state, irq0_line, main_loop, phase0
  <2>2. PitFlags' /\ RolloverHeard'
    BY <2>1, Zenon DEF PitFlags, RolloverHeard
  <2>3. PitCounts'
    BY <2>1 DEF PitCounts
  <2> QED
    BY <2>1, <2>2, <2>3 DEF Programming, Reloads, ClockRuns, WakesForIt, PhaseKept, CountsFromWritten
<1> QED
  BY <1>1, <1>2, <1>3, <1>4, <1>5, <1>6, RunTimersStep, WriteLowStep, WriteHighStep
     DEF TimersNext, CounterNext, PmTimerNext

-----------------------------------------------------------------------------
(* Together.  A device that does not run stays as it is, but for what its  *)
(* neighbour on the DMA controller does to it.                             *)

LEMMA IsaInitInv == IsaInit => FloppyInv /\ UartInv /\ SoundInv
BY FloppyInitInv, UartInitInv, Sb16InitInv DEF IsaInit

\* A restored sound card may leave the DMA controller with its high pages; that is
\* all the floppy controller may see of it.
LEMMA FloppyIdle ==
    ASSUME FloppyInv, UNCHANGED floppy_state, channel_pagehi' \in BOOLEAN
    PROVE  FloppyInv'
<1>1. UNCHANGED <<bytes_expecting, next_command, response_index, response_length, running, irq_enabled,
                  fda_image, moving, irq6, edge6, doing, stage, left, stopped, silent>>
  BY DEF floppy_state, command_state, response, line6, floppy_driver
<1>2. FloppyFlags'
  BY <1>1, Zenon DEF FloppyInv, FloppyTypeOK, FloppyFlags
<1>3. FloppyCounts'
  BY <1>1 DEF FloppyInv, FloppyTypeOK, FloppyCounts
<1>4. DriverAlive' = DriverAlive /\ InPhase' = InPhase
  BY <1>1 DEF DriverAlive, InPhase, Sending, Waiting, Answered, AtWork, Unanswered, Offered
<1> QED
  BY <1>2, <1>3, <1>4 DEF FloppyInv, FloppyTypeOK

LEMMA PagesStay ==
    ASSUME FloppyInv, Sb16Next
    PROVE  channel_pagehi' \in BOOLEAN
<1>1. channel_pagehi \in BOOLEAN
  BY Zenon DEF FloppyInv, FloppyTypeOK, FloppyFlags
<1>2. channel_pagehi' = channel_pagehi \/ DmaRestored
  BY DEF Sb16Next, SoundDriver, SoundRestored, DacHandleRequest, ProgramDma, Unmask, StartCommand, PauseOrExit,
     ResetDsp, TriggerIrq, TakeInterrupt5, SoundHandler
<1> QED
  BY <1>1, <1>2, Zenon DEF DmaRestored

LEMMA UartIdle == UartInv /\ UNCHANGED uart_vars => UartInv'
<1> SUFFICES ASSUME UartInv, UNCHANGED uart_vars PROVE UartInv'
  OBVIOUS
<1>1. UNCHANGED <<ints, ier, iir, line, requested, input, data_ready, restored, modem, delta, changed,
                  fifo, dlab, driver, to_send>>
  BY DEF uart_vars, cause, receiver, modem_status, control, guest
<1>2. CauseTypes' /\ PortTypes' /\ PortCounts'
  BY <1>1, Zenon DEF UartInv, CauseTypes, PortTypes, PortCounts
<1>3. LineMatches' /\ LineHeard'
  BY <1>1, Zenon DEF UartInv, LineMatches, LineHeard, Identified
<1>4. BytesThrown' /\ TransmitThrown' /\ DataReadyIsTrue' /\ DeltasKept'
  BY <1>1, Zenon DEF UartInv, BytesThrown, TransmitThrown, StatusIsTrue, DataReadyIsTrue, DeltasKept
<1> QED
  BY <1>2, <1>3, <1>4 DEF UartInv, StatusIsTrue

LEMMA SoundIdle == SoundInv /\ UNCHANGED sound_state => SoundInv'
<1> SUFFICES ASSUME SoundInv, UNCHANGED sound_state PROVE SoundInv'
  OBVIOUS
<1>1. UNCHANGED <<dma_channel, dma_irq, dma_autoinit, dma_sample_count, dma_bytes_count, dma_bytes_block,
                  dma_bytes_left, dma_waiting_transfer, dma_paused, irq5, edge5, irq_triggered, channels,
                  masked, handling5, playing, played, begun, signals, probed>>
  BY DEF sound_state, transfer, sound_line, dma_channels, sound_history
<1>2. SoundFlags' /\ Triggered' /\ SoundHeard'
  BY <1>1, Zenon DEF SoundInv, PlaysInTime, SoundFlags, Triggered, SoundHeard
<1>3. irq_triggered' \in SUBSET Types /\ masked' \in SUBSET Types /\ (dma_autoinit' => dma_autoinit)
  BY <1>1, Zenon DEF SoundInv, SoundCounts
<1> QED
  BY <1>1, <1>2, <1>3, Undisturbed

LEMMA IsaStep ==
    ASSUME FloppyInv /\ UartInv /\ SoundInv, [IsaNext]_isa_vars
    PROVE  (FloppyInv /\ UartInv /\ SoundInv)'
<1>1. FloppyInv'
  <2>1. CASE FloppyNext
    BY <2>1, FloppyStep
  <2>2. CASE UNCHANGED floppy_state /\ UNCHANGED channel_pagehi
    <3>1. channel_pagehi' \in BOOLEAN
      BY <2>2, Zenon DEF FloppyInv, FloppyTypeOK, FloppyFlags
    <3> QED
      BY <2>2, <3>1, FloppyIdle
  <2>3. CASE UNCHANGED floppy_state /\ Sb16Next
    BY <2>3, FloppyIdle, PagesStay
  <2> QED
    BY <2>1, <2>2, <2>3, Zenon DEF IsaNext, isa_vars, floppy_vars
<1>2. UartInv'
  BY UartStep, UartIdle DEF IsaNext, isa_vars
<1>3. SoundInv'
  BY Sb16Step, SoundIdle DEF IsaNext, isa_vars, sb16_vars
<1> QED
  BY <1>1, <1>2, <1>3

LEMMA IsaInvariance == IsaSpec => [](FloppyInv /\ UartInv /\ SoundInv)
BY IsaInitInv, IsaStep, PTL DEF IsaSpec

\* The floppy controller expects the bytes its driver is about to send and offers
\* the results it is about to read, through changed images and restored states.
THEOREM FloppyInStep == IsaSpec => []InStep
BY IsaInvariance, FloppyInvImplies, PTL

\* A driver of the floppy controller that waits has an interrupt requested, an
\* image at work for it, or a command that was never to be answered.
THEOREM FloppyWaitIsServed == IsaSpec => []WaitServed
BY IsaInvariance, FloppyInvImplies, PTL

\* The serial port does not go dead: what it has to tell is requested, being
\* handled, or not wanted.
THEOREM SerialPortIsServed == IsaSpec => []PortIsServed
BY IsaInvariance, UartInvImplies, PTL

\* The registers of the serial port tell of the input and the modem as they are.
THEOREM SerialStatusIsTrue == IsaSpec => []StatusIsTrue
BY IsaInvariance, UartInvImplies, PTL

\* Sound plays in time: the channel stands at the bytes played, an interrupt comes
\* for every count of samples, and none is swallowed by a line already up.
THEOREM SoundPlaysInTime == IsaSpec => []PlaysInTime
BY IsaInvariance, SoundInvImplies, PTL

-----------------------------------------------------------------------------
(* The clock and the timers.  Behind a device that is the interval timer   *)
(* the clock of the host may start over, with a restored state; the power  *)
(* management timer has not been read then.                                *)

LEMMA IsaRunsEach == IsaSpec => Spec /\ UartSpec /\ RtcSpec
<1>1. IsaInit => Init /\ UartInit /\ RtcInit
  BY DEF IsaInit
<1>2. [IsaNext]_isa_vars => [Next]_vars /\ [UartNext]_uart_vars /\ [RtcNext]_rtc_vars
  BY DEF IsaNext, isa_vars
<1> QED
  BY <1>1, <1>2, PTL DEF IsaSpec, Spec, UartSpec, RtcSpec

\* The clock of the guest keeps time: nothing due is lost, early, or slept through.
THEOREM ClockKeepsTime == IsaSpec => []KeepsTime
BY IsaRunsEach, RtcInvariance, RtcInvImplies, PTL

LEMMA IsaTimersStep ==
    ASSUME [IsaNext]_isa_vars
    PROVE  \/ device = "acpi" /\ PmTimerNext
           \/ device # "acpi" /\ CounterNext
           \/ UNCHANGED timers_vars
BY DEF IsaNext, isa_vars

\* The interval timer keeps time: its interrupts stay in phase however late the
\* loop calls, the loop does not sleep past one, none is swallowed by the line,
\* and it counts from what the guest wrote.
THEOREM PitAlwaysKeepsTime == IsaSpec => []PitKeepsTime
<1>1. IsaInit => PitInv
  BY PitInitInv DEF IsaInit
<1>2. PitInv /\ [IsaNext]_isa_vars => PitInv'
  BY IsaTimersStep, PitStep DEF TimersNext
<1> QED
  BY <1>1, <1>2, PitInvImplies, PTL DEF IsaSpec

PmUnread == device # "acpi" => timer_last_value = 0 /\ timer_imprecision_offset = 0

LEMMA IsaPmStep ==
    ASSUME PitInv, PmInv, PmUnread, [IsaNext]_isa_vars
    PROVE  PmInv' /\ PmUnread' /\ PmRead' >= PmRead /\ PmRead' <= PmTime' + Imprecision
<1>1. device' = device
  BY DEF IsaNext, isa_vars
<1>2. CASE device = "acpi" /\ PmTimerNext
  BY <1>1, <1>2, PmStep DEF PmUnread
<1>3. CASE UNCHANGED timers_vars
  <2>1. UNCHANGED <<timer_last_value, timer_imprecision_offset>>
    BY <1>3 DEF timers_vars, pm_timer
  <2> QED
    BY <1>1, <1>3, <2>1, PmStep DEF PmUnread
<1>4. CASE device # "acpi" /\ CounterNext
  <2>1. UNCHANGED pm_timer
    BY <1>4 DEF CounterNext, RunHardwareTimers, TakeInterrupt0, TimePasses, Port43Write, WriteLow, WriteHigh,
       ReadCounter, CounterRestored
  <2>2. PICK t \in Nat : t = time'
    BY <1>4, PitStep DEF TimersNext, PitInv, PitCounts
  <2>3. PmTimeAt(t) \in Nat /\ PmTime' = PmTimeAt(t)
    BY <2>2, PmTimeGrows DEF PmTime, PmTimeAt
  <2>4. PICK q \in Nat : q = PmTime'
    BY <2>3
  <2>5. timer_last_value' = 0 /\ timer_imprecision_offset' = 0 /\ PmRead = 0 /\ PmRead' = 0
    BY <1>4, <2>1 DEF PmUnread, pm_timer, PmRead
  <2>6. 0 >= 0 /\ 0 <= q + Imprecision /\ 0 <= q /\ 0 \in 0 .. Imprecision
    BY TimersAssumption
  <2>7. PmInv'
    BY <2>2, <2>4, <2>5, <2>6 DEF PmInv
  <2> QED
    BY <1>1, <2>4, <2>5, <2>6, <2>7 DEF PmUnread
<1> QED
  BY <1>2, <1>3, <1>4, IsaTimersStep

\* The power management timer does not go back and does not run ahead.
THEOREM PmTimerIsTrue == IsaSpec => PmTimerTrue
<1>1. IsaInit => PitInv /\ PmInv /\ PmUnread
  BY PitInitInv, PmInitInv DEF IsaInit, TimersInit, PmUnread
<1>2. PitInv /\ PmInv /\ PmUnread /\ [IsaNext]_isa_vars => (PitInv /\ PmInv /\ PmUnread)'
  BY IsaTimersStep, PitStep, IsaPmStep DEF TimersNext
<1>3. PitInv /\ PmInv /\ PmUnread /\ [IsaNext]_isa_vars =>
          [PmRead' >= PmRead /\ PmRead' <= PmTime' + Imprecision]_timers_vars
  BY IsaPmStep
<1> QED
  BY <1>1, <1>2, <1>3, PTL DEF IsaSpec, PmTimerTrue

=============================================================================
