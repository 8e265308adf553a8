------------------------------ MODULE Firmware ------------------------------
(***************************************************************************)
(* One processor from reset through the main loop, with the radio and its   *)
(* chip register by register.  The loop may make the radio's calls in any   *)
(* order; Dongle has the order whb04b.c gives them.                         *)
(***************************************************************************)
EXTENDS Boot

vars == <<radioVars, bootVars>>

Init ==
    /\ phase = "check" /\ todo = <<>>
    /\ state = "POWER_DOWN" /\ hw3000_channel = 0 /\ rx_buffer = <<>>
    /\ chip = PoweredOff
    /\ ticks = 0 /\ lag = 0 /\ waited = 0 /\ gaveUp = FALSE
    /\ RESET_KEEP = 0 /\ requested = FALSE
    /\ dataflash = Erased /\ config = Erased
    /\ safe = FALSE /\ bDATA_WE = FALSE /\ spoiled = FALSE /\ lapses = 0
    /\ programmed = FALSE
    /\ uart0_tx_done = TRUE /\ uart = "idle"

\* The channel that is the dongle's first byte, and bit 6 of it, plus 8
ChannelsOf(id_low) == {id_low, ((id_low \div 64) % 2) * 64 + 8}

LinkChannels == ChannelsOf(config[1])

\* The dongle's own channels, programmed or not
ASSUME ChannelAssumption == ChannelsOf(255) \cup ChannelsOf(Identity[1]) \subseteq Channels

\* whb04b_process takes what has been read before it makes another call.
LoopCall ==
    /\ phase = "loop"
    /\ IF rx_buffer # <<>> THEN hw3000_rxdata_get
       ELSE \/ \E c \in LinkChannels : ChangeChannel(c)
            \/ hw3000_txdata_send \/ hw3000_process

Processor ==
    \/ (RadioStep \/ LoopCall) /\ UNCHANGED bootVars
    \/ BootStep

Hardware ==
    \/ timer0_isr /\ UNCHANGED bootVars
    \/ UartSent \/ uart0_isr

Surroundings == RadioEnvironment /\ UNCHANGED bootVars

Disturbance == WindowLapses \/ reset_to_bootloader \/ PowerFailure

Next == Processor \/ Hardware \/ Surroundings \/ Disturbance \/ BootloaderExits

\* The processor, its timer and its UART go on; the radio chip owes nothing.
Fairness ==
    /\ WF_vars(Processor) /\ WF_vars(timer0_isr /\ UNCHANGED bootVars)
    /\ WF_vars(UartSent) /\ WF_vars(uart0_isr)

Spec == Init /\ [][Next]_vars /\ Fairness

-----------------------------------------------------------------------------
Length == Register(BANK0, HW3000_REG_LEN0PKLEN)
ChannelSet == Register(BANK0, HW3000_REG_CHCFG0) = (hw3000_channel % 64) * 256

\* Between two calls the chip is set up as hw3000.c means it to be: the constants
\* in bank 1, the modem's settings in bank 0, receiving frames of 13 bytes on the
\* channel in use; and what it sends is the whole reply, at the reply's length.
\* Addresses occur in both banks, three calls change the length and the mode, and a
\* reset comes anywhere.  A chip that was not ready in time is set up in vain
\* (hw3000.c:67-76): nothing looks at the answer.
RightSettings ==
    /\ phase = "loop" /\ todo = <<>> /\ ~gaveUp =>
         /\ Holds(BANK1, Bank1Constants) /\ Holds(BANK0, ModemSettings)
         /\ chip.bank = BANK0
         /\ state = "RX" /\ Receiving /\ Length = 13
         /\ ChannelSet
    /\ chip.sending => TRCTRL = \h0100 /\ Length = 22 /\ chip.out = Reply

\* Waiting for a transmission stops the main loop for TX_TICKS at most, wherever in
\* its 16-bit range the clock stands when it begins (hw3000.c:292-300).
WaitBounded == waited <= TX_TICKS + MAX_LAG

\* From the second start on the dongle uses the whole identity, unless programming it
\* was cut short by a reset or lost a byte to an interrupt (main.c:56-67, flash.c:29-47):
\* the first byte alone decides whether it is programmed again.
IdentityHonest == phase = "loop" /\ programmed /\ ~spoiled => config = Identity

\* A reset enters the bootloader exactly if the host has asked for it since power came
\* on and has not got it yet (misc.c:11-39).
BootloaderHonest ==
    [][phase = "check" /\ phase' # "check" =>
         (phase' = "bootloader" <=> requested)]_vars

\* A start that is not disturbed gets through, whatever the radio chip does, and no
\* call of the loop waits for ever: the handshake with the UART's interrupt, the three
\* waits for the chip and the clock (uart.c:52-59; hw3000.c:69, 231, 293).
Starts ==
    <>[][~Disturbance]_vars =>
        /\ <>[](phase \in {"loop", "bootloader"}) \/ []<>(phase = "bootloader")
        /\ []<>(todo = <<>>)

-----------------------------------------------------------------------------
(* Refinement of AtomicRadio *)

Booting == phase \in {"check", "bootloader", "radio"}

\* A call to the receiver is not over until the FIFO has been flushed.
Flush == Write(HW3000_REG_FIFOSTA, \h0200)
Restarting == \E i \in DOMAIN todo : todo[i] = Flush

Someone == <<1>>         \* stands for any foreign frame with data in it
Nothing == <<0>>

FrameInFifo ==
    IF chip.fifo = <<>> THEN {}
    ELSE IF chip.fifo \in PendantFrames THEN {chip.fifo}
    ELSE IF chip.fifo[1] = 0 THEN {Nothing} ELSE {Someone}

FrameRead ==
    IF Booting \/ rx_buffer = <<>> THEN {}
    ELSE IF rx_buffer \in PendantFrames THEN {rx_buffer} ELSE {Someone}

StateInUse == IF Booting \/ todo # <<>> THEN "RX" ELSE state

ChannelInUse == IF Booting THEN CHOOSE c \in Channels : TRUE ELSE hw3000_channel

ChipInUse ==
    IF Booting \/ Restarting \/ gaveUp
      THEN [mode |-> "rx", channel |-> ChannelInUse, fifo |-> {}, irq |-> FALSE]
      ELSE [mode |-> IF Receiving THEN "rx" ELSE "off",
            channel |-> IF ChannelSet THEN hw3000_channel ELSE 0,
            fifo |-> FrameInFifo, irq |-> chip.irq]

Atomic == INSTANCE AtomicRadio WITH
    OurFrames <- PendantFrames, OtherFrame <- Someone, EmptyFrame <- Nothing,
    state <- StateInUse, hw3000_channel <- ChannelInUse, rx_buffer <- FrameRead,
    tx_buffer <- Reply, chip <- ChipInUse

\* The register accesses of hw3000.c, interleaved with clock, chip and air, implement
\* the one-step operations that Dongle is checked with.
ImplementsRadio == Atomic!RadioSpec
=============================================================================
