------------------------------- MODULE Radio -------------------------------
(***************************************************************************)
(* firmware/dongle/hw3000.c register by register.  A call is the sequence   *)
(* of things it still has to do (todo); the clock, the chip and the air do  *)
(* something between any two of them.  Outside the repository: the chip,    *)
(* modelled from what the code expects of each register.                    *)
(***************************************************************************)
EXTENDS Timer, Spi, SequencesExt

CONSTANTS
    READY_TRIES,         \* 100, each 10 ms
    CAL_TRIES,           \* 50, each 1 ms
    TX_TICKS,            \* 1000 ticks
    MAX_LAG,             \* most ticks between two looks at the clock
    RX_SIZE,             \* size of rx_buffer: 32
    Channels,
    Reply,               \* the bytes sent to the pendant
    PendantFrames,       \* frames on the air, as sequences of bytes: the pendant's,
    ForeignFrames        \* and those of others

ASSUME RadioAssumption ==
    /\ READY_TRIES \in Nat /\ CAL_TRIES \in Nat /\ RX_SIZE \in Nat
    /\ Reply \in Seq(0 .. 255)
    /\ TX_TICKS \in Nat /\ MAX_LAG \in Nat \ {0} /\ TX_TICKS + MAX_LAG + 1 < TICK_MOD

\* A pendant's frame fits into the buffer and begins with its length.  No other
\* frame is the beginning of one, or has one for its beginning.
ASSUME FrameAssumption ==
    /\ RX_SIZE \in 1 .. 255
    /\ \A g \in PendantFrames :
         g \in Seq(0 .. 255) /\ Len(g) \in 2 .. RX_SIZE - 1 /\ g[1] = Len(g)
    /\ \A f \in ForeignFrames :
         /\ f \in Seq(0 .. 255) /\ f # <<>>
         /\ \A g \in PendantFrames : \E i \in DOMAIN f \cap DOMAIN g : f[i] # g[i]

VARIABLES
    todo,                \* what is left of the call being made
    state, hw3000_channel,
    rx_buffer,           \* its first rx_buffer_len bytes
    chip,                \* powered, ready, bank, regs, FIFOs, IRQN low, sending
    ticks,               \* stands still where nobody looks at it
    lag,                 \* ticks since the clock was looked at
    waited,              \* history: ticks the wait for a transmission has taken
    gaveUp               \* history: the chip was not ready when the wait for it ended

radioVars == <<todo, state, hw3000_channel, rx_buffer, chip, ticks, lag, waited, gaveUp>>

HW3000_REG_TRCTRL == \h01
HW3000_REG_FIFOCTRL == \h0c
HW3000_REG_LEN0PKLEN == \h0d
HW3000_REG_FIFOSTA == \h0e
HW3000_REG_INT == \h0f
HW3000_REG_RXPHR1 == \h11
HW3000_REG_CHCFG0 == \h28
HW3000_REG_RCSTA == \h39
HW3000_REG_RCCFG1 == \h3a
HW3000_REG_BANKSEL == \h4c
HW3000_REG_FIFODATA == \h70

BANK0 == \h5555
BANK1 == \h55aa

-----------------------------------------------------------------------------
(* What a call consists of *)

Write(reg, val) == <<"write", reg, val>>
Assign(s) == <<"state", s>>

\* Bank 1: the table hw3000_init_commands and the constants after it
Bank1Constants == <<
    Write(\h1b, \h1371), Write(\h1c, \h1351), Write(\h1d, \h0b51), Write(\h1e, \h2f71),
    Write(\h1f, \h2f51), Write(\h20, \h2e51), Write(\h21, \h2e31), Write(\h22, \h4b31),
    Write(\h23, \h4731), Write(\h24, \h4631), Write(\h25, \h4531), Write(\h26, \h4431),
    Write(\h27, \h6131), Write(\h28, \h6031), Write(\h29, \h6011), Write(\h2a, \h6009),
    Write(\h03, \h0508), Write(\h11, \hc630), Write(\h14, \h1915), Write(\h17, \hf6c2),
    Write(\h51, \h001b), Write(\h55, \h8003), Write(\h56, \h4155), Write(\h62, \h70ed)>>

\* IFSET, MODECTRL, MODEMCTRL
ModeSettings == <<Write(\h26, \h2e35), Write(\h1c, \h100f), Write(\h25, \h5201)>>

\* RFCFG, FREQCFG1, FREQCFG2, FREQCFG0
hw3000_freq_set == <<
    Write(\h35, \h3312), Write(\h30, \h8013), Write(\h31, \h3333), Write(\h2f, \h2056)>>

\* SYMRATE0, SYMRATE1, FILTERBAND, DEVIATION
hw3000_rate_set == <<
    Write(\h32, \h013a), Write(\h33, \h0093), Write(\h2e, \h0033), Write(\h2c, \h0052)>>

hw3000_power_set == <<Write(\h40, \hff3f)>>

hw3000_p0addr0_set == <<Write(\h14, \h5425)>>

\* PKTCTRL, GPIOCFG0, GPIOCFG1, FIFOTHRES, PKTCFG0, PREACFG, FIFOSTA, LEN0RXADD, PIPECTRL
hw3000_frame_set == <<
    Write(\h02, \h0100), Write(\h1d, \hc009), Write(\h1e, \h08c0), Write(\h06, \h8080),
    Write(\h03, \h4008), Write(\h24, \h0206), Write(HW3000_REG_FIFOSTA, 0),
    Write(\h4e, 0), Write(\h13, 1)>>

ModemSettings ==
    ModeSettings \o hw3000_freq_set \o hw3000_rate_set \o hw3000_power_set
        \o hw3000_p0addr0_set \o hw3000_frame_set

hw3000_rx_disable ==
    <<Write(HW3000_REG_TRCTRL, 0), Write(HW3000_REG_RXPHR1, 1), Assign("IDLE")>>

\* Mutated form: the length of the reply stays set.
hw3000_rx_enable_no_length(s) ==
    <<Write(HW3000_REG_TRCTRL, \h0080), Write(HW3000_REG_FIFOSTA, \h0200), Assign("RX")>>

\* Mutated form: what the FIFO holds is kept.
hw3000_rx_enable_no_flush(s) ==
    <<Write(HW3000_REG_LEN0PKLEN, \h000d), Write(HW3000_REG_TRCTRL, \h0080), Assign("RX")>>

hw3000_rx_enable(s) ==
    IF s = "TX" THEN <<>>
    ELSE (IF s # "IDLE" THEN hw3000_rx_disable ELSE <<>>)
         \o <<Write(HW3000_REG_LEN0PKLEN, \h000d), Write(HW3000_REG_TRCTRL, \h0080),
              Write(HW3000_REG_FIFOSTA, \h0200), Assign("RX")>>

hw3000_calibrate == <<Write(HW3000_REG_RCCFG1, \h002b), <<"calibrated", CAL_TRIES>> >>

hw3000_channel_set(channel) == <<Write(HW3000_REG_CHCFG0, (channel % 64) * 256)>>

\* hw3000_channel itself is assigned by the callers below.
hw3000_channel_change(channel) ==
    hw3000_rx_disable \o hw3000_channel_set(channel) \o hw3000_rx_enable("IDLE")
        \o hw3000_calibrate

hw3000_fifo_tx(s, buffer) ==
    IF s = "TX" THEN <<>>
    ELSE (IF s # "IDLE" THEN hw3000_rx_disable ELSE <<>>)
         \o <<Write(HW3000_REG_TRCTRL, \h0100), Write(HW3000_REG_FIFOSTA, \h0100),
              Write(HW3000_REG_LEN0PKLEN, \h0016), <<"bytes", HW3000_REG_FIFODATA, buffer>>,
              Write(HW3000_REG_FIFOCTRL, 1), <<"start">>, Write(HW3000_REG_FIFOCTRL, 0),
              Write(HW3000_REG_RXPHR1, 1), Write(HW3000_REG_TRCTRL, 0), Assign("IDLE")>>

\* Mutated form: the way back to bank 0 is missing.
hw3000_setup_bank1(channel) ==
    <<<<"power", 0>>, <<"power", 1>>, Write(HW3000_REG_BANKSEL, BANK0),
      <<"ready", READY_TRIES>>, Write(HW3000_REG_BANKSEL, BANK1)>>
    \o Bank1Constants
    \o <<Write(HW3000_REG_RXPHR1, \h8000)>> \o ModemSettings
    \o hw3000_rx_disable \o hw3000_channel_set(channel) \o hw3000_rx_enable("IDLE")
    \o hw3000_calibrate

hw3000_setup(channel) ==
    <<<<"power", 0>>, <<"power", 1>>, Write(HW3000_REG_BANKSEL, BANK0),
      <<"ready", READY_TRIES>>, Write(HW3000_REG_BANKSEL, BANK1)>>
    \o Bank1Constants
    \o <<Write(HW3000_REG_BANKSEL, BANK0), Write(HW3000_REG_RXPHR1, \h8000)>> \o ModemSettings
    \o hw3000_rx_disable \o hw3000_channel_set(channel) \o hw3000_rx_enable("IDLE")
    \o hw3000_calibrate

-----------------------------------------------------------------------------
(* The chip *)

PoweredOff == [powered |-> FALSE, ready |-> FALSE, bank |-> BANK0, regs |-> <<>>,
               fifo |-> <<>>, out |-> <<>>, irq |-> FALSE, sending |-> FALSE]

Register(bank, reg) == IF <<bank, reg>> \in DOMAIN chip.regs THEN chip.regs[<<bank, reg>>] ELSE 0

TRCTRL == Register(BANK0, HW3000_REG_TRCTRL)

\* f with the value v at x, whether x was in its domain or not
Set(f, x, v) ==
    IF x \in DOMAIN f THEN [f EXCEPT ![x] = v]
    ELSE [y \in DOMAIN f \cup {x} |-> IF y = x THEN v ELSE f[y]]

Holds(bank, settings) ==
    \A i \in DOMAIN settings :
        settings[i][2] # HW3000_REG_FIFOSTA => Register(bank, settings[i][2]) = settings[i][3]

Receiving == chip.ready /\ TRCTRL = \h0080

\* What a register does besides keeping its value.  A transmission that is cut
\* off sends nothing more; discarding what is to be sent may take IRQN back.
ChipEffect(reg, val) ==
    CASE reg = HW3000_REG_FIFOSTA /\ val = \h0200 -> {[chip EXCEPT !.fifo = <<>>, !.irq = FALSE]}
      [] reg = HW3000_REG_FIFOSTA /\ val = \h0100 ->
            {[chip EXCEPT !.out = <<>>, !.irq = i] : i \in {chip.irq, FALSE}}
      [] reg = HW3000_REG_FIFOCTRL -> {[chip EXCEPT !.sending = (val = 1)]}
      [] OTHER -> {chip}

ChipWrite(wire) ==
    LET reg == Address(wire)
        val == Word(wire)
    IN  IF ~chip.ready \/ ~IsWrite(wire) THEN chip' = chip
        ELSE IF reg = HW3000_REG_BANKSEL THEN chip' = [chip EXCEPT !.bank = val]
        ELSE \E c \in IF chip.bank = BANK0 THEN ChipEffect(reg, val) ELSE {chip} :
                chip' = [c EXCEPT !.regs = Set(@, <<chip.bank, reg>>, val)]

ChipFifo(wire) ==
    chip' = IF chip.ready /\ IsWrite(wire) /\ Address(wire) = HW3000_REG_FIFODATA
              THEN [chip EXCEPT !.out = Bytes(wire)] ELSE chip

\* Power-up takes the chip some time; one that takes longer than the firmware
\* waits does not wake up any more.
ChipReady ==
    /\ chip.powered /\ ~chip.ready /\ ~gaveUp
    /\ chip' = [chip EXCEPT !.ready = TRUE]
    /\ UNCHANGED <<todo, state, hw3000_channel, rx_buffer, ticks, lag, waited, gaveUp>>

ChipSent ==
    /\ chip.sending /\ ~chip.irq
    /\ chip' = [chip EXCEPT !.irq = TRUE]
    /\ UNCHANGED <<todo, state, hw3000_channel, rx_buffer, ticks, lag, waited, gaveUp>>

\* A frame replaces what is left of the one before.
ChipReceives(frame, channel) ==
    /\ Receiving /\ ~chip.irq
    /\ Register(BANK0, HW3000_REG_CHCFG0) = (channel % 64) * 256
    /\ chip' = [chip EXCEPT !.fifo = frame, !.irq = TRUE]
    /\ UNCHANGED <<todo, state, hw3000_channel, rx_buffer, ticks, lag, waited, gaveUp>>

-----------------------------------------------------------------------------
(* The steps of a call *)

Step(kind) == todo # <<>> /\ Head(todo)[1] = kind
Arg(i) == Head(todo)[i + 1]
Done == todo' = Tail(todo)
Replace(op) == todo' = <<op>> \o Tail(todo)

WriteStep ==
    /\ Step("write")
    /\ ChipWrite(spi_write16(Arg(1), Arg(2)))
    /\ Done
    /\ UNCHANGED <<state, hw3000_channel, rx_buffer, ticks, lag, waited, gaveUp>>

WriteBytes ==
    /\ Step("bytes")
    /\ ChipFifo(spi_writebytes(Arg(1), Arg(2)))
    /\ Done
    /\ UNCHANGED <<state, hw3000_channel, rx_buffer, ticks, lag, waited, gaveUp>>

AssignState ==
    /\ Step("state")
    /\ state' = Arg(1)
    /\ Done
    /\ UNCHANGED <<hw3000_channel, rx_buffer, chip, ticks, lag, waited, gaveUp>>

hw3000_power ==
    /\ Step("power")
    /\ chip' = [PoweredOff EXCEPT !.powered = (Arg(1) = 1)]
    /\ Done
    /\ UNCHANGED <<state, hw3000_channel, rx_buffer, ticks, lag, waited, gaveUp>>

\* Lines 69-76
WaitReady ==
    LET Miso == [command \in ReadCommands |->
            ShiftOut(IF chip.ready /\ Address(command) = HW3000_REG_INT THEN \h4000 ELSE 0, 16)]
        val == spi_read16(HW3000_REG_INT, Miso)
        isReady == (val \div \h4000) % 2 = 1
    IN  /\ Step("ready")
        /\ IF isReady \/ Arg(1) <= 1 THEN Done ELSE Replace(<<"ready", Arg(1) - 1>>)
        /\ gaveUp' = (~isReady /\ Arg(1) <= 1)
        /\ UNCHANGED <<state, hw3000_channel, rx_buffer, chip, ticks, lag, waited>>

\* Lines 231-239: bit 15 of RCSTA tells the end; giving up makes no difference.
WaitCalibrated ==
    /\ Step("calibrated")
    /\ \E finished \in IF chip.ready THEN BOOLEAN ELSE {FALSE} :
         LET Miso == [command \in ReadCommands |->
                ShiftOut(IF finished /\ Address(command) = HW3000_REG_RCSTA THEN \h8000 ELSE 0, 16)]
             val == spi_read16(HW3000_REG_RCSTA, Miso)
         IN  IF val \div \h8000 = 1 \/ Arg(1) <= 1
               THEN Done ELSE Replace(<<"calibrated", Arg(1) - 1>>)
    /\ UNCHANGED <<state, hw3000_channel, rx_buffer, chip, ticks, lag, waited, gaveUp>>

\* Line 292
StartWait ==
    /\ Step("start")
    /\ Replace(<<"sent", ticks>>)
    /\ lag' = 0 /\ waited' = 0
    /\ UNCHANGED <<state, hw3000_channel, rx_buffer, chip, ticks, gaveUp>>

\* Mutated form: the clock is compared with the time to stop at.
TxTimeout_absolute(t_start) == ticks > t_start + TX_TICKS

TxTimeout(t_start) == TickDiff(ticks, t_start) > TX_TICKS

\* Lines 293-300
WaitSent ==
    /\ Step("sent")
    /\ lag' = 0
    /\ IF TxTimeout(Arg(1)) \/ chip.irq THEN Done /\ waited' = 0 ELSE UNCHANGED <<todo, waited>>
    /\ UNCHANGED <<state, hw3000_channel, rx_buffer, chip, ticks, gaveUp>>

timer0_isr ==
    /\ Step("sent") /\ lag < MAX_LAG
    /\ ticks' = NextTick(ticks)
    /\ lag' = lag + 1 /\ waited' = waited + 1
    /\ UNCHANGED <<todo, state, hw3000_channel, rx_buffer, chip, gaveUp>>

RadioStep ==
    \/ WriteStep \/ WriteBytes \/ AssignState \/ hw3000_power
    \/ WaitReady \/ WaitCalibrated \/ StartWait \/ WaitSent

RadioEnvironment ==
    \/ ChipReady \/ ChipSent
    \/ \E f \in PendantFrames \cup ForeignFrames, c \in Channels : ChipReceives(f, c)

-----------------------------------------------------------------------------
(* The calls *)

ChangeChannel(channel) ==
    /\ todo = <<>>
    /\ hw3000_channel' = channel
    /\ todo' = hw3000_channel_change(channel)
    /\ UNCHANGED <<state, rx_buffer, chip, ticks, lag, waited, gaveUp>>

hw3000_txdata_send ==
    /\ todo = <<>>
    /\ todo' = hw3000_fifo_tx(state, Reply) \o hw3000_channel_change(hw3000_channel)
    /\ UNCHANGED <<state, hw3000_channel, rx_buffer, chip, ticks, lag, waited, gaveUp>>

\* The first byte is the length, itself included; no more is read than fits.
hw3000_fifo_read(First, Rest) ==
    LET byte == spi_read8(HW3000_REG_FIFODATA, First)
        len == IF byte > RX_SIZE THEN RX_SIZE ELSE byte
    IN  IF len = 0 THEN <<>> ELSE <<len>> \o spi_readbytes(HW3000_REG_FIFODATA, len - 1, Rest)

\* Past its end the FIFO yields zeros or ones.  Nothing arrives while IRQN is low.
hw3000_process ==
    /\ todo = <<>>
    /\ IF ~chip.irq THEN UNCHANGED <<rx_buffer, chip>>
       ELSE \E noise \in {0, 255}, again \in BOOLEAN :
         LET bytes == chip.fifo \o [i \in 1 .. RX_SIZE |-> noise]
             FirstMiso == [command \in ReadCommands |-> ShiftOut(Head(bytes), 8)]
             RestMiso == [command \in ReadCommands |->
                 [i \in 1 .. 8 * (RX_SIZE - 1) |->
                    ShiftOut(bytes[2 + (i - 1) \div 8], 8)[1 + ((i - 1) % 8)]]]
         IN  /\ rx_buffer' = hw3000_fifo_read(FirstMiso, RestMiso)
             /\ chip' = [chip EXCEPT !.fifo = <<>>, !.irq = again]
    /\ UNCHANGED <<todo, state, hw3000_channel, ticks, lag, waited, gaveUp>>

hw3000_rxdata_get ==
    /\ todo = <<>>
    /\ rx_buffer' = <<>>
    /\ UNCHANGED <<todo, state, hw3000_channel, chip, ticks, lag, waited, gaveUp>>
=============================================================================
