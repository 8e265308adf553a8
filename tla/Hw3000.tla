------------------------------- MODULE Hw3000 -------------------------------
(***************************************************************************)
(* firmware/dongle/hw3000.c: the radio as the main loop drives it, and the  *)
(* chip behind the SPI bus, modelled from what the code expects of it.      *)
(*                                                                         *)
(* The chip listens on one channel, keeps one frame in its FIFO and pulls   *)
(* IRQN low when it has one.  Switching the receiver on discards what the   *)
(* FIFO holds.                                                              *)
(***************************************************************************)
EXTENDS Naturals

CONSTANTS
    OurFrames,           \* frames whose header and checksum are the pendant's
    OtherFrame,          \* any other frame with data in it, short ones included
    EmptyFrame,          \* a frame whose length byte is 0
    Channels

Frames == OurFrames \cup {OtherFrame, EmptyFrame}

VARIABLES
    state,               \* HW3000_STATE_IDLE or HW3000_STATE_RX, the only ones used
    hw3000_channel,
    rx_buffer,           \* {} when rx_buffer_len is 0
    tx_buffer,
    chip                 \* mode, channel, content of the FIFO, irq = (IRQN low)

radioVars == <<state, hw3000_channel, rx_buffer, chip>>

RadioTypeOK ==
    /\ state \in {"IDLE", "RX"}
    /\ hw3000_channel \in Channels
    /\ rx_buffer \in SUBSET Frames
    /\ chip.mode \in {"off", "rx"} /\ chip.channel \in Channels
    /\ chip.fifo \in SUBSET Frames /\ chip.irq \in BOOLEAN

Listening(channel) == [mode |-> "rx", channel |-> channel, fifo |-> {}, irq |-> FALSE]

\* hw3000_rx_disable, hw3000_channel_set, hw3000_rx_enable and the calibration
hw3000_channel_change(channel) ==
    /\ hw3000_channel' = channel
    /\ chip' = Listening(channel)
    /\ state' = "RX"

\* The transmission is over, or was given up after 1000 ticks; the receiver is off.
hw3000_fifo_tx ==
    /\ chip' = [chip EXCEPT !.mode = "off", !.fifo = {}, !.irq = FALSE]
    /\ state' = "IDLE"

\* Mutated form: the receiver is left off after a reply.
hw3000_txdata_send_off ==
    /\ hw3000_fifo_tx
    /\ UNCHANGED hw3000_channel

\* The receiver is off from hw3000_fifo_tx until the change to the same channel
\* switches it on again; nothing arrives in between.
hw3000_txdata_send == hw3000_channel_change(hw3000_channel)

\* What the length byte makes of a frame
Read(frame) == IF frame = EmptyFrame THEN {} ELSE {frame}

\* Reading past the last frame yields anything but one of the pendant's.
FifoFrames == IF chip.fifo = {} THEN {OtherFrame, EmptyFrame} ELSE chip.fifo

\* The interrupt may or may not be taken back when the FIFO has been read.
hw3000_process ==
    \/ /\ chip.irq
       /\ \E f \in FifoFrames, again \in BOOLEAN :
            /\ rx_buffer' = Read(f)
            /\ chip' = [chip EXCEPT !.fifo = {}, !.irq = again]
       /\ UNCHANGED <<state, hw3000_channel>>
    \/ ~chip.irq /\ UNCHANGED radioVars

\* Outside the repository: a frame arrives on the channel the chip listens on.
Receive(frame, channel) ==
    /\ chip.mode = "rx" /\ chip.channel = channel /\ ~chip.irq
    /\ chip' = [chip EXCEPT !.fifo = {frame}, !.irq = TRUE]
    /\ UNCHANGED <<state, hw3000_channel, rx_buffer>>
=============================================================================
