----------------------------- MODULE AtomicRadio -----------------------------
(***************************************************************************)
(* The radio as Dongle uses it: the operations of Hw3000, each one step.    *)
(* Radio, register by register, is shown to implement this.                 *)
(***************************************************************************)
EXTENDS Hw3000

RadioInit ==
    /\ hw3000_channel \in Channels
    /\ chip = Listening(hw3000_channel)
    /\ state = "RX"
    /\ rx_buffer = {}

Calls ==
    \/ \E c \in Channels : hw3000_channel_change(c) /\ UNCHANGED rx_buffer
    \/ hw3000_txdata_send /\ UNCHANGED rx_buffer
    \/ hw3000_process

\* hw3000_rxdata_get
TakeFrame == rx_buffer' = {} /\ UNCHANGED <<state, hw3000_channel, chip>>

Air == \E f \in Frames, c \in Channels : Receive(f, c)

Restart == RadioInit'

RadioSpec == RadioInit /\ [][Calls \/ TakeFrame \/ Air \/ Restart]_radioVars
=============================================================================
