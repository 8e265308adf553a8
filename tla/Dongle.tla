------------------------------- MODULE Dongle -------------------------------
(***************************************************************************)
(* The firmware between its two ends: the loop of firmware/dongle/main.c,   *)
(* with whb04b_process cut where it reads the clock or meets USB or the     *)
(* radio.  The USB side is what Usb is shown to implement: a mailbox for    *)
(* report 06 and a pipe for report 04.                                      *)
(***************************************************************************)
EXTENDS Whb04b, Integers

CONSTANT MAX_LOOP        \* most ticks in one turn of the loop

\* A timeout that is polled in every turn is polled in every lap of the clock,
\* and a turn is shorter than the time after which the pendant counts as lost.
ASSUME MaxLoopAssumption ==
    MAX_LOOP \in Nat /\ 2 * MAX_LOOP < TICK_MOD /\ MAX_LOOP <= RECV_TICKS

VARIABLES
    pc,
    ticks,
    lap,                 \* ticks in this turn of the loop
    slot,                \* unread report 06 in usb.c
    USB_HID_REPORT04, wanted, busy, packet, view,     \* report 04 in usb.c
    pendant              \* the channel the pendant uses

VARIABLES
    sinceValid,          \* history: age of the last valid frame,
    sinceReport,         \* of the last report 06 taken,
    staleFor,            \* of a channel change the reply does not know of,
    owed                 \* history: jog counts the host may still receive

slotVars == <<slot, report06_usb>>
pipeVars == <<USB_HID_REPORT04, wanted, busy, packet, view>>
ageVars == <<sinceValid, sinceReport, staleFor>>
vars == <<pc, ticks, lap, slot, pipeVars, pendant, ageVars, owed, radioVars, tx_buffer,
          linkVars, displayVars, buttonVars>>

Mailbox == INSTANCE ReportMailbox WITH
    Report <- Reports06 \cup {NoReport06}, Opening <- Reports06, out <- report06_usb

Pipe == INSTANCE ReportPipe WITH Report <- Report04, report <- USB_HID_REPORT04

Steps == {"get", "expire", "rx", "reply", "search", "usb", "radio"}
Old == RECV_TICKS + 1    \* an age that is over the limit

TypeOK ==
    /\ RadioTypeOK /\ Whb04bTypeOK
    /\ pc \in Steps
    /\ ticks \in Tick /\ lap \in 0 .. MAX_LOOP
    /\ slot \in SUBSET Reports06 /\ tx_buffer.channel \in Channels
    /\ USB_HID_REPORT04 \in Report04 /\ view \in Report04
    /\ packet \in SUBSET Report04
    /\ wanted \in BOOLEAN /\ busy \in BOOLEAN
    /\ pendant \in Channels
    /\ sinceValid \in 0 .. Old /\ sinceReport \in 0 .. Old /\ staleFor \in 0 .. Old
    /\ owed \in -1 .. 2

Init ==
    /\ pc = "get"
    /\ ticks = 0 /\ lap = 0
    /\ whb04b_setup(ticks)
    /\ tx_buffer = report06_rf
    /\ slot = {}
    /\ USB_HID_REPORT04 = report04_usb /\ view = report04_usb
    /\ wanted = FALSE /\ busy = FALSE /\ packet = {}
    /\ pendant \in {HomeChannel, OtherChannel}
    /\ sinceValid = Old /\ sinceReport = Old /\ staleFor = 0
    /\ owed = 0

Goto(from, to) == pc = from /\ pc' = to

-----------------------------------------------------------------------------
(* whb04b_process *)

NewReport06 ==
    /\ Goto("get", "expire")
    /\ Mailbox!Take
    /\ whb04b_convert_report06(report06_usb', ticks)
    /\ lap' = 0
    /\ sinceReport' = 0
    /\ UNCHANGED <<ticks, pipeVars, pendant, sinceValid, staleFor, owed>>
    /\ UNCHANGED <<radioVars, tx_buffer, linkVars, buttonVars>>

NoReport ==
    /\ Goto("get", "expire")
    /\ slot = {}
    /\ lap' = 0
    /\ UNCHANGED <<ticks, slot, pipeVars, pendant, ageVars, owed>>
    /\ UNCHANGED <<radioVars, tx_buffer, linkVars, displayVars, buttonVars>>

ExpireReport06 ==
    /\ Goto("expire", "rx")
    /\ whb04b_expire_report06(ticks)
    /\ UNCHANGED <<ticks, lap, slotVars, pipeVars, pendant, ageVars, owed>>
    /\ UNCHANGED <<radioVars, linkVars, buttonVars>>

\* hw3000_rxdata_get and the conversion of what it returns
ValidFrame(f) ==
    /\ f \in OurFrames
    /\ whb04b_convert_report04(f, ticks)
    /\ sinceValid' = 0
    /\ owed' = IF f.jog # 0 /\ owed < 2 THEN owed + 1 ELSE owed

InvalidFrame(f) ==
    /\ f \notin OurFrames
    /\ whb04b_refresh_report04(ticks)
    /\ UNCHANGED <<sinceValid, owed>>

NewFrame ==
    /\ Goto("rx", "reply")
    /\ \E f \in rx_buffer : ValidFrame(f) \/ InvalidFrame(f)

NoFrame ==
    /\ Goto("rx", "search")
    /\ rx_buffer = {}
    /\ whb04b_refresh_report04(ticks)
    /\ UNCHANGED <<sinceValid, owed>>

RxData ==
    /\ NewFrame \/ NoFrame
    /\ rx_buffer' = {}
    /\ Pipe!Set(report04_usb')
    /\ UNCHANGED <<ticks, lap, slot, pendant, sinceReport, staleFor>>
    /\ UNCHANGED <<state, hw3000_channel, chip, tx_buffer, linkVars, displayVars>>

SendReply ==
    /\ Goto("reply", "search")
    /\ hw3000_txdata_send
    /\ UNCHANGED <<ticks, lap, slot, pipeVars, pendant, ageVars, owed>>
    /\ UNCHANGED <<rx_buffer, tx_buffer, linkVars, displayVars, buttonVars>>

Search ==
    /\ Goto("search", "usb")
    /\ FindPendant(ticks) \/ HopChannel(ticks) \/ LosePendant(ticks)
    /\ rf_recv_timeout' = timeout_update(rf_recv_timeout, ticks)
    /\ staleFor' = IF rf_channel' # rf_channel THEN 0 ELSE staleFor
    /\ UNCHANGED <<ticks, lap, slot, pipeVars, pendant, sinceValid, sinceReport, owed>>
    /\ UNCHANGED <<tx_buffer, displayVars, report04_usb, override_spindle>>

-----------------------------------------------------------------------------
(* usb_process and hw3000_process *)

UsbFrame ==
    UNCHANGED <<ticks, lap, slot, pendant, ageVars, owed, radioVars, tx_buffer,
                linkVars, displayVars, buttonVars>>

\* A periodic repetition is due (usb.c:197-201).
UsbRepeat == Goto("usb", "usb") /\ ~wanted /\ Pipe!Repeat /\ UsbFrame
UsbSend == Goto("usb", "radio") /\ Pipe!Arm /\ UsbFrame
UsbNoSend == Goto("usb", "radio") /\ (busy \/ ~wanted) /\ UNCHANGED pipeVars /\ UsbFrame

RadioProcess ==
    /\ Goto("radio", "get")
    /\ hw3000_process
    /\ UNCHANGED <<ticks, lap, slot, pipeVars, pendant, ageVars, owed>>
    /\ UNCHANGED <<tx_buffer, linkVars, displayVars, buttonVars>>

MainLoop ==
    \/ NewReport06 \/ NoReport \/ ExpireReport06
    \/ RxData \/ SendReply \/ Search
    \/ UsbSend \/ UsbNoSend
    \/ RadioProcess

-----------------------------------------------------------------------------
(* The clock, the host and the air *)

Older(age) == IF age = Old THEN Old ELSE age + 1

timer0_isr ==
    /\ lap < MAX_LOOP
    /\ ticks' = NextTick(ticks)
    /\ lap' = lap + 1
    /\ sinceValid' = Older(sinceValid)
    /\ sinceReport' = Older(sinceReport)
    /\ staleFor' = IF report06_rf.channel = rf_channel THEN 0 ELSE Older(staleFor)
    /\ UNCHANGED <<pc, slot, pipeVars, pendant, owed, radioVars, tx_buffer>>
    /\ UNCHANGED <<linkVars, displayVars, buttonVars>>

RestOfHost ==
    UNCHANGED <<pc, ticks, lap, pendant, ageVars, radioVars, tx_buffer, linkVars,
                usb_recv_timeout, report06_rf, buttonVars>>

HostReport06 == (Mailbox!Publish \/ Mailbox!Retract) /\ UNCHANGED <<pipeVars, owed>> /\ RestOfHost

HostCollect ==
    /\ Pipe!Collect
    /\ owed' = IF view'.jog # 0 THEN owed - 1 ELSE owed
    /\ UNCHANGED slotVars /\ RestOfHost

HandlerRelease == Pipe!Release /\ UNCHANGED <<slotVars, owed>> /\ RestOfHost
HostBusReset == Pipe!BusReset /\ UNCHANGED <<slotVars, owed>> /\ RestOfHost

RestOfAir ==
    UNCHANGED <<pc, ticks, lap, slot, pipeVars, pendant, ageVars, owed, tx_buffer,
                linkVars, displayVars, buttonVars>>

PendantSends == (\E f \in OurFrames : Receive(f, pendant)) /\ RestOfAir
OthersSend == (\E f \in {OtherFrame, EmptyFrame}, c \in Channels : Receive(f, c)) /\ RestOfAir

Next ==
    \/ MainLoop \/ UsbRepeat \/ timer0_isr
    \/ HostReport06 \/ HostCollect \/ HandlerRelease \/ HostBusReset
    \/ PendantSends \/ OthersSend

\* The loop and the clock go on; the host polls endpoint 1 and has periodic
\* reports on.  The pendant's timing is its own: some of its frames arrive
\* just before the radio is polled.
Fairness ==
    /\ WF_vars(MainLoop) /\ SF_vars(timer0_isr)
    /\ SF_vars(HostCollect) /\ WF_vars(HandlerRelease) /\ SF_vars(UsbRepeat)

Spec == Init /\ [][Next]_vars /\ Fairness

-----------------------------------------------------------------------------
\* Whenever the radio is polled it listens, on the channel whb04b.c has chosen,
\* and every frame read before has been dealt with (hw3000.c:275-324, 331-339;
\* main.c:75-79).
ListensOnChannel ==
    pc = "radio" =>
        /\ chip.mode = "rx" /\ state = "RX"
        /\ chip.channel = rf_channel /\ hw3000_channel = rf_channel
        /\ rx_buffer = {}

\* The dongle is COMMUNICATING exactly if the last valid frame is no older than
\* the limit, however often the 16-bit clock has gone round since
\* (whb04b.c:66-110, timer.c:62-85).
LinkHonest ==
    [][pc = "search" /\ pc' = "usb" =>
         (rf_state' = "COMMUNICATING" <=> sinceValid <= RECV_TICKS)]_vars

\* The pendant is shown the last report the host sent, or nothing if that is too
\* old (whb04b.c:39-53).
DisplayHonest ==
    [][pc = "expire" /\ pc' = "rx" =>
         tx_buffer'.shown.report =
             IF sinceReport <= RECV_TICKS THEN report06_usb ELSE Blank.report]_vars

\* The channel a reply names is written when a report arrives from the host
\* (whb04b.c:124-126) and is stale after a hop, but not for longer than a report
\* lives.
ChannelSettles ==
    [][pc = "expire" /\ pc' = "rx" /\ tx_buffer'.channel # rf_channel
         => staleFor <= RECV_TICKS]_vars

\* The host never counts a jog movement twice: each valid frame's count reaches
\* it at most once, whatever is repeated or reset (whb04b.c:240-241).
JogAtMostOnce == owed >= 0

\* A pendant that keeps sending, on either channel and without others in its
\* way, is found: the search comes back to its channel (whb04b.c:82-101).
FindsPendant ==
    SF_vars(pc = "radio" /\ PendantSends) /\ <>[][~OthersSend]_vars
        => []<>(rf_state = "COMMUNICATING")

\* If the pendant falls silent the host learns it: the timer byte it sees goes
\* to its maximum and stays there (whb04b.c:72-79, 229-245).
SilenceReported ==
    <>[][~PendantSends]_vars => <>[](view.timer = USHRT_MAX \div SLICE)
=============================================================================
