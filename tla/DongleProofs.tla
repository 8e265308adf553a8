---------------------------- MODULE DongleProofs ----------------------------
(***************************************************************************)
(* The firmware between USB and the radio, for every width of the clock,   *)
(* every limit, every set of frames, reports and channels, and a loop of    *)
(* any speed that polls its timeouts in every lap: the link, the display    *)
(* and the jog counts.                                                      *)
(***************************************************************************)
EXTENDS Dongle, TLAPS

-----------------------------------------------------------------------------
(* The radio *)

RadioTypes ==
    /\ RadioTypeOK
    /\ chip \in [mode : {"off", "rx"}, channel : Channels, fifo : SUBSET Frames, irq : BOOLEAN]
    /\ rf_state \in {"SEARCHING", "COMMUNICATING"}
    /\ rf_channel \in {HomeChannel, OtherChannel}

\* The three places the channel is kept in agree, and the receiver is on.
RadioInv ==
    /\ RadioTypes
    /\ chip.mode = "rx" /\ state = "RX"
    /\ chip.channel = rf_channel /\ hw3000_channel = rf_channel
    /\ pc \notin {"get", "expire", "rx"} => rx_buffer = {}

LEMMA InitRadio == Init => RadioInv
<1> SUFFICES ASSUME Init PROVE RadioInv
    OBVIOUS
<1> QED BY Whb04bAssumption
        DEF Init, whb04b_setup, RadioInv, RadioTypes, RadioTypeOK, Listening

\* A change of channel, to the same one or another, ends with the receiver on.
LEMMA ChannelChangeListens ==
    ASSUME NEW c \in {HomeChannel, OtherChannel}, hw3000_channel_change(c), RadioInv
    PROVE  /\ chip'.mode = "rx" /\ state' = "RX" /\ chip'.channel = c /\ hw3000_channel' = c
           /\ chip' \in [mode : {"off", "rx"}, channel : Channels, fifo : SUBSET Frames, irq : BOOLEAN]
<1>1. chip' = [mode |-> "rx", channel |-> c, fifo |-> {}, irq |-> FALSE] /\ c \in Channels
  BY Whb04bAssumption DEF hw3000_channel_change, Listening
<1>2. FALSE \in BOOLEAN /\ {} \in SUBSET Frames
  OBVIOUS
<1> QED BY <1>1, <1>2 DEF hw3000_channel_change

LEMMA ProcessListens == RadioInv /\ hw3000_process /\ UNCHANGED linkVars /\ pc' = "get" => RadioInv'
<1> SUFFICES ASSUME RadioInv, hw3000_process, UNCHANGED linkVars, pc' = "get" PROVE RadioInv'
    OBVIOUS
<1> USE DEF RadioInv, RadioTypes, RadioTypeOK, linkVars
<1>1. CASE ~chip.irq /\ UNCHANGED radioVars
  BY <1>1 DEF radioVars
<1>2. CASE chip.irq /\ UNCHANGED <<state, hw3000_channel>>
           /\ \E f \in FifoFrames, again \in BOOLEAN :
                /\ rx_buffer' = Read(f)
                /\ chip' = [chip EXCEPT !.fifo = {}, !.irq = again]
  <2>1. PICK f \in FifoFrames, again \in BOOLEAN :
               /\ rx_buffer' = Read(f)
               /\ chip' = [chip EXCEPT !.fifo = {}, !.irq = again]
    BY <1>2
  <2>2. f \in Frames
    BY DEF FifoFrames, Frames
  <2>3. rx_buffer' \in SUBSET Frames
    BY <2>1, <2>2 DEF Read
  <2>4. chip' \in [mode : {"off", "rx"}, channel : Channels, fifo : SUBSET Frames, irq : BOOLEAN]
        /\ chip'.mode = chip.mode /\ chip'.channel = chip.channel /\ chip'.fifo = {} /\ chip'.irq = again
    BY <2>1
  <2> QED BY <1>2, <2>3, <2>4
<1> QED BY <1>1, <1>2 DEF hw3000_process

LEMMA ReceiveListens ==
    ASSUME RadioInv, NEW f \in Frames, NEW c, Receive(f, c), UNCHANGED <<linkVars, pc>>
    PROVE  RadioInv'
<1> USE DEF RadioInv, RadioTypes, RadioTypeOK, linkVars, Receive
<1>1. chip' = [chip EXCEPT !.fifo = {f}, !.irq = TRUE] /\ {f} \in SUBSET Frames /\ TRUE \in BOOLEAN
  OBVIOUS
<1>2. chip' \in [mode : {"off", "rx"}, channel : Channels, fifo : SUBSET Frames, irq : BOOLEAN]
      /\ chip'.mode = chip.mode /\ chip'.channel = chip.channel /\ chip'.fifo = {f} /\ chip'.irq = TRUE
  BY <1>1
<1> QED BY <1>1, <1>2

LEMMA NextRadio == RadioInv /\ [Next]_vars => RadioInv'
<1> SUFFICES ASSUME RadioInv, [Next]_vars PROVE RadioInv'
    OBVIOUS
<1> USE DEF RadioInv, RadioTypes, RadioTypeOK, radioVars, linkVars, Goto
<1>1. CASE NewReport06 \/ NoReport \/ ExpireReport06
  BY <1>1 DEF NewReport06, NoReport, ExpireReport06
<1>2. CASE RxData
  <2>1. {} \in SUBSET Frames
    OBVIOUS
  <2> QED BY <1>2, <2>1 DEF RxData, NewFrame, NoFrame
<1>3. CASE SendReply
  BY <1>3, ChannelChangeListens, Whb04bAssumption DEF SendReply, hw3000_txdata_send
<1>4. CASE Search
  <2>1. rx_buffer = {} /\ rx_buffer' = rx_buffer
    BY <1>4 DEF Search, FindPendant, HopChannel, LosePendant
  <2>2. CASE UNCHANGED <<rf_channel, radioVars>>
    BY <1>4, <2>1, <2>2 DEF Search, FindPendant, HopChannel, LosePendant
  <2>3. CASE rf_state' = rf_state /\ rf_channel' = NextChannel /\ hw3000_channel_change(rf_channel')
    <3>1. NextChannel \in {HomeChannel, OtherChannel} /\ NextChannel \in Channels
      BY Whb04bAssumption DEF NextChannel
    <3> QED BY <2>1, <2>3, <3>1, ChannelChangeListens
  <2> QED BY <1>4, <2>2, <2>3 DEF Search, FindPendant, HopChannel, LosePendant
<1>5. CASE UsbSend \/ UsbNoSend \/ UsbRepeat
  BY <1>5 DEF UsbSend, UsbNoSend, UsbRepeat, UsbFrame
<1>6. CASE RadioProcess
  BY <1>6, ProcessListens DEF RadioProcess
<1>7. CASE timer0_isr
  BY <1>7 DEF timer0_isr
<1>8. CASE HostReport06 \/ HostCollect \/ HandlerRelease \/ HostBusReset
  BY <1>8 DEF HostReport06, HostCollect, HandlerRelease, HostBusReset, RestOfHost
<1>9. CASE PendantSends \/ OthersSend
  BY <1>9, ReceiveListens DEF PendantSends, OthersSend, RestOfAir, Frames
<1>10. CASE UNCHANGED vars
  BY <1>10 DEF vars
<1> QED BY <1>1, <1>2, <1>3, <1>4, <1>5, <1>6, <1>7, <1>8, <1>9, <1>10 DEF Next, MainLoop

\* The radio listens on the channel the search has chosen, whenever it is polled
\* (hw3000.c:275-324, 331-339; whb04b.c:82-101).
THEOREM ListensOnChannelHolds == Spec => []ListensOnChannel
<1>1. Init => RadioInv
  BY InitRadio
<1>2. RadioInv /\ [Next]_vars => RadioInv'
  BY NextRadio
<1>3. RadioInv => ListensOnChannel
  BY DEF RadioInv, ListensOnChannel
<1> QED BY <1>1, <1>2, <1>3, PTL DEF Spec
-----------------------------------------------------------------------------
(* The jog counts *)

\* Quotients grow with the dividend.
LEMMA QuotientBound ==
    ASSUME NEW e \in Nat, NEW m \in Nat, e <= m, NEW s \in Nat \ {0}
    PROVE  e \div s \in 0 .. m \div s
<1>1. e \div s \in Nat /\ m \div s \in Nat
  OBVIOUS
<1>2. s * (e \div s) <= e /\ m < s * ((m \div s) + 1)
  OBVIOUS
<1>3. \A p, q \in Nat : s * p < s * q => p < q
  OBVIOUS
<1>4. s * (e \div s) < s * ((m \div s) + 1)
  BY <1>1, <1>2
<1>5. e \div s < (m \div s) + 1
  BY <1>1, <1>3, <1>4
<1> QED BY <1>1, <1>5

PipeTypes ==
    /\ pc \in Steps
    /\ report04_usb \in Report04 /\ override_spindle \in {0, 1}
    /\ USB_HID_REPORT04 \in Report04 /\ view \in Report04 /\ packet \in SUBSET Report04
    /\ wanted \in BOOLEAN /\ busy \in BOOLEAN
    /\ owed \in 0 .. 2

\* A count the loop has read and not yet armed is overwritten before it reads again.
Fresh == IF pc \in {"reply", "search", "usb"} /\ USB_HID_REPORT04.jog # 0 THEN 1 ELSE 0

\* A count the host may collect
Carried == IF \E r \in packet : r.jog # 0 THEN 1 ELSE 0

JogInv ==
    /\ PipeTypes
    /\ packet # {} => busy
    /\ Fresh + Carried <= owed

LEMMA InitJogs == Init => JogInv
<1> SUFFICES ASSUME Init PROVE JogInv
    OBVIOUS
<1> USE DEF Init, whb04b_setup
<1>1. 0 \in Timers /\ 0 \in Jogs /\ "none" \in Buttons
  <2>1. 0 \div SLICE = 0 /\ USHRT_MAX \in Nat
    BY Whb04bAssumption, TickModAssumption DEF USHRT_MAX
  <2>2. 0 \in Timers
    BY <2>1, QuotientBound, Whb04bAssumption DEF Timers
  <2> QED BY <2>2 DEF Jogs, Buttons
<1>2. report04_usb \in Report04
  BY <1>1 DEF Report04
<1>3. wanted \in BOOLEAN /\ busy \in BOOLEAN
  OBVIOUS
<1>4. PipeTypes
  BY <1>2, <1>3 DEF PipeTypes, Steps
<1> QED BY <1>4 DEF JogInv, Fresh, Carried

Elapsed(t) == timeout_update(t, ticks).elapsed

LEMMA UpdateType ==
    ASSUME NEW t \in timeout_t, ticks \in Tick
    PROVE  /\ timeout_update(t, ticks) \in timeout_t
           /\ timeout_update(t, ticks).start = t.start
           /\ Elapsed(t) \in Tick
           /\ Elapsed(t) \div SLICE \in Timers
<1>1. timeout_update(t, ticks) \in timeout_t /\ timeout_update(t, ticks).start = t.start
      /\ Elapsed(t) \in Tick
  BY TickModAssumption DEF timeout_update, timeout_t, TickDiff, Tick, USHRT_MAX, Elapsed
<1>2. Elapsed(t) \in Nat /\ USHRT_MAX \in Nat /\ Elapsed(t) <= USHRT_MAX
  BY <1>1, TickModAssumption DEF Tick, USHRT_MAX
<1>3. Elapsed(t) \div SLICE \in Timers
  BY <1>2, QuotientBound, Whb04bAssumption DEF Timers
<1> QED BY <1>1, <1>3

\* What the loop hands to USB, and what the host may then receive
LEMMA RxDataJogs == JogInv /\ RxData /\ ticks \in Tick /\ rf_recv_timeout \in timeout_t => JogInv'
<1> SUFFICES ASSUME JogInv, RxData, ticks \in Tick, rf_recv_timeout \in timeout_t PROVE JogInv'
    OBVIOUS
<1> USE DEF JogInv, PipeTypes
<1>1. /\ pc = "rx" /\ pc' \in {"reply", "search"}
      /\ USB_HID_REPORT04' = report04_usb' /\ UNCHANGED <<busy, packet, view>>
      /\ wanted' = (wanted \/ report04_usb' # USB_HID_REPORT04)
  BY DEF RxData, NewFrame, NoFrame, Goto, Pipe!Set
<1>2. wanted' \in BOOLEAN
  BY <1>1
<1>3. UNCHANGED Carried /\ Carried \in {0, 1} /\ Carried <= owed
  BY <1>1 DEF Carried, Fresh
<1>4. CASE \E f \in OurFrames : ValidFrame(f)
  <2>1. PICK f \in OurFrames : ValidFrame(f)
    BY <1>4
  <2>2. report04_usb' = [timer |-> Elapsed(rf_recv_timeout) \div SLICE, button |-> f.button, jog |-> f.jog]
        /\ override_spindle' \in {0, 1}
    BY <2>1 DEF ValidFrame, whb04b_convert_report04, Elapsed
  <2>3. Elapsed(rf_recv_timeout) \div SLICE \in Timers /\ f.button \in Buttons /\ f.jog \in Jogs
    BY UpdateType DEF Buttons, Jogs
  <2>4. report04_usb' \in Report04 /\ report04_usb'.jog = f.jog
    BY <2>2, <2>3 DEF Report04
  <2>5. owed' = IF f.jog # 0 /\ owed < 2 THEN owed + 1 ELSE owed
    BY <2>1 DEF ValidFrame
  <2>6. Fresh' + Carried' <= owed' /\ owed' \in 0 .. 2
    BY <1>1, <1>3, <2>4, <2>5 DEF Fresh
  <2> QED BY <1>1, <1>2, <2>2, <2>4, <2>6 DEF Steps
<1>5. CASE whb04b_refresh_report04(ticks) /\ UNCHANGED owed
  <2>1. report04_usb' = [report04_usb EXCEPT !.timer = Elapsed(rf_recv_timeout) \div SLICE, !.jog = 0]
        /\ UNCHANGED override_spindle
    BY <1>5 DEF whb04b_refresh_report04, Elapsed
  <2>2. Elapsed(rf_recv_timeout) \div SLICE \in Timers /\ 0 \in Jogs
    BY UpdateType DEF Jogs
  <2>3. report04_usb' \in Report04 /\ report04_usb'.jog = 0
    BY <2>1, <2>2 DEF Report04
  <2>4. Fresh' + Carried' <= owed'
    BY <1>1, <1>3, <1>5, <2>3 DEF Fresh
  <2> QED BY <1>1, <1>2, <1>5, <2>1, <2>3, <2>4 DEF Steps
<1> QED BY <1>4, <1>5 DEF RxData, NewFrame, NoFrame, ValidFrame, InvalidFrame

LEMMA HostCollectJogs == JogInv /\ HostCollect => JogInv'
<1> SUFFICES ASSUME JogInv, HostCollect PROVE JogInv'
    OBVIOUS
<1> USE DEF JogInv, PipeTypes
<1>1. PICK r \in Report04 : packet = {r} /\ view' = r
  BY DEF HostCollect, Pipe!Collect
<1>2. /\ packet' = {} /\ UNCHANGED <<pc, USB_HID_REPORT04, wanted, busy, report04_usb, override_spindle>>
      /\ owed' = IF r.jog # 0 THEN owed - 1 ELSE owed
  BY <1>1 DEF HostCollect, Pipe!Collect, RestOfHost, buttonVars
<1>3. Carried = (IF r.jog # 0 THEN 1 ELSE 0) /\ Carried' = 0
  BY <1>1, <1>2 DEF Carried
<1>4. Fresh' = Fresh /\ Fresh \in {0, 1}
  BY <1>2 DEF Fresh
<1>5. Fresh' + Carried' <= owed' /\ owed' \in 0 .. 2
  BY <1>2, <1>3, <1>4
<1> QED BY <1>1, <1>2, <1>5

\* Steps that neither hand over a report nor collect one
LEMMA OtherJogs ==
    ASSUME JogInv, UNCHANGED <<report04_usb, override_spindle, USB_HID_REPORT04, view, owed>>,
           pc' \in Steps, Fresh' + Carried' <= Fresh + Carried,
           wanted' \in BOOLEAN, busy' \in BOOLEAN, packet' \in SUBSET Report04, packet' # {} => busy'
    PROVE  JogInv'
<1>1. Fresh \in {0, 1} /\ Carried \in {0, 1} /\ Fresh' \in {0, 1} /\ Carried' \in {0, 1}
  BY DEF Fresh, Carried
<1>2. PipeTypes'
  BY DEF JogInv, PipeTypes
<1>3. owed' = owed /\ owed \in 0 .. 2 /\ Fresh + Carried <= owed
  BY DEF JogInv, PipeTypes
<1>4. \A a, b, n \in Int : a <= b /\ b <= n => a <= n
  OBVIOUS
<1>5. Fresh' + Carried' \in Int /\ Fresh + Carried \in Int /\ owed \in Int
  BY <1>1, <1>3
<1>6. Fresh' + Carried' <= owed'
  BY <1>3, <1>4, <1>5
<1> QED BY <1>2, <1>6 DEF JogInv

LEMMA NextJogs ==
    ASSUME JogInv, ticks \in Tick, rf_recv_timeout \in timeout_t, [Next]_vars
    PROVE  JogInv'
<1> USE DEF Goto, pipeVars, buttonVars, Steps
<1>0. pc \in Steps /\ wanted \in BOOLEAN /\ busy \in BOOLEAN /\ packet \in SUBSET Report04
      /\ USB_HID_REPORT04 \in Report04 /\ (packet # {} => busy)
  BY DEF JogInv, PipeTypes
<1>a. Fresh \in {0, 1} /\ Carried \in {0, 1}
  BY DEF Fresh, Carried
<1>1. CASE NewReport06 \/ NoReport \/ ExpireReport06 \/ SendReply \/ RadioProcess
  <2>1. UNCHANGED <<pipeVars, buttonVars, owed>> /\ pc' \in Steps
        /\ (pc' \in {"reply", "search", "usb"} => pc \in {"reply", "search", "usb"})
    BY <1>1 DEF NewReport06, NoReport, ExpireReport06, SendReply, RadioProcess
  <2>2. Fresh' + Carried' <= Fresh + Carried
    BY <1>a, <2>1 DEF Fresh, Carried
  <2> QED BY <1>0, <2>1, <2>2, OtherJogs
<1>2. CASE Search
  <2>1. UNCHANGED <<pipeVars, report04_usb, override_spindle, owed>> /\ pc = "search" /\ pc' = "usb"
    BY <1>2 DEF Search
  <2>2. Fresh' + Carried' <= Fresh + Carried
    BY <1>a, <2>1 DEF Fresh, Carried
  <2> QED BY <1>0, <2>1, <2>2, OtherJogs
<1>3. CASE UsbSend
  <2>1. /\ pc = "usb" /\ pc' = "radio" /\ packet' = {USB_HID_REPORT04} /\ busy' = TRUE /\ wanted' = FALSE
        /\ UNCHANGED <<buttonVars, owed, USB_HID_REPORT04, view>>
    BY <1>3 DEF UsbSend, UsbFrame, Pipe!Arm
  <2>2. Fresh' = 0 /\ Carried' = Fresh
    BY <2>1 DEF Fresh, Carried
  <2>3. packet' \in SUBSET Report04 /\ pc' \in Steps
    BY <1>0, <2>1
  <2>4. wanted' \in BOOLEAN /\ busy' \in BOOLEAN /\ (packet' # {} => busy')
    BY <2>1
  <2>5. Carried = 0
    BY <1>0, <1>3 DEF UsbSend, Pipe!Arm, Carried
  <2>6. Fresh' + Carried' <= Fresh + Carried
    BY <1>a, <2>2, <2>5
  <2> QED BY <2>1, <2>3, <2>4, <2>6, OtherJogs
<1>4. CASE UsbNoSend \/ UsbRepeat
  <2>1. /\ pc = "usb" /\ pc' \in {"usb", "radio"} /\ wanted' \in BOOLEAN
        /\ UNCHANGED <<buttonVars, owed, USB_HID_REPORT04, view, packet, busy>>
    BY <1>0, <1>4 DEF UsbNoSend, UsbRepeat, UsbFrame, Pipe!Repeat
  <2>2. Fresh' + Carried' <= Fresh + Carried
    BY <1>a, <2>1 DEF Fresh, Carried
  <2> QED BY <1>0, <2>1, <2>2, OtherJogs
<1>5. CASE timer0_isr \/ PendantSends \/ OthersSend \/ UNCHANGED vars
  <2>1. UNCHANGED <<pc, pipeVars, buttonVars, owed>>
    BY <1>5 DEF timer0_isr, PendantSends, OthersSend, RestOfAir, vars
  <2>2. Fresh' + Carried' <= Fresh + Carried
    BY <1>a, <2>1 DEF Fresh, Carried
  <2> QED BY <1>0, <2>1, <2>2, OtherJogs
<1>6. CASE HostReport06
  <2>1. UNCHANGED <<pc, pipeVars, buttonVars, owed>>
    BY <1>6 DEF HostReport06, RestOfHost
  <2>2. Fresh' + Carried' <= Fresh + Carried
    BY <1>a, <2>1 DEF Fresh, Carried
  <2> QED BY <1>0, <2>1, <2>2, OtherJogs
<1>7. CASE HandlerRelease \/ HostBusReset
  <2>1. /\ UNCHANGED <<pc, buttonVars, owed, USB_HID_REPORT04, view, wanted>>
        /\ packet' = {} /\ busy' = FALSE
    BY <1>7 DEF HandlerRelease, HostBusReset, RestOfHost, Pipe!Release, Pipe!BusReset
  <2>2. Fresh' + Carried' <= Fresh + Carried
    BY <1>a, <2>1 DEF Fresh, Carried
  <2>3. FALSE \in BOOLEAN /\ {} \in SUBSET Report04
    OBVIOUS
  <2> QED BY <1>0, <2>1, <2>2, <2>3, OtherJogs
<1> QED BY <1>1, <1>2, <1>3, <1>4, <1>5, <1>6, <1>7, RxDataJogs, HostCollectJogs DEF Next, MainLoop
-----------------------------------------------------------------------------
(* The clock and the two timeouts *)

\* A timeout t, at the time now and polled last at most gap ticks ago, is as old
\* as age says: it has been counted exactly, or the clock has gone round since it
\* was polled and the next poll will see that, or it has reached its maximum.
Tracks(t, age, now, gap) ==
    LET diff == TickDiff(now, t.start) IN
    \/ t.elapsed = USHRT_MAX /\ age = Old
    \/ /\ diff >= t.elapsed /\ diff - t.elapsed <= gap
       /\ age = IF diff < Old THEN diff ELSE Old
    \/ diff < t.elapsed /\ diff + TICK_MOD - t.elapsed <= gap /\ age = Old

LEMMA OldFits == Old \in Nat /\ 0 < Old /\ Old <= USHRT_MAX /\ USHRT_MAX \in Tick /\ 0 \in Tick
BY TickModAssumption, Whb04bAssumption DEF Old, USHRT_MAX, Tick

LEMMA TicksWrap ==
    ASSUME NEW a \in Tick, NEW b \in Tick
    PROVE  /\ TickDiff(a, b) \in Tick /\ TickDiff(a, a) = 0
           /\ NextTick(a) \in Tick
           /\ TickDiff(NextTick(a), b) = IF TickDiff(a, b) = USHRT_MAX THEN 0 ELSE TickDiff(a, b) + 1
BY TickModAssumption DEF Tick, TickDiff, NextTick, USHRT_MAX

LEMMA StartTracks ==
    ASSUME NEW now \in Tick, NEW gap \in Nat
    PROVE  timeout_start(now) \in timeout_t /\ Tracks(timeout_start(now), 0, now, gap)
BY OldFits, TicksWrap DEF timeout_start, timeout_t, Tracks

LEMMA WiderTracks ==
    ASSUME NEW now \in Tick, NEW gap \in Nat, NEW wider \in Nat, gap <= wider,
           NEW t \in timeout_t, NEW age, Tracks(t, age, now, gap)
    PROVE  Tracks(t, age, now, wider)
<1>1. TickDiff(now, t.start) \in Int /\ t.elapsed \in Int /\ TICK_MOD \in Int
  BY TicksWrap, TickModAssumption DEF timeout_t, Tick
<1> QED BY <1>1 DEF Tracks

\* A tick makes everything one tick older, unless a whole lap has been missed.
LEMMA TickTracks ==
    ASSUME NEW now \in Tick, NEW gap \in Nat, gap + 1 < TICK_MOD,
           NEW t \in timeout_t, NEW age, Tracks(t, age, now, gap)
    PROVE  Tracks(t, Older(age), NextTick(now), gap + 1)
<1> DEFINE d == TickDiff(now, t.start)
           e == TickDiff(NextTick(now), t.start)
<1>1. d \in Tick /\ t.elapsed \in Tick /\ (e = IF d = USHRT_MAX THEN 0 ELSE d + 1)
  BY TicksWrap DEF timeout_t
<1>2. \/ t.elapsed = USHRT_MAX /\ age = Old
      \/ d >= t.elapsed /\ d - t.elapsed <= gap /\ age = IF d < Old THEN d ELSE Old
      \/ d < t.elapsed /\ d + TICK_MOD - t.elapsed <= gap /\ age = Old
  BY DEF Tracks
<1> HIDE DEF d, e
<1>3. \/ t.elapsed = USHRT_MAX /\ Older(age) = Old
      \/ e >= t.elapsed /\ e - t.elapsed <= gap + 1 /\ Older(age) = IF e < Old THEN e ELSE Old
      \/ e < t.elapsed /\ e + TICK_MOD - t.elapsed <= gap + 1 /\ Older(age) = Old
  BY <1>1, <1>2, OldFits, TickModAssumption DEF Older, Tick, USHRT_MAX
<1> QED BY <1>3 DEF Tracks, e

\* A poll tells whether the limit has passed, and starts a new gap.
LEMMA PollTracks ==
    ASSUME NEW now \in Tick, NEW gap \in Nat, gap < TICK_MOD, NEW wider \in Nat,
           NEW t \in timeout_t, NEW age, Tracks(t, age, now, gap)
    PROVE  /\ timeout_update(t, now) \in timeout_t
           /\ Tracks(timeout_update(t, now), age, now, wider)
           /\ timeout_elapsed(timeout_update(t, now), RECV_TICKS) <=> age > RECV_TICKS
<1> DEFINE d == TickDiff(now, t.start)
           u == timeout_update(t, now)
<1>1. d \in Tick /\ t.elapsed \in Tick /\ t.start \in Tick
  BY TicksWrap DEF timeout_t
<1>2. u \in timeout_t /\ u.start = t.start /\ (u.elapsed = IF d >= t.elapsed THEN d ELSE USHRT_MAX)
  BY <1>1, OldFits DEF timeout_update, timeout_t
<1>3. \/ t.elapsed = USHRT_MAX /\ age = Old
      \/ d >= t.elapsed /\ d - t.elapsed <= gap /\ age = IF d < Old THEN d ELSE Old
      \/ d < t.elapsed /\ d + TICK_MOD - t.elapsed <= gap /\ age = Old
  BY DEF Tracks
<1> HIDE DEF d, u
<1>4. \/ u.elapsed = USHRT_MAX /\ age = Old
      \/ u.elapsed = d /\ age = IF d < Old THEN d ELSE Old
  BY <1>1, <1>2, <1>3, TickModAssumption DEF Tick, USHRT_MAX
<1>5. u.elapsed > RECV_TICKS <=> age > RECV_TICKS
  BY <1>1, <1>4, OldFits, Whb04bAssumption DEF Old, Tick, USHRT_MAX
<1>6. Tracks(u, age, now, wider)
  <2>1. d - d = 0 /\ d >= d /\ 0 <= wider
    BY <1>1 DEF Tick
  <2> QED BY <1>2, <1>4, <2>1 DEF Tracks, d
<1> QED BY <1>2, <1>5, <1>6 DEF u, timeout_elapsed

\* Ticks since a timeout was polled: in the turn before this one, until this
\* turn has come to it
LinkGap == lap + IF pc \in {"expire", "rx"} THEN MAX_LOOP ELSE 0
HostGap == lap + IF pc = "expire" THEN MAX_LOOP ELSE 0

ClockTypes ==
    /\ ticks \in Tick /\ lap \in 0 .. MAX_LOOP
    /\ rf_search_timeout \in timeout_t /\ rf_recv_timeout \in timeout_t /\ usb_recv_timeout \in timeout_t
    /\ sinceValid \in 0 .. Old /\ sinceReport \in 0 .. Old /\ staleFor \in 0 .. Old

ClockInv ==
    /\ ClockTypes
    /\ Tracks(rf_recv_timeout, sinceValid, ticks, LinkGap)
    /\ Tracks(usb_recv_timeout, sinceReport, ticks, HostGap)

LEMMA GapBound ==
    ASSUME ClockTypes
    PROVE  /\ LinkGap \in Nat /\ LinkGap < TICK_MOD /\ HostGap \in Nat /\ HostGap < TICK_MOD
           /\ lap < MAX_LOOP => LinkGap + 1 < TICK_MOD /\ HostGap + 1 < TICK_MOD
BY MaxLoopAssumption, TickModAssumption DEF ClockTypes, LinkGap, HostGap

\* What a poll of each says
LEMMA LinkPoll ==
    ASSUME ClockInv
    PROVE  timeout_elapsed(timeout_update(rf_recv_timeout, ticks), RECV_TICKS) <=> sinceValid > RECV_TICKS
BY GapBound, PollTracks DEF ClockInv, ClockTypes

LEMMA HostPoll ==
    ASSUME ClockInv
    PROVE  timeout_elapsed(timeout_update(usb_recv_timeout, ticks), RECV_TICKS) <=> sinceReport > RECV_TICKS
BY GapBound, PollTracks DEF ClockInv, ClockTypes

LEMMA InitClock == Init => ClockInv
<1> SUFFICES ASSUME Init PROVE ClockInv
    OBVIOUS
<1>1. ClockTypes
  BY OldFits, MaxLoopAssumption
  DEF Init, whb04b_setup, ClockTypes, timeout_start, timeout_start_max, timeout_t
<1> QED BY <1>1 DEF Init, whb04b_setup, ClockInv, Tracks, timeout_start_max
LEMMA SearchTypes ==
    ASSUME Search, ticks \in Tick, rf_search_timeout \in timeout_t
    PROVE  rf_search_timeout' \in timeout_t
<1>1. timeout_update(rf_search_timeout, ticks) \in timeout_t /\ timeout_start(ticks) \in timeout_t
  BY UpdateType, StartTracks
<1> QED BY <1>1 DEF Search, FindPendant, HopChannel, LosePendant, linkVars

LEMMA NextClock == ClockInv /\ [Next]_vars => ClockInv'
<1> SUFFICES ASSUME ClockInv, [Next]_vars PROVE ClockInv'
    OBVIOUS
<1> USE DEF Goto, ageVars, linkVars, displayVars, buttonVars
<1> DEFINE SameTimers == UNCHANGED <<rf_search_timeout, rf_recv_timeout, usb_recv_timeout, ageVars>>
<1>0. ClockTypes /\ MAX_LOOP \in Nat
  BY MaxLoopAssumption DEF ClockInv
<1>a. /\ lap \in Nat /\ ticks \in Tick /\ rf_recv_timeout \in timeout_t /\ usb_recv_timeout \in timeout_t
      /\ LinkGap \in Nat /\ LinkGap < TICK_MOD /\ HostGap \in Nat /\ HostGap < TICK_MOD
  BY <1>0, GapBound DEF ClockTypes
<1>b. /\ Tracks(rf_recv_timeout, sinceValid, ticks, LinkGap)
      /\ Tracks(usb_recv_timeout, sinceReport, ticks, HostGap)
  BY DEF ClockInv
<1>1. CASE NewReport06
  <2>1. /\ pc = "get" /\ pc' = "expire" /\ lap' = 0 /\ sinceReport' = 0
        /\ usb_recv_timeout' = timeout_start(ticks)
        /\ UNCHANGED <<ticks, rf_search_timeout, rf_recv_timeout, sinceValid, staleFor>>
    BY <1>1 DEF NewReport06, whb04b_convert_report06
  <2>2. LinkGap = lap /\ LinkGap' = MAX_LOOP /\ HostGap' = MAX_LOOP /\ lap <= MAX_LOOP
    BY <1>0, <2>1 DEF LinkGap, HostGap, ClockTypes
  <2>3. /\ usb_recv_timeout' \in timeout_t /\ Tracks(usb_recv_timeout', sinceReport', ticks', HostGap')
        /\ Tracks(rf_recv_timeout', sinceValid', ticks', LinkGap')
    BY <1>0, <1>a, <1>b, <2>1, <2>2, StartTracks, WiderTracks
  <2>4. ClockTypes'
    BY <1>0, <2>1, <2>3, OldFits DEF ClockTypes
  <2> QED BY <2>3, <2>4 DEF ClockInv
<1>2. CASE NoReport
  <2>1. pc = "get" /\ pc' = "expire" /\ lap' = 0 /\ UNCHANGED ticks /\ SameTimers
    BY <1>2 DEF NoReport
  <2>2. /\ LinkGap = lap /\ HostGap = lap /\ lap <= MAX_LOOP
        /\ LinkGap' = MAX_LOOP /\ HostGap' = MAX_LOOP
    BY <1>0, <2>1 DEF LinkGap, HostGap, ClockTypes
  <2>3. /\ Tracks(rf_recv_timeout', sinceValid', ticks', LinkGap')
        /\ Tracks(usb_recv_timeout', sinceReport', ticks', HostGap')
    BY <1>0, <1>a, <1>b, <2>1, <2>2, WiderTracks
  <2>4. ClockTypes'
    BY <1>0, <2>1 DEF ClockTypes
  <2> QED BY <2>3, <2>4 DEF ClockInv
<1>3. CASE ExpireReport06
  <2>1. /\ pc = "expire" /\ pc' = "rx" /\ usb_recv_timeout' = timeout_update(usb_recv_timeout, ticks)
        /\ UNCHANGED <<lap, ticks, rf_search_timeout, rf_recv_timeout, ageVars>>
    BY <1>3 DEF ExpireReport06, whb04b_expire_report06
  <2>2. LinkGap' = LinkGap /\ HostGap' = lap
    BY <1>a, <2>1 DEF LinkGap, HostGap
  <2>3. /\ usb_recv_timeout' \in timeout_t
        /\ Tracks(usb_recv_timeout', sinceReport', ticks', HostGap')
    BY <1>a, <1>b, <2>1, <2>2, PollTracks
  <2>4. ClockTypes'
    BY <1>0, <2>1, <2>3 DEF ClockTypes
  <2> QED BY <1>b, <2>1, <2>2, <2>3, <2>4 DEF ClockInv
<1>4. CASE RxData
  <2>1. /\ pc = "rx" /\ pc' \in {"reply", "search"}
        /\ UNCHANGED <<ticks, lap, sinceReport, staleFor, rf_search_timeout, usb_recv_timeout>>
    BY <1>4 DEF RxData, NewFrame, NoFrame
  <2>2. LinkGap' = lap /\ HostGap = lap /\ HostGap' = lap
    BY <1>a, <2>1 DEF LinkGap, HostGap
  <2>3. \/ rf_recv_timeout' = timeout_start(ticks) /\ sinceValid' = 0
        \/ rf_recv_timeout' = timeout_update(rf_recv_timeout, ticks) /\ sinceValid' = sinceValid
    BY <1>4 DEF RxData, NewFrame, NoFrame, ValidFrame, InvalidFrame,
                whb04b_convert_report04, whb04b_refresh_report04
  <2>4. rf_recv_timeout' \in timeout_t /\ Tracks(rf_recv_timeout', sinceValid', ticks', LinkGap')
    BY <1>a, <1>b, <2>1, <2>2, <2>3, StartTracks, PollTracks
  <2>5. ClockTypes'
    BY <1>0, <2>1, <2>3, <2>4, OldFits DEF ClockTypes
  <2> QED BY <1>b, <2>1, <2>2, <2>4, <2>5 DEF ClockInv
<1>5. CASE Search
  <2>1. /\ pc = "search" /\ pc' = "usb" /\ rf_recv_timeout' = timeout_update(rf_recv_timeout, ticks)
        /\ staleFor' \in {0, staleFor}
        /\ UNCHANGED <<ticks, lap, sinceValid, sinceReport, usb_recv_timeout>>
    BY <1>5 DEF Search
  <2>2. LinkGap' = lap /\ HostGap' = HostGap
    BY <1>a, <2>1 DEF LinkGap, HostGap
  <2>3. rf_recv_timeout' \in timeout_t /\ Tracks(rf_recv_timeout', sinceValid', ticks', LinkGap')
    BY <1>a, <1>b, <2>1, <2>2, PollTracks
  <2>4. ClockTypes'
    BY <1>0, <1>5, <2>1, <2>3, SearchTypes, OldFits DEF ClockTypes
  <2> QED BY <1>b, <2>1, <2>2, <2>3, <2>4 DEF ClockInv
<1>6. CASE timer0_isr
  <2>1. /\ lap < MAX_LOOP /\ lap' = lap + 1 /\ ticks' = NextTick(ticks)
        /\ sinceValid' = Older(sinceValid) /\ sinceReport' = Older(sinceReport)
        /\ staleFor' \in {0, Older(staleFor)}
        /\ UNCHANGED <<pc, rf_search_timeout, rf_recv_timeout, usb_recv_timeout>>
    BY <1>6 DEF timer0_isr
  <2>2. ClockTypes'
    BY <1>0, <2>1, OldFits, TicksWrap DEF ClockTypes, Older
  <2>3. /\ LinkGap' = LinkGap + 1 /\ LinkGap + 1 < TICK_MOD
        /\ HostGap' = HostGap + 1 /\ HostGap + 1 < TICK_MOD
    BY <1>0, <1>a, <2>1, GapBound DEF LinkGap, HostGap
  <2>4. /\ Tracks(rf_recv_timeout', sinceValid', ticks', LinkGap')
        /\ Tracks(usb_recv_timeout', sinceReport', ticks', HostGap')
    BY <1>a, <1>b, <2>1, <2>3, TickTracks
  <2> QED BY <2>2, <2>4 DEF ClockInv
<1>7. CASE /\ UNCHANGED <<ticks, lap>> /\ SameTimers
           /\ pc' = pc \/ (pc \notin {"expire", "rx"} /\ pc' \notin {"expire", "rx"})
  <2>1. LinkGap' = LinkGap /\ HostGap' = HostGap
    BY <1>7 DEF LinkGap, HostGap
  <2>2. ClockTypes'
    BY <1>0, <1>7 DEF ClockTypes
  <2> QED BY <1>7, <1>b, <2>1, <2>2 DEF ClockInv
<1>8. CASE SendReply \/ UsbSend \/ UsbNoSend \/ UsbRepeat \/ RadioProcess
  BY <1>7, <1>8 DEF SendReply, UsbSend, UsbNoSend, UsbRepeat, UsbFrame, RadioProcess
<1>9. CASE HostReport06 \/ HostCollect \/ HandlerRelease \/ HostBusReset
  BY <1>7, <1>9 DEF HostReport06, HostCollect, HandlerRelease, HostBusReset, RestOfHost
<1>10. CASE PendantSends \/ OthersSend \/ UNCHANGED vars
  BY <1>7, <1>10 DEF PendantSends, OthersSend, RestOfAir, vars
<1> QED BY <1>1, <1>2, <1>3, <1>4, <1>5, <1>6, <1>8, <1>9, <1>10 DEF Next, MainLoop

-----------------------------------------------------------------------------
(* The display *)

DisplayTypes ==
    /\ report06_usb \in Reports06 \cup {NoReport06} /\ slot \in SUBSET Reports06
    /\ report06_rf.channel \in Channels /\ report06_rf.shown.spindle \in {0, 1}
    /\ tx_buffer.channel \in Channels

\* What is shown is the last report while it is young; the channel named with it
\* cannot have been wrong for longer than the report has been there.
DisplayInv ==
    /\ DisplayTypes
    /\ sinceReport <= RECV_TICKS => report06_rf.shown.report = report06_usb
    /\ report06_rf.channel # rf_channel => staleFor <= sinceReport

LEMMA InitDisplay == Init => DisplayInv
BY Whb04bAssumption DEF Init, whb04b_setup, DisplayInv, DisplayTypes, Blank, Display, Old

LEMMA NextDisplay == ASSUME ClockInv, RadioTypes, override_spindle \in {0, 1}, DisplayInv, [Next]_vars
                     PROVE  DisplayInv'
<1> USE DEF Goto, ageVars, linkVars, displayVars, slotVars
<1>0. /\ DisplayTypes /\ rf_channel \in Channels /\ RECV_TICKS \in Nat
      /\ sinceReport \in 0 .. Old /\ staleFor \in 0 .. Old
  BY Whb04bAssumption DEF DisplayInv, RadioTypes, ClockInv, ClockTypes
<1> DEFINE Same == UNCHANGED <<report06_usb, report06_rf, tx_buffer, sinceReport>>
<1>1. CASE NewReport06
  <2>1. PICK r \in Reports06 \cup {NoReport06} : slot = {r} /\ report06_usb' = r /\ slot' = {}
    BY <1>1 DEF NewReport06, Mailbox!Take
  <2>2. report06_rf' = [shown |-> Display(report06_usb', override_spindle), channel |-> rf_channel]
        /\ UNCHANGED <<tx_buffer, rf_channel>>
    BY <1>1 DEF NewReport06, whb04b_convert_report06
  <2> QED BY <1>0, <2>1, <2>2 DEF DisplayInv, DisplayTypes, Display
<1>2. CASE ExpireReport06
  <2>1. /\ report06_rf' = IF timeout_elapsed(timeout_update(usb_recv_timeout, ticks), RECV_TICKS)
                            THEN [shown |-> Blank, channel |-> rf_channel] ELSE report06_rf
        /\ tx_buffer' = report06_rf'
        /\ UNCHANGED <<report06_usb, slot, sinceReport, staleFor, rf_channel>>
    BY <1>2 DEF ExpireReport06, whb04b_expire_report06
  <2>2. timeout_elapsed(timeout_update(usb_recv_timeout, ticks), RECV_TICKS) <=> sinceReport > RECV_TICKS
    BY HostPoll
  <2>3. CASE sinceReport > RECV_TICKS
    BY <1>0, <2>1, <2>2, <2>3 DEF DisplayInv, DisplayTypes, Blank, Display
  <2>4. CASE ~(sinceReport > RECV_TICKS)
    BY <1>0, <2>1, <2>2, <2>4 DEF DisplayInv, DisplayTypes
  <2> QED BY <2>3, <2>4
<1>3. CASE Search
  <2>1. Same /\ UNCHANGED slot /\ staleFor' = IF rf_channel' # rf_channel THEN 0 ELSE staleFor
    BY <1>3 DEF Search
  <2> QED BY <1>0, <2>1 DEF DisplayInv, DisplayTypes
<1>4. CASE timer0_isr
  <2>1. /\ UNCHANGED <<report06_usb, report06_rf, tx_buffer, slot, rf_channel>>
        /\ sinceReport' = Older(sinceReport)
        /\ staleFor' = IF report06_rf.channel = rf_channel THEN 0 ELSE Older(staleFor)
    BY <1>4 DEF timer0_isr
  <2>2. sinceReport' <= RECV_TICKS => sinceReport <= RECV_TICKS
    BY <1>0, <2>1 DEF Older, Old
  <2>3. report06_rf.channel # rf_channel => staleFor' <= sinceReport'
    BY <1>0, <2>1 DEF Older, Old, DisplayInv
  <2> QED BY <1>0, <2>1, <2>2, <2>3 DEF DisplayInv, DisplayTypes
<1>5. CASE HostReport06
  <2>1. Same /\ UNCHANGED <<staleFor, rf_channel>> /\ slot' \in SUBSET Reports06
    BY <1>5 DEF HostReport06, RestOfHost, Mailbox!Publish, Mailbox!Retract
  <2> QED BY <1>0, <2>1 DEF DisplayInv, DisplayTypes
<1>6. CASE Same /\ UNCHANGED <<slot, staleFor, rf_channel>>
  BY <1>0, <1>6 DEF DisplayInv, DisplayTypes
<1>7. CASE NoReport \/ RxData \/ SendReply \/ UsbSend \/ UsbNoSend \/ UsbRepeat \/ RadioProcess
  BY <1>6, <1>7 DEF NoReport, RxData, SendReply, UsbSend, UsbNoSend, UsbRepeat, UsbFrame, RadioProcess
<1>8. CASE HostCollect \/ HandlerRelease \/ HostBusReset
  BY <1>6, <1>8 DEF HostCollect, HandlerRelease, HostBusReset, RestOfHost
<1>9. CASE PendantSends \/ OthersSend \/ UNCHANGED vars
  BY <1>6, <1>9 DEF PendantSends, OthersSend, RestOfAir, vars
<1> QED BY <1>1, <1>2, <1>3, <1>4, <1>5, <1>7, <1>8, <1>9 DEF Next, MainLoop

-----------------------------------------------------------------------------
(* Together *)

DongleInv == RadioInv /\ JogInv /\ ClockInv /\ DisplayInv /\ pendant \in Channels

\* The conjunction the results below rest on: radio, jog counts, clocks and display
\* (whb04b.c:34-251).
THEOREM DongleInvariant == Spec => []DongleInv
<1>1. Init => DongleInv
  <2> SUFFICES ASSUME Init PROVE DongleInv
      OBVIOUS
  <2>1. pendant \in Channels
    BY Whb04bAssumption DEF Init
  <2> QED BY <2>1, InitRadio, InitJogs, InitClock, InitDisplay DEF DongleInv
<1>2. DongleInv /\ [Next]_vars => DongleInv'
  <2> SUFFICES ASSUME DongleInv, [Next]_vars PROVE DongleInv'
      OBVIOUS
  <2>1. RadioTypes /\ override_spindle \in {0, 1} /\ ticks \in Tick /\ rf_recv_timeout \in timeout_t
    BY DEF DongleInv, RadioInv, JogInv, PipeTypes, ClockInv, ClockTypes
  <2>2. RadioInv' /\ JogInv' /\ ClockInv' /\ DisplayInv'
    BY <2>1, NextRadio, NextJogs, NextClock, NextDisplay DEF DongleInv
  <2>3. UNCHANGED pendant
    BY DEF Next, MainLoop, NewReport06, NoReport, ExpireReport06, RxData, SendReply, Search, UsbSend,
           UsbNoSend, UsbRepeat, UsbFrame, RadioProcess, timer0_isr, HostReport06, HostCollect,
           HandlerRelease, HostBusReset, RestOfHost, PendantSends, OthersSend, RestOfAir, vars
  <2> QED BY <2>2, <2>3 DEF DongleInv
<1> QED BY <1>1, <1>2, PTL DEF Spec

\* Every variable of the firmware keeps its type (whb04b.h:55-77, hw3000.h).
THEOREM DongleTypeOK == Spec => []TypeOK
<1>1. DongleInv => TypeOK
  <2> SUFFICES ASSUME DongleInv PROVE TypeOK
      OBVIOUS
  <2>1. RadioTypeOK /\ Whb04bTypeOK
    BY DEF DongleInv, RadioInv, RadioTypes, JogInv, PipeTypes, ClockInv, ClockTypes, DisplayInv,
           DisplayTypes, Whb04bTypeOK
  <2>2. owed \in -1 .. 2
    BY DEF DongleInv, JogInv, PipeTypes
  <2> QED BY <2>1, <2>2 DEF TypeOK, DongleInv, JogInv, PipeTypes, ClockInv, ClockTypes, DisplayInv,
                            DisplayTypes
<1> QED BY <1>1, DongleInvariant, PTL

\* No jog movement is counted twice, whatever is repeated or reset
\* (whb04b.c:240-241; usb.c:203-219).
THEOREM JogAtMostOnceHolds == Spec => []JogAtMostOnce
<1>1. DongleInv => JogAtMostOnce
  BY DEF DongleInv, JogInv, PipeTypes, JogAtMostOnce
<1> QED BY <1>1, DongleInvariant, PTL

\* COMMUNICATING means a valid frame within the limit, on a clock of any width
\* (whb04b.c:66-110, timer.c:62-85).
THEOREM LinkHonestHolds == Spec => LinkHonest
<1>1. DongleInv /\ [Next]_vars =>
        [pc = "search" /\ pc' = "usb" => (rf_state' = "COMMUNICATING" <=> sinceValid <= RECV_TICKS)]_vars
  <2> SUFFICES ASSUME DongleInv, Next, pc = "search", pc' = "usb"
               PROVE  rf_state' = "COMMUNICATING" <=> sinceValid <= RECV_TICKS
      OBVIOUS
  <2>1. Search
    BY DEF Next, MainLoop, Goto, NewReport06, NoReport, ExpireReport06, RxData, NewFrame, NoFrame,
           SendReply, UsbSend, UsbNoSend, UsbRepeat, RadioProcess, timer0_isr, HostReport06,
           HostCollect, HandlerRelease, HostBusReset, RestOfHost, PendantSends, OthersSend, RestOfAir
  <2>2. PendantSilent(ticks) <=> sinceValid > RECV_TICKS
    BY LinkPoll DEF DongleInv, PendantSilent
  <2>3. sinceValid \in Nat /\ RECV_TICKS \in Nat
    BY OldFits, Whb04bAssumption DEF DongleInv, ClockInv, ClockTypes, Old
  <2>4. rf_state' = "COMMUNICATING" <=> ~PendantSilent(ticks)
    BY <2>1 DEF Search, FindPendant, HopChannel, LosePendant, DongleInv, RadioInv, RadioTypes
  <2> QED BY <2>2, <2>3, <2>4
<1> QED BY <1>1, DongleInvariant, PTL DEF Spec, LinkHonest

\* What the expiry test makes of the display
LEMMA ExpireStep ==
    ASSUME DongleInv, Next, pc = "expire", pc' = "rx"
    PROVE  /\ UNCHANGED <<report06_usb, rf_channel>>
           /\ tx_buffer' = IF sinceReport > RECV_TICKS THEN [shown |-> Blank, channel |-> rf_channel]
                                                       ELSE report06_rf
<1>1. ExpireReport06
  BY DEF Next, MainLoop, Goto, NewReport06, NoReport, RxData, NewFrame, NoFrame, SendReply, Search,
         UsbSend, UsbNoSend, UsbRepeat, RadioProcess, timer0_isr, HostReport06, HostCollect,
         HandlerRelease, HostBusReset, RestOfHost, PendantSends, OthersSend, RestOfAir
<1> QED BY <1>1, HostPoll DEF DongleInv, ExpireReport06, whb04b_expire_report06, slotVars, linkVars

\* The pendant is shown the last report, or nothing when it is too old
\* (whb04b.c:39-53).
THEOREM DisplayHonestHolds == Spec => DisplayHonest
<1>1. DongleInv /\ [Next]_vars =>
        [pc = "expire" /\ pc' = "rx" =>
           tx_buffer'.shown.report = IF sinceReport <= RECV_TICKS THEN report06_usb ELSE Blank.report]_vars
  <2> SUFFICES ASSUME DongleInv, Next, pc = "expire", pc' = "rx"
               PROVE  tx_buffer'.shown.report =
                        IF sinceReport <= RECV_TICKS THEN report06_usb ELSE Blank.report
      OBVIOUS
  <2>1. sinceReport \in Nat /\ RECV_TICKS \in Nat
    BY OldFits, Whb04bAssumption DEF DongleInv, ClockInv, ClockTypes, Old
  <2> QED BY <2>1, ExpireStep DEF DongleInv, DisplayInv
<1> QED BY <1>1, DongleInvariant, PTL DEF Spec, DisplayHonest

\* A reply names a channel the dongle has left only for as long as a report lives
\* (whb04b.c:39-53, 124-126).
THEOREM ChannelSettlesHolds == Spec => ChannelSettles
<1>1. DongleInv /\ [Next]_vars =>
        [pc = "expire" /\ pc' = "rx" /\ tx_buffer'.channel # rf_channel => staleFor <= RECV_TICKS]_vars
  <2> SUFFICES ASSUME DongleInv, Next, pc = "expire", pc' = "rx", tx_buffer'.channel # rf_channel
               PROVE  staleFor <= RECV_TICKS
      OBVIOUS
  <2>1. sinceReport \in Nat /\ staleFor \in Nat /\ RECV_TICKS \in Nat
    BY OldFits, Whb04bAssumption DEF DongleInv, ClockInv, ClockTypes, Old
  <2>2. ~(sinceReport > RECV_TICKS) /\ report06_rf.channel # rf_channel
    BY ExpireStep
  <2> QED BY <2>1, <2>2 DEF DongleInv, DisplayInv
<1> QED BY <1>1, DongleInvariant, PTL DEF Spec, ChannelSettles
=============================================================================
