------------------------------- MODULE Whb04b -------------------------------
(***************************************************************************)
(* firmware/dongle/whb04b.c: the state of whb04b_context and the operations *)
(* whb04b_process is made of.  Display data goes from USB report 06 to the  *)
(* radio; buttons and jog counts go from radio frames to USB report 04.     *)
(* Three timeouts tell it whether the host and the pendant are still there. *)
(***************************************************************************)
EXTENDS Hw3000, Timer

CONSTANTS
    Reports06,           \* display contents the host may send
    NoReport06,          \* contents before the first one
    RECV_TICKS,          \* host or pendant silent for longer: 20000 ticks
    SEARCH_TICKS,        \* time on one channel while searching: 330 ticks
    SLICE,               \* ticks per unit of report 04's timer byte: 256
    HomeChannel,         \* channel id_low stands for
    OtherChannel         \* (id_low & 0x40) + 8

ASSUME Whb04bAssumption ==
    /\ RECV_TICKS \in Nat /\ SEARCH_TICKS \in Nat /\ SLICE \in Nat \ {0}
    /\ SEARCH_TICKS < RECV_TICKS /\ RECV_TICKS < USHRT_MAX
    /\ HomeChannel \in Channels /\ OtherChannel \in Channels

VARIABLES
    rf_state,
    rf_channel,
    rf_search_timeout, rf_recv_timeout, usb_recv_timeout,
    report06_usb,        \* the report taken from USB last
    report06_rf,         \* what the pendant is to display, and the channel named in it
    report04_usb,        \* timer, button and jog_delta
    override_spindle

linkVars == <<rf_state, rf_channel, rf_search_timeout>>
displayVars == <<usb_recv_timeout, report06_usb, report06_rf>>
buttonVars == <<rf_recv_timeout, report04_usb, override_spindle>>

\* What the pendant shows: a report with one of its overrides, or 8888s
Display(report, override) == [report |-> report, spindle |-> override]
Blank == Display("8888", 0)

Timers == 0 .. USHRT_MAX \div SLICE
Buttons == {f.button : f \in OurFrames} \cup {"none"}
Jogs == {f.jog : f \in OurFrames} \cup {0}
Report04 == [timer : Timers, button : Buttons, jog : Jogs]

Whb04bTypeOK ==
    /\ rf_state \in {"SEARCHING", "COMMUNICATING"}
    /\ rf_channel \in {HomeChannel, OtherChannel}
    /\ rf_search_timeout \in timeout_t
    /\ rf_recv_timeout \in timeout_t
    /\ usb_recv_timeout \in timeout_t
    /\ report06_usb \in Reports06 \cup {NoReport06}
    /\ report06_rf.channel \in Channels /\ report06_rf.shown.spindle \in {0, 1}
    /\ report04_usb \in Report04
    /\ override_spindle \in {0, 1}

\* whb04b_setup; the context is in memory the C start-up code clears
whb04b_setup(now) ==
    /\ rf_state = "SEARCHING"
    /\ rf_channel = HomeChannel
    /\ rf_search_timeout = timeout_start(now)
    /\ rf_recv_timeout = timeout_start_max(now)
    /\ usb_recv_timeout = timeout_start_max(now)
    /\ report06_usb = NoReport06
    /\ report06_rf = [shown |-> Blank, channel |-> HomeChannel]
    /\ report04_usb = [timer |-> 0, button |-> "none", jog |-> 0]
    /\ override_spindle = 0
    /\ hw3000_channel = HomeChannel
    /\ chip = Listening(HomeChannel)
    /\ state = "RX"
    /\ rx_buffer = {}

-----------------------------------------------------------------------------
(* Display data *)

\* A report starts with the magic, so the conversion never refuses it; what
\* it returns is compared with the wrong size, but that makes no difference.
whb04b_convert_report06(report, now) ==
    /\ report06_rf' = [shown |-> Display(report, override_spindle), channel |-> rf_channel]
    /\ usb_recv_timeout' = timeout_start(now)

\* Mutated form: an old report goes on being shown.
whb04b_expire_report06_never(now) ==
    /\ usb_recv_timeout' = timeout_update(usb_recv_timeout, now)
    /\ UNCHANGED report06_rf
    /\ tx_buffer' = report06_rf

\* Mutated form: the channel is not renewed.
whb04b_expire_report06_keep_channel(now) ==
    /\ usb_recv_timeout' = timeout_update(usb_recv_timeout, now)
    /\ report06_rf' = IF timeout_elapsed(usb_recv_timeout', RECV_TICKS)
                        THEN [report06_rf EXCEPT !.shown = Blank]
                        ELSE report06_rf
    /\ tx_buffer' = report06_rf'

\* Lines 48-52: invalidate if the host has been silent, then forward.
whb04b_expire_report06(now) ==
    /\ usb_recv_timeout' = timeout_update(usb_recv_timeout, now)
    /\ report06_rf' = IF timeout_elapsed(usb_recv_timeout', RECV_TICKS)
                        THEN [shown |-> Blank, channel |-> rf_channel]
                        ELSE report06_rf
    /\ tx_buffer' = report06_rf'

-----------------------------------------------------------------------------
(* Buttons and jog counts *)

FeedKeys == {"feed+", "feed-"}
SpindleKeys == {"spindle+", "spindle-"}

\* Lines 62-64 and 193-214: the timer byte tells how long the pendant had
\* been silent; then the timeout starts again.
whb04b_convert_report04(frame, now) ==
    /\ report04_usb' = [timer |-> timeout_update(rf_recv_timeout, now).elapsed \div SLICE,
                        button |-> frame.button, jog |-> frame.jog]
    /\ override_spindle' = IF frame.button \in FeedKeys THEN 0
                           ELSE IF frame.button \in SpindleKeys THEN 1
                           ELSE override_spindle
    /\ rf_recv_timeout' = timeout_start(now)

\* Mutated form: the jog count of the last frame stays in the report.
whb04b_refresh_report04_keep_jog(now) ==
    /\ rf_recv_timeout' = timeout_update(rf_recv_timeout, now)
    /\ report04_usb' = [report04_usb EXCEPT !.timer = rf_recv_timeout'.elapsed \div SLICE]
    /\ UNCHANGED override_spindle

whb04b_refresh_report04(now) ==
    /\ rf_recv_timeout' = timeout_update(rf_recv_timeout, now)
    /\ report04_usb' = [report04_usb EXCEPT !.timer = rf_recv_timeout'.elapsed \div SLICE,
                                            !.jog = 0]
    /\ UNCHANGED override_spindle

-----------------------------------------------------------------------------
(* The search for the pendant's channel *)

\* Mutated form: the search stays on the home channel.
NextChannel_same == HomeChannel

NextChannel == IF rf_channel = HomeChannel THEN OtherChannel ELSE HomeChannel

PendantSilent(now) == timeout_elapsed(timeout_update(rf_recv_timeout, now), RECV_TICKS)

\* Lines 84-87
FindPendant(now) ==
    /\ rf_state = "SEARCHING" /\ ~PendantSilent(now)
    /\ rf_state' = "COMMUNICATING"
    /\ UNCHANGED <<rf_channel, rf_search_timeout, radioVars>>

\* Lines 90-98
HopChannel(now) ==
    LET searched == timeout_update(rf_search_timeout, now) IN
    /\ rf_state = "SEARCHING" /\ PendantSilent(now)
    /\ IF timeout_elapsed(searched, SEARCH_TICKS)
         THEN /\ rf_search_timeout' = timeout_start(now)
              /\ rf_channel' = NextChannel
              /\ hw3000_channel_change(rf_channel')
              /\ UNCHANGED rx_buffer
         ELSE /\ rf_search_timeout' = searched
              /\ UNCHANGED <<rf_channel, radioVars>>
    /\ UNCHANGED rf_state

\* Lines 101-106
LosePendant(now) ==
    /\ rf_state = "COMMUNICATING"
    /\ rf_state' = IF PendantSilent(now) THEN "SEARCHING" ELSE rf_state
    /\ UNCHANGED <<rf_channel, rf_search_timeout, radioVars>>
=============================================================================
