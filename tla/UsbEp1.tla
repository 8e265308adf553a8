------------------------------- MODULE UsbEp1 -------------------------------
(***************************************************************************)
(* Endpoint 1 of firmware/dongle/usb.c: the interrupt IN endpoint that      *)
(* carries report 04 (buttons, wheel, jog) to the host.  The main loop arms *)
(* it in usb_process, usb_handle_EP1 disarms it after the host has          *)
(* collected the packet.  A report is copied in two halves so that a torn   *)
(* copy can be seen.                                                        *)
(***************************************************************************)
EXTENDS UsbSie

CONSTANTS
    Report04s,           \* contents of report 04
    NoReport04           \* the all-zero report of usb_setup

ASSUME Report04Assumption == NoReport04 \in Report04s

VARIABLES
    UEP1_T_LEN,
    UEP1_CTRL,           \* transmit handshake t and toggle ttog
    USB_EP1_BUF,         \* the two halves of the packet
    USB_HID_REPORT04,
    USB_SEND_EP1

VARIABLES
    hostTog1,            \* toggle the host expects on endpoint 1
    view,                \* last packet the host accepted: length and halves
    fate,                \* history: what became of the packet armed last
    changed,             \* history: report 04 has changed since it was armed last
    repeats              \* history: unchanged reports armed while idle is off

ep1RegVars == <<UEP1_T_LEN, UEP1_CTRL, USB_EP1_BUF>>
ep1FwVars == <<USB_HID_REPORT04, USB_SEND_EP1>>
host1Vars == <<hostTog1, view, fate>>
ep1Vars == <<ep1RegVars, ep1FwVars, host1Vars, changed, repeats>>

Half == {1, 2}
Ep1Packet == [len : {0, 8}, data : [Half -> Report04s]]
Whole(r) == [h \in Half |-> r]
Nak1 == [t |-> "NAK", ttog |-> 0]

Ep1TypeOK ==
    /\ UEP1_T_LEN \in {0, 8}
    /\ UEP1_CTRL \in [t : {"NAK", "ACK"}, ttog : {0, 1}]
    /\ USB_EP1_BUF \in [Half -> Report04s]
    /\ USB_HID_REPORT04 \in Report04s
    /\ USB_SEND_EP1 \in {0, 1}
    /\ hostTog1 \in {0, 1}
    /\ view \in Ep1Packet
    /\ fate \in {"none", "armed", "taken", "duplicated", "overwritten"}
    /\ changed \in BOOLEAN
    /\ repeats \in 0 .. 2

Ep1Init ==
    /\ UEP1_T_LEN = 0
    /\ UEP1_CTRL = Nak1
    /\ USB_EP1_BUF = Whole(NoReport04)
    /\ USB_HID_REPORT04 = NoReport04
    /\ USB_SEND_EP1 = 0
    /\ hostTog1 = 0
    /\ view = [len |-> 8, data |-> Whole(NoReport04)]
    /\ fate = "none"
    /\ changed = FALSE
    /\ repeats = 0

\* Mutated form: the endpoint is disarmed but its toggle stays.
usb_handle_EP1_toggle ==
    /\ UEP1_T_LEN' = 0
    /\ UEP1_CTRL' = [UEP1_CTRL EXCEPT !.t = "NAK"]
    /\ UNCHANGED <<USB_EP1_BUF, ep1FwVars, host1Vars, changed, repeats>>

\* Mutated form: the length, which tells usb_process the packet is gone, stays.
usb_handle_EP1_length ==
    /\ UEP1_CTRL' = [t |-> "NAK", ttog |-> 1 - UEP1_CTRL.ttog]
    /\ UNCHANGED <<UEP1_T_LEN, USB_EP1_BUF, ep1FwVars, host1Vars, changed, repeats>>

\* Called with an IN token, the only one endpoint 1 generates
usb_handle_EP1 ==
    /\ UEP1_T_LEN' = 0
    /\ UEP1_CTRL' = [t |-> "NAK", ttog |-> 1 - UEP1_CTRL.ttog]
    /\ UNCHANGED <<USB_EP1_BUF, ep1FwVars, host1Vars, changed, repeats>>

\* The endpoint 1 part of a bus reset (usb.c:311-313): an armed packet is gone
Ep1BusReset ==
    /\ UEP1_T_LEN' = 0
    /\ UEP1_CTRL' = Nak1
    /\ fate' = "none"
    /\ UNCHANGED <<USB_EP1_BUF, ep1FwVars, hostTog1, view, changed, repeats>>

\* Mutated form: a change of the report does not ask for a transfer.
usb_set_report04_silent(r) ==
    /\ USB_HID_REPORT04' = r
    /\ changed' = (changed \/ r # USB_HID_REPORT04)
    /\ UNCHANGED <<ep1RegVars, USB_SEND_EP1, host1Vars, repeats>>

usb_set_report04(r) ==
    /\ USB_HID_REPORT04' = r
    /\ USB_SEND_EP1' = IF r # USB_HID_REPORT04 THEN 1 ELSE USB_SEND_EP1
    /\ changed' = (changed \/ r # USB_HID_REPORT04)
    /\ UNCHANGED <<ep1RegVars, host1Vars, repeats>>

\* Lines 205 and 207
Ep1MaySend == USB_SEND_EP1 = 1 /\ UEP1_T_LEN = 0

\* memcpyxx into the packet memory, one half at a time
CopyReport04(h) ==
    /\ USB_EP1_BUF' = [USB_EP1_BUF EXCEPT ![h] = USB_HID_REPORT04]
    /\ UNCHANGED <<UEP1_T_LEN, UEP1_CTRL, USB_HID_REPORT04, host1Vars, changed, repeats>>

SetLength ==
    /\ UEP1_T_LEN' = 8
    /\ UNCHANGED <<UEP1_CTRL, USB_EP1_BUF, ep1FwVars, host1Vars, changed, repeats>>

\* Line 216: from here on the SIE may send the packet.  idle is the idle
\* setting in force.
Arm(idle) ==
    /\ UEP1_CTRL' = [UEP1_CTRL EXCEPT !.t = "ACK"]
    /\ fate' = IF fate = "armed" THEN "overwritten" ELSE "armed"
    /\ changed' = FALSE
    /\ repeats' = IF idle = 0 /\ ~changed /\ repeats < 2 THEN repeats + 1 ELSE repeats
    /\ UNCHANGED <<UEP1_T_LEN, USB_EP1_BUF, ep1FwVars, hostTog1, view>>

-----------------------------------------------------------------------------
(* The host's side.  It polls the endpoint; a packet with the toggle already *)
(* seen is acknowledged and thrown away.                                     *)
Accept ==
    /\ hostTog1' = 1 - hostTog1
    /\ view' = [len |-> UEP1_T_LEN, data |-> USB_EP1_BUF]
    /\ fate' = IF fate = "armed" THEN "taken" ELSE "duplicated"

HostPollsEp1(lost) ==
    /\ SieReady /\ UEP1_CTRL.t = "ACK"
    /\ Fault(lost)
    /\ IF UEP1_CTRL.ttog = hostTog1 THEN Accept ELSE UNCHANGED host1Vars
    /\ Transaction("IN", 1, ~lost)
    /\ UNCHANGED <<ep1RegVars, ep1FwVars, changed, repeats>>
=============================================================================
