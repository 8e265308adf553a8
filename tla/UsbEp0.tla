------------------------------- MODULE UsbEp0 -------------------------------
(***************************************************************************)
(* Endpoint 0 of firmware/dongle/usb.c: the control transfers handled by    *)
(* usb_handle_EP0.                                                          *)
(***************************************************************************)
EXTENDS UsbSie, Report06

CONSTANTS
    Requests,            \* SETUP packets the host may send
    NumReports,          \* report identities, reused cyclically by the host
    IdleDefault,         \* idle setting at power-up: 5000 ticks in the firmware
    IDLE_UNIT            \* ticks per unit of SET_IDLE: 32 in the firmware

ASSUME NumReportsAssumption == NumReports \in Nat /\ NumReports > 0
ASSUME IdleAssumption == IdleDefault \in Nat /\ IDLE_UNIT \in Nat /\ IDLE_UNIT > 0

VARIABLES
    USB_EP0_SETUP,       \* the SETUP packet being answered
    USB_EP0_BUF,         \* endpoint 0 packet memory, shared by both directions
    UEP0_T_LEN,
    UEP0_CTRL,           \* handshakes r and t, and the transmit toggle
    USB_DEV_AD,
    txPtr, txLen,        \* rest of the descriptor being read
    USB_CONFIGURATION,
    USB_IDLE_SETTING

ep0RegVars == <<USB_EP0_BUF, UEP0_T_LEN, UEP0_CTRL, USB_DEV_AD>>
ep0FwVars == <<USB_EP0_SETUP, txPtr, txLen, USB_CONFIGURATION, USB_IDLE_SETTING>>
ep0Vars == <<report06Vars, ep0RegVars, ep0FwVars>>

-----------------------------------------------------------------------------
(* SETUP packets, with the codes of ch554.h *)
USB_DESCR_TYP_DEVICE == 1
USB_DESCR_TYP_CONFIG == 2
USB_DESCR_TYP_INTERF == 4
USB_DESCR_TYP_ENDP == 5
USB_DESCR_TYP_HID == 33
USB_DESCR_TYP_REPORT == 34

Packet(typ, dir, recip, req, valueH, valueL, length) ==
    [typ |-> typ, dir |-> dir, recip |-> recip, req |-> req,
     valueH |-> valueH, valueL |-> valueL, length |-> length]

GetDescriptor(recip, type, length) == Packet("standard", "in", recip, "GET_DESCRIPTOR", type, 0, length)
SetAddress(a) == Packet("standard", "out", "device", "SET_ADDRESS", 0, a, 0)
SetConfiguration(c) == Packet("standard", "out", "device", "SET_CONFIGURATION", 0, c, 0)
StandardIn(req, length) == Packet("standard", "in", "device", req, 0, 0, length)
StandardOut(req) == Packet("standard", "out", "device", req, 0, 0, 0)
HidOut(req, valueH) == Packet("class", "out", "interf", req, valueH, 0, 0)
SetReport(id) == Packet("class", "out", "interf", "SET_REPORT", 2, id, 8)
VendorIn(length) == Packet("vendor", "in", "device", "VENDOR", 0, 0, length)

IsSetReport(s) == s.typ = "class" /\ s.dir = "out" /\ s.recip = "interf" /\ s.req = "SET_REPORT"
IsReport06(s) == IsSetReport(s) /\ s.valueL = 6

\* The requests are well-formed, and a SET_REPORT carries data.
ASSUME RequestsAssumption ==
    \A s \in Requests :
        /\ s.typ \in {"standard", "class", "vendor"} /\ s.dir \in {"in", "out"}
        /\ s.recip \in {"device", "interf", "endp"}
        /\ s.valueH \in Nat /\ s.valueL \in Nat /\ s.length \in Nat
        /\ s.valueH < 256 /\ s.valueL < 256 /\ s.length < 65536
        /\ IsSetReport(s) => s.length # 0

NoRequest == StandardOut("NONE")

Chunk == (0 .. NumReports) \X Offsets
ReportZero == [o \in Offsets |-> <<0, o>>]     \* usb_setup fills in the magic

\* Contents of the packet memory: a SETUP packet, a chunk written by the host,
\* or descriptor bytes <<request answered, first byte>>
OutPacket(id, chunk) == [id |-> id, chunk |-> chunk]
InPacket(s, from) == [answers |-> s, from |-> from]

Ctrl0(r, t, tog) == [r |-> r, t |-> t, ttog |-> tog]
Nak0 == Ctrl0("NAK", "NAK", 0)

Minimum(a, b) == IF a < b THEN a ELSE b

\* The descriptor a request selects: its size, or 0 if there is none
DescLen(s) ==
    CASE s.recip = "device" /\ s.valueH = USB_DESCR_TYP_DEVICE -> 18
      [] s.recip = "device" /\ s.valueH = USB_DESCR_TYP_CONFIG -> 34
      [] s.recip = "device" /\ s.valueH = USB_DESCR_TYP_INTERF -> 9
      [] s.recip = "device" /\ s.valueH = USB_DESCR_TYP_ENDP -> 7
      [] s.recip = "interf" /\ s.valueH = USB_DESCR_TYP_HID -> 9
      [] s.recip = "interf" /\ s.valueH = USB_DESCR_TYP_REPORT -> 46
      [] OTHER -> 0

AnyRequest == Requests \cup {NoRequest}
InPackets == [answers : AnyRequest, from : Nat]
OutPackets == [id : {s.valueL : s \in Requests}, chunk : Chunk]

Ep0TypeOK ==
    /\ USB_EP0_SETUP \in AnyRequest
    /\ USB_EP0_BUF \in AnyRequest \cup InPackets \cup OutPackets
    /\ UEP0_T_LEN \in 0 .. 8
    /\ UEP0_CTRL \in [r : {"ACK", "NAK", "STALL"}, t : {"ACK", "NAK", "STALL"}, ttog : {0, 1}]
    /\ USB_DEV_AD \in Nat
    /\ txPtr \in InPackets
    /\ txLen \in 0 .. 255
    /\ USB_CONFIGURATION \in {0, 1}
    /\ USB_IDLE_SETTING \in Nat
    /\ USB_HID_REPORT06 \in [Offsets -> Chunk]
    /\ USB_HID_REPORT06_OFFSET \in Offsets
    /\ USB_HID_REPORT06_READY \in {0, 1}

\* After usb_setup and usb_reset
Ep0Init ==
    /\ USB_EP0_SETUP = NoRequest
    /\ USB_EP0_BUF = NoRequest
    /\ UEP0_T_LEN = 0
    /\ UEP0_CTRL = Nak0
    /\ USB_DEV_AD = 0
    /\ txPtr = InPacket(NoRequest, 0)
    /\ txLen = 0
    /\ USB_CONFIGURATION = 0
    /\ USB_IDLE_SETTING = IdleDefault
    /\ USB_HID_REPORT06 = ReportZero
    /\ USB_HID_REPORT06_OFFSET = 0
    /\ USB_HID_REPORT06_READY = 0

-----------------------------------------------------------------------------
(* usb_handle_EP0: SETUP.  Line 271 of the interrupt handler has set the       *)
(* control register to Nak0 before; a case that does not touch it leaves that. *)
Answer(len, r, t) == UEP0_T_LEN' = len /\ UEP0_CTRL' = Ctrl0(r, t, 1)
NoData == UNCHANGED <<txPtr, txLen, USB_EP0_BUF>>

\* Mutated form: the transfer is not limited to the length the host asked for.
SetupGetDescriptor_unlimited(s) ==
    LET n == DescLen(s) IN
    /\ s.req = "GET_DESCRIPTOR" /\ s.valueL = 0 /\ n > 0
    /\ USB_EP0_BUF' = InPacket(s, 0)
    /\ txPtr' = InPacket(s, Minimum(n, 8))
    /\ txLen' = n - Minimum(n, 8)
    /\ Answer(Minimum(n, 8), "ACK", "ACK")
    /\ UNCHANGED <<USB_CONFIGURATION, USB_IDLE_SETTING>>

SetupGetDescriptor(s) ==
    LET n == Minimum(DescLen(s), s.length % 256)
        cur == Minimum(n, 8)
    IN
    /\ s.req = "GET_DESCRIPTOR" /\ s.valueL = 0 /\ DescLen(s) > 0
    /\ USB_EP0_BUF' = InPacket(s, 0)
    /\ txPtr' = InPacket(s, cur)
    /\ txLen' = n - cur
    /\ Answer(cur, "ACK", "ACK")
    /\ UNCHANGED <<USB_CONFIGURATION, USB_IDLE_SETTING>>

SetupNoDescriptor(s) ==
    /\ s.req = "GET_DESCRIPTOR" /\ (s.valueL # 0 \/ DescLen(s) = 0)
    /\ Answer(UEP0_T_LEN, "ACK", "STALL")
    /\ NoData
    /\ UNCHANGED <<USB_CONFIGURATION, USB_IDLE_SETTING>>

SetupGetValue(s) ==
    /\ s.req \in {"GET_STATUS", "GET_CONFIGURATION"}
    /\ USB_EP0_BUF' = InPacket(s, 0)
    /\ Answer(IF s.req = "GET_STATUS" THEN 2 ELSE 1, "ACK", "ACK")
    /\ UNCHANGED <<txPtr, txLen, USB_CONFIGURATION, USB_IDLE_SETTING>>

\* Mutated form: the length register is left as the last transfer had it.
SetupSetAddress_length(s) ==
    /\ s.req = "SET_ADDRESS"
    /\ Answer(UEP0_T_LEN, "ACK", "ACK")
    /\ NoData
    /\ UNCHANGED <<USB_CONFIGURATION, USB_IDLE_SETTING>>

SetupSetAddress(s) ==
    /\ s.req = "SET_ADDRESS"
    /\ Answer(0, "ACK", "ACK")
    /\ NoData
    /\ UNCHANGED <<USB_CONFIGURATION, USB_IDLE_SETTING>>

SetupSetConfiguration(s) ==
    /\ s.req = "SET_CONFIGURATION"
    /\ IF s.valueL \in {0, 1}
         THEN USB_CONFIGURATION' = s.valueL /\ Answer(0, "ACK", "ACK")
         ELSE UNCHANGED USB_CONFIGURATION /\ Answer(0, "ACK", "STALL")
    /\ NoData
    /\ UNCHANGED USB_IDLE_SETTING

Unsupported == {"CLEAR_FEATURE", "SET_FEATURE", "SET_INTERFACE", "GET_INTERFACE", "SYNCH_FRAME"}

SetupUnsupported(s) ==
    /\ s.req \in Unsupported
    /\ Answer(0, "ACK", "STALL")
    /\ NoData
    /\ UNCHANGED <<USB_CONFIGURATION, USB_IDLE_SETTING>>

Supported == {"GET_STATUS", "GET_DESCRIPTOR", "SET_ADDRESS", "GET_CONFIGURATION", "SET_CONFIGURATION"}

\* The default case: IN requests are stalled, OUT requests are left at NAK
SetupUnknown(s) ==
    /\ s.req \notin Supported \cup Unsupported
    /\ IF s.dir = "in"
         THEN UEP0_CTRL' = Ctrl0("ACK", "STALL", 1)
         ELSE UEP0_CTRL' = Nak0
    /\ NoData
    /\ UNCHANGED <<UEP0_T_LEN, USB_CONFIGURATION, USB_IDLE_SETTING>>

SetupStandard(s) ==
    /\ s.typ = "standard"
    /\ \/ SetupGetDescriptor(s)
       \/ SetupNoDescriptor(s)
       \/ SetupGetValue(s)
       \/ SetupSetAddress(s)
       \/ SetupSetConfiguration(s)
       \/ SetupUnsupported(s)
       \/ SetupUnknown(s)

HidRequest(s) == s.typ = "class" /\ s.dir = "out" /\ s.recip = "interf"

SetupSetIdle(s) ==
    /\ HidRequest(s) /\ s.req = "SET_IDLE"
    /\ USB_IDLE_SETTING' = s.valueH * IDLE_UNIT
    /\ UEP0_T_LEN' = 0
    /\ UEP0_CTRL' = Ctrl0("NAK", "ACK", 1)
    /\ NoData
    /\ UNCHANGED USB_CONFIGURATION

SetupSetReport(s) ==
    /\ HidRequest(s) /\ s.req = "SET_REPORT"
    /\ Answer(0, "ACK", "ACK")
    /\ NoData
    /\ UNCHANGED <<USB_CONFIGURATION, USB_IDLE_SETTING>>

\* No else after the two HID requests: neither register is written
SetupOtherHid(s) ==
    /\ HidRequest(s) /\ s.req \notin {"SET_IDLE", "SET_REPORT"}
    /\ UEP0_CTRL' = Nak0
    /\ NoData
    /\ UNCHANGED <<UEP0_T_LEN, USB_CONFIGURATION, USB_IDLE_SETTING>>

SetupNonStandard(s) ==
    /\ s.typ # "standard" /\ ~HidRequest(s)
    /\ UEP0_CTRL' = Ctrl0("STALL", "STALL", 1)
    /\ NoData
    /\ UNCHANGED <<UEP0_T_LEN, USB_CONFIGURATION, USB_IDLE_SETTING>>

SetupToken ==
    /\ USB_EP0_SETUP' = USB_EP0_BUF
    /\ \/ SetupStandard(USB_EP0_BUF)
       \/ SetupSetIdle(USB_EP0_BUF)
       \/ SetupSetReport(USB_EP0_BUF)
       \/ SetupOtherHid(USB_EP0_BUF)
       \/ SetupNonStandard(USB_EP0_BUF)
    /\ UNCHANGED <<report06Vars, USB_DEV_AD, running>>

-----------------------------------------------------------------------------
(* usb_handle_EP0: IN, after a packet has been collected by the host *)

\* Mutated form: the descriptor pointer stays where it is.
InDescriptor_stuck ==
    LET cur == Minimum(txLen, 8) IN
    /\ USB_EP0_SETUP.typ = "standard" /\ USB_EP0_SETUP.req = "GET_DESCRIPTOR"
    /\ USB_EP0_BUF' = txPtr
    /\ txLen' = txLen - cur
    /\ UEP0_T_LEN' = cur
    /\ UEP0_CTRL' = [UEP0_CTRL EXCEPT !.ttog = 1 - @]
    /\ UNCHANGED <<txPtr, USB_DEV_AD>>

InDescriptor ==
    LET cur == Minimum(txLen, 8) IN
    /\ USB_EP0_SETUP.typ = "standard" /\ USB_EP0_SETUP.req = "GET_DESCRIPTOR"
    /\ USB_EP0_BUF' = txPtr
    /\ txPtr' = [txPtr EXCEPT !.from = @ + cur]
    /\ txLen' = txLen - cur
    /\ UEP0_T_LEN' = cur
    /\ UEP0_CTRL' = [UEP0_CTRL EXCEPT !.ttog = 1 - @]
    /\ UNCHANGED USB_DEV_AD

\* Mutated form: the new address is never used.
InOther_no_address ==
    /\ ~(USB_EP0_SETUP.typ = "standard" /\ USB_EP0_SETUP.req = "GET_DESCRIPTOR")
    /\ UEP0_T_LEN' = 0
    /\ UEP0_CTRL' = Ctrl0("ACK", "NAK", 0)
    /\ NoData
    /\ UNCHANGED USB_DEV_AD

\* Mutated form: the status stage of a read is refused.
InOther_no_status ==
    /\ ~(USB_EP0_SETUP.typ = "standard" /\ USB_EP0_SETUP.req = "GET_DESCRIPTOR")
    /\ USB_DEV_AD' = IF USB_EP0_SETUP.typ = "standard" /\ USB_EP0_SETUP.req = "SET_ADDRESS"
                       THEN USB_EP0_SETUP.valueL ELSE USB_DEV_AD
    /\ UEP0_T_LEN' = 0
    /\ UEP0_CTRL' = Nak0
    /\ NoData

\* The new address is used only once the status stage is over
InOther ==
    /\ ~(USB_EP0_SETUP.typ = "standard" /\ USB_EP0_SETUP.req = "GET_DESCRIPTOR")
    /\ USB_DEV_AD' = IF USB_EP0_SETUP.typ = "standard" /\ USB_EP0_SETUP.req = "SET_ADDRESS"
                       THEN USB_EP0_SETUP.valueL ELSE USB_DEV_AD
    /\ UEP0_T_LEN' = 0
    /\ UEP0_CTRL' = Ctrl0("ACK", "NAK", 0)
    /\ NoData

InToken ==
    /\ InDescriptor \/ InOther
    /\ UNCHANGED <<USB_EP0_SETUP, USB_CONFIGURATION, USB_IDLE_SETTING, report06Vars, running>>

-----------------------------------------------------------------------------
(* usb_handle_EP0: OUT *)

OutSetReport ==
    /\ IsSetReport(USB_EP0_SETUP)
    /\ \/ USB_EP0_BUF.id = 6 /\ OutReport06(USB_EP0_BUF.chunk)
       \/ USB_EP0_BUF.id # 6 /\ UNCHANGED report06Vars
    /\ running' = (USB_EP0_BUF.id # 255)      \* 0xff: reset_to_bootloader
    /\ UEP0_T_LEN' = 0
    /\ UEP0_CTRL' = Ctrl0("NAK", "ACK", 1)

OutToken ==
    /\ \/ OutSetReport
       \/ ~IsSetReport(USB_EP0_SETUP) /\ UNCHANGED <<report06Vars, running, UEP0_T_LEN, UEP0_CTRL>>
    /\ UNCHANGED <<ep0FwVars, USB_EP0_BUF, USB_DEV_AD>>

usb_handle_EP0 ==
    \/ USB_INT_ST[1] = "SETUP" /\ SetupToken
    \/ USB_INT_ST[1] = "IN" /\ InToken
    \/ USB_INT_ST[1] = "OUT" /\ OutToken

\* The endpoint 0 part of a bus reset (usb.c:305-310); the report being
\* assembled, the configuration and the idle setting survive it.
Ep0BusReset ==
    /\ USB_DEV_AD' = 0
    /\ UEP0_T_LEN' = 0
    /\ UEP0_CTRL' = Nak0
    /\ UNCHANGED <<report06Vars, ep0FwVars, USB_EP0_BUF>>
=============================================================================
