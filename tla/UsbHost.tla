------------------------------- MODULE UsbHost -------------------------------
(***************************************************************************)
(* The host's side of endpoint 0: control transfers run stage by stage on   *)
(* the bus, the SIE answering with the handshake in UEP0_CTRL.  Outside the *)
(* repository's own code, modelled from what usb.c expects of it.           *)
(***************************************************************************)
EXTENDS UsbEp0

\* The host uses the requests as their standards define them (USB 2.0 chapter
\* 9, HID 1.11 section 7.2); what a device does otherwise is unspecified.
ASSUME WellFormedAssumption ==
    \A s \in Requests :
        /\ s.typ = "standard" =>
             /\ s.req = "SET_ADDRESS" => s.length = 0
             /\ s.req \in {"GET_DESCRIPTOR", "GET_STATUS", "GET_CONFIGURATION"} => s.dir = "in"
             /\ s.req \in {"GET_STATUS", "GET_CONFIGURATION"} => s.length # 0
        /\ HidRequest(s) /\ s.req = "SET_IDLE" => s.length = 0

VARIABLES
    stage,               \* where the host is in its control transfer
    request,             \* the SETUP packet of that transfer
    received,            \* data bytes the host has received in it
    hostTog0,            \* data toggle the host expects next
    hostAddr,            \* address the host uses for the device
    unconfirmed,         \* history: the device never saw the end of SET_ADDRESS
    configured,          \* the host has selected configuration 1
    rep, part,           \* report and chunk offset the host sends next
    sync                 \* history: report 06 chunks lost, duplicated or in step

reportSourceVars == <<rep, part, sync>>
host0Vars ==
    <<stage, request, received, hostTog0, hostAddr, unconfirmed, configured, reportSourceVars>>

Stage == {"idle", "in", "out", "status_in", "status_out"}

Host0TypeOK ==
    /\ stage \in Stage
    /\ request \in AnyRequest
    /\ received \in Nat
    /\ hostTog0 \in {0, 1}
    /\ hostAddr \in Nat
    /\ unconfirmed \in BOOLEAN
    /\ configured \in BOOLEAN
    /\ rep \in 1 .. NumReports
    /\ part \in Offsets
    /\ sync \in {"ok", "lost", "catching"}

Host0Init ==
    /\ stage = "idle"
    /\ request = NoRequest
    /\ received = 0
    /\ hostTog0 = 1
    /\ hostAddr = 0
    /\ unconfirmed = FALSE
    /\ configured = FALSE
    /\ rep = 1
    /\ part = 0
    /\ sync = "ok"

HostMaySend(s) ==
    /\ s.typ = "class" => configured
    /\ s.req = "SET_CONFIGURATION" => ~configured
    /\ s.req = "SET_ADDRESS" => hostAddr = 0

FirstStage(s) == IF s.length = 0 THEN "status_in" ELSE s.dir

HostSetup(s) ==
    /\ stage = "idle" /\ SieReady /\ USB_DEV_AD = hostAddr
    /\ HostMaySend(s)
    /\ request' = s
    /\ stage' = FirstStage(s)
    /\ received' = 0
    /\ hostTog0' = 1
    /\ sync' = IF IsReport06(s) /\ part = 0 /\ sync = "lost" THEN "catching" ELSE sync
    /\ USB_EP0_BUF' = s
    /\ Transaction("SETUP", 0, TRUE)
    /\ UNCHANGED <<hostAddr, unconfirmed, configured, rep, part, faults>>
    /\ UNCHANGED <<report06Vars, ep0FwVars, UEP0_T_LEN, UEP0_CTRL, USB_DEV_AD>>

\* A packet with the toggle already seen is acknowledged and thrown away.
HostIn(lost) ==
    LET fresh == UEP0_CTRL.ttog = hostTog0
        total == received + UEP0_T_LEN
    IN
    /\ stage = "in" /\ SieReady /\ UEP0_CTRL.t = "ACK"
    /\ Fault(lost)
    /\ IF fresh
         THEN /\ received' = total
              /\ hostTog0' = 1 - hostTog0
              /\ stage' = IF UEP0_T_LEN < 8 \/ total >= request.length THEN "status_out" ELSE "in"
         ELSE UNCHANGED <<received, hostTog0, stage>>
    /\ Transaction("IN", 0, ~lost)
    /\ UNCHANGED <<request, hostAddr, unconfirmed, configured, reportSourceVars, ep0Vars>>

\* The data of a SET_REPORT.  When the acknowledge is lost the device has the
\* data but the host goes on repeating the packet.
HostOut(lost) ==
    /\ stage = "out" /\ SieReady /\ UEP0_CTRL.r = "ACK"
    /\ Fault(lost)
    /\ USB_EP0_BUF' = OutPacket(request.valueL, <<rep, part>>)
    /\ stage' = IF lost THEN "out" ELSE "status_in"
    /\ sync' = IF lost /\ IsReport06(request) THEN "lost" ELSE sync
    /\ Transaction("OUT", 0, TRUE)
    /\ UNCHANGED <<request, received, hostTog0, hostAddr, unconfirmed, configured, rep, part>>
    /\ UNCHANGED <<report06Vars, ep0FwVars, UEP0_T_LEN, UEP0_CTRL, USB_DEV_AD>>

\* The empty packet that ends a read: repeated when the acknowledge is lost
HostStatusOut(lost) ==
    /\ stage = "status_out" /\ SieReady /\ UEP0_CTRL.r = "ACK"
    /\ Fault(lost)
    /\ stage' = IF lost THEN "status_out" ELSE "idle"
    /\ Transaction("OUT", 0, TRUE)
    /\ UNCHANGED <<request, received, hostTog0, hostAddr, unconfirmed, configured>>
    /\ UNCHANGED <<reportSourceVars, ep0Vars>>

\* The next chunk to send: 0, 7, 14, then offset 0 of the next report
NextReport == IF rep = NumReports THEN 1 ELSE rep + 1

AdvanceReport ==
    /\ part' = IF part = 14 THEN 0 ELSE part + 7
    /\ rep' = IF part = 14 THEN NextReport ELSE rep
    /\ sync' = IF part = 14 /\ sync = "catching" THEN "ok" ELSE sync

\* The empty packet that ends a transfer to the device.  The host has it and is
\* done; when its acknowledge is lost the device does not get to know.
HostStatusIn(lost) ==
    /\ stage = "status_in" /\ SieReady /\ UEP0_CTRL.t = "ACK"
    /\ Fault(lost)
    /\ stage' = "idle"
    /\ IF request.req = "SET_ADDRESS"
         THEN hostAddr' = request.valueL /\ unconfirmed' = lost
         ELSE UNCHANGED <<hostAddr, unconfirmed>>
    /\ configured' = IF request.req = "SET_CONFIGURATION" THEN request.valueL = 1 ELSE configured
    /\ IF IsReport06(request) THEN AdvanceReport ELSE UNCHANGED reportSourceVars
    /\ Transaction("IN", 0, ~lost)
    /\ UNCHANGED <<request, received, hostTog0, ep0Vars>>

\* The transfer is over without success; a report chunk may or may not have
\* arrived, and the host will send it again.
HostGivesUp ==
    /\ stage' = "idle"
    /\ sync' = IF IsReport06(request) THEN "lost" ELSE sync
    /\ UNCHANGED <<request, received, hostTog0, hostAddr, unconfirmed, configured>>
    /\ UNCHANGED <<rep, part, ep0Vars>>

Handshake == IF stage \in {"in", "status_in"} THEN UEP0_CTRL.t ELSE UEP0_CTRL.r

HostStalled ==
    /\ stage # "idle" /\ SieReady /\ Handshake = "STALL"
    /\ HostGivesUp
    /\ UNCHANGED sieVars

\* NAKed until the host's patience is over: the handler has run and nothing
\* else changes the handshake.
HostTimeout ==
    /\ stage # "idle" /\ SieReady /\ Handshake = "NAK"
    /\ HostGivesUp
    /\ UNCHANGED sieVars

\* A cable glitch, or the host program killed, in the middle of a transfer
HostAbort ==
    /\ stage # "idle" /\ faults > 0
    /\ faults' = faults - 1
    /\ HostGivesUp
    /\ UNCHANGED <<E_DIS, UIF_TRANSFER, UIF_SUSPEND, UIF_BUS_RST, USB_INT_ST, running>>

\* The host program is restarted between two chunks and starts a new report.
HostRestart ==
    /\ stage = "idle" /\ part # 0 /\ faults > 0
    /\ faults' = faults - 1
    /\ part' = 0
    /\ rep' = NextReport
    /\ sync' = "lost"
    /\ UNCHANGED <<E_DIS, UIF_TRANSFER, UIF_SUSPEND, UIF_BUS_RST, USB_INT_ST, running, ep0Vars>>
    /\ UNCHANGED <<stage, request, received, hostTog0, hostAddr, unconfirmed, configured>>

\* The host's view after it has reset the bus
Host0BusReset ==
    /\ stage' = "idle"
    /\ hostAddr' = 0
    /\ unconfirmed' = FALSE
    /\ configured' = FALSE
    /\ sync' = IF stage # "idle" /\ IsReport06(request) THEN "lost" ELSE sync
    /\ UNCHANGED <<request, received, hostTog0, rep, part>>

Host0Next ==
    \/ \E s \in Requests : HostSetup(s)
    \/ \E lost \in BOOLEAN :
         HostIn(lost) \/ HostOut(lost) \/ HostStatusOut(lost) \/ HostStatusIn(lost)
    \/ HostStalled
    \/ HostTimeout
    \/ HostAbort
    \/ HostRestart
=============================================================================
