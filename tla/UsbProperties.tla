---------------------------- MODULE UsbProperties ----------------------------
(***************************************************************************)
(* What usb.c must guarantee to the rest of the firmware and to the host.   *)
(***************************************************************************)
EXTENDS Usb

-----------------------------------------------------------------------------
(* Report 06, host to main loop *)

WholeReport(r) == \A o \in Offsets : r[o] = <<r[0][1], o>>

Mailbox == INSTANCE ReportMailbox WITH
    Report <- [Offsets -> Chunk],
    Opening <- {r \in [Offsets -> Chunk] : HasMagic(r[0])},
    slot <- IF USB_HID_REPORT06_READY = 1 THEN {USB_HID_REPORT06} ELSE {},
    out <- taken

\* The handler's assembly and the masked copy of usb_get_report06
\* (usb.c:222-250, 495-516) implement the mailbox: no report is handed out
\* twice, torn, or after it was withdrawn.
ImplementsMailbox == Mailbox!Spec

\* A report can only be marked ready between two assemblies, and then it
\* starts with the magic (usb.c:499-513).
ReadyIsOpening ==
    USB_HID_REPORT06_READY = 1 => USB_HID_REPORT06_OFFSET = 0 /\ HasMagic(USB_HID_REPORT06[0])

\* The assembly (usb.c:499-514) counts bytes and never looks at the transfers
\* they come in, so a disturbed transfer puts it out of step.  One undisturbed
\* report brings it back: from then on every report published is one report
\* of the host.
SelfStabilising == sync = "ok" /\ USB_HID_REPORT06_READY = 1 => WholeReport(USB_HID_REPORT06)

\* In step, the assembly expects exactly the chunk the host sends next
\* (usb.c:507-512).
InStep ==
    sync = "ok" /\ SieReady /\ stage \in {"idle", "out"} => USB_HID_REPORT06_OFFSET = part

\* An unread report does not stay: the loop takes it (usb.c:235-246), unless the
\* host overtakes it.
ReportTaken == USB_HID_REPORT06_READY = 1 /\ running ~> USB_HID_REPORT06_READY = 0 \/ ~running


-----------------------------------------------------------------------------
(* Report 04, main loop to host *)

\* Every packet the host accepts is 8 bytes of one report, never a mixture or
\* an empty packet (usb.c:203-219 against usb_handle_EP1 and bus resets).
Ep1Intact == view.len = 8 /\ view.data[1] = view.data[2]

Pipe == INSTANCE ReportPipe WITH
    Report <- Report04s,
    report <- USB_HID_REPORT04,
    wanted <- USB_SEND_EP1 = 1 \/ pc \in {"length", "arm"},
    busy <- UEP1_T_LEN # 0 /\ pc # "arm",
    packet <- IF fate = "armed" THEN {USB_EP1_BUF[1]} ELSE {},
    view <- view.data[2]

\* Arming, the transmission, the handler and bus resets together
\* (usb.c:189-220, 252-264, 311-313, 530-538) implement a pipe that loses a packet
\* to a bus reset only and never sends one twice.
ImplementsPipe == Pipe!Spec

\* A packet is neither delivered twice nor replaced before the host has it,
\* even when its acknowledge is lost (usb.c:207, 530-538); only a bus reset
\* takes it away.
Ep1Once == fate \notin {"duplicated", "overwritten"}

\* Once the host has switched periodic reports off, at most one unchanged
\* report still follows (usb.c:197-201, 445-447): one the loop had already
\* decided on while it read the setting.
IdleOffSilences == repeats <= 1

\* A changed report is not forgotten while its predecessor is on its way: as
\* long as the host has an older one, a newer one is requested, being prepared
\* or armed (usb.c:205-217, 258-261).  Only a bus reset forgets (fate "none").
NeverForgotten ==
    view.data # Whole(USB_HID_REPORT04) /\ fate # "none" =>
        USB_SEND_EP1 = 1 \/ fate = "armed" \/ pc \in {"length", "arm"}

\* If report 04 stops changing, the host ends up with it, even if a bus reset
\* has discarded an armed packet: the periodic reports make up for it
\* (usb.c:197-217).
Ep1Converges ==
    \A r \in Report04s :
        <>[](USB_HID_REPORT04 = r /\ configured) /\ <>[](USB_IDLE_SETTING # 0)
            => <>[](view.data = Whole(r))

\* With periodic reports on, the endpoint is armed again and again
\* (usb.c:197-201).
IdleRepeats == <>[](USB_IDLE_SETTING # 0 /\ configured) => []<>(pc = "arm")

-----------------------------------------------------------------------------
(* Control transfers *)

\* A descriptor is read from its first byte on without a gap or a repetition
\* (usb.c:379-396, 471-479), whatever transfer was cut off before it and
\* whichever acknowledge is lost.
DescriptorInOrder ==
    [][received' > received /\ request.req = "GET_DESCRIPTOR"
        => USB_EP0_BUF = InPacket(request, received)]_vars

\* The host gets the whole descriptor, or as much of it as it asked for
\* (usb.c:381-395), when it asks for less than 256 bytes.
DescriptorComplete ==
    stage = "status_out" /\ request.req = "GET_DESCRIPTOR" /\ request.length < 256
        => received = Minimum(DescLen(request), request.length)

\* The address changes when the host changes it: after the status stage of
\* SET_ADDRESS, and not if that was cut off (usb.c:402-405, 480-482).  There is
\* one exception: if the host's acknowledge of the status packet is lost, no
\* interrupt follows and the device stays at address 0 until the bus is reset.
AddressAgrees == SieReady => USB_DEV_AD = hostAddr \/ (unconfirmed /\ USB_DEV_AD = 0)

\* What the host takes for the status stage of a transfer is an empty packet
\* with toggle 1, never data left over from another (usb.c:402-458, 523-524).
StatusIsEmpty ==
    stage = "status_in" /\ SieReady /\ UEP0_CTRL.t = "ACK" => UEP0_T_LEN = 0 /\ UEP0_CTRL.ttog = 1

IsUnknownOut(s) == s.typ = "standard" /\ s.dir = "out" /\ s.req \notin Supported \cup Unsupported
IsOtherHid(s) == HidRequest(s) /\ s.req \notin {"SET_IDLE", "SET_REPORT"}

\* Every transfer goes forward or is stalled at once; the host is left to run
\* into its timeout only by the two kinds of request usb.c leaves unanswered
\* (437-438, 445-458) and by a SET_REPORT whose data it has to repeat.
NeverLeftWaiting ==
    stage # "idle" /\ SieReady /\ Handshake = "NAK" =>
        \/ IsUnknownOut(request) \/ IsOtherHid(request)
        \/ IsSetReport(request) /\ stage = "out" /\ faults < MaxFaults
=============================================================================
