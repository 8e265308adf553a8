---------------------------- MODULE UsbEp0Proofs ----------------------------
(*****************************************************************************)
(* Endpoint 0 of usb.c for every set of well-formed requests, every number   *)
(* of reports and every number of faults: the assembly of report 06 in the   *)
(* interrupt handler and its masked copy implement a mailbox, the assembly   *)
(* keeps step with the host and finds it again after a disturbed transfer,   *)
(* and what the handler has prepared fits the stage the host is in.          *)
(*****************************************************************************)
EXTENDS UsbProperties, TLAPS

-----------------------------------------------------------------------------
(* Report 06: the mailbox *)

Copying == {"get_copy0", "get_copy7", "get_copy14"}
SetupPending == UIF_TRANSFER /\ USB_INT_ST = <<"SETUP", 0>>
OutPending == UIF_TRANSFER /\ USB_INT_ST = <<"OUT", 0>>

Types ==
    /\ buffer \in [Offsets -> Chunk]
    /\ taken \in [Offsets -> Chunk]
    /\ USB_HID_REPORT06 \in [Offsets -> Chunk]
    /\ USB_HID_REPORT06_OFFSET \in Offsets
    /\ USB_HID_REPORT06_READY \in {0, 1}
    /\ rep \in 1 .. NumReports
    /\ part \in Offsets
    /\ sync \in {"ok", "lost", "catching"}
    /\ USB_INT_ST \in Token
    /\ UIF_TRANSFER \in BOOLEAN

\* The handler answers the request the host is making.
Linked ==
    /\ request \in AnyRequest
    /\ stage \in {"in", "status_out"} => request.dir = "in"
    /\ stage = "out" => request.dir = "out"
    /\ SetupPending => USB_EP0_BUF = request
    /\ ~SetupPending => USB_EP0_SETUP = request
    /\ OutPending /\ IsSetReport(request) =>
         \E c \in Chunk : USB_EP0_BUF = OutPacket(request.valueL, c)

\* Whatever is marked ready, or about to be, starts with the magic.
Opened ==
    /\ USB_HID_REPORT06_READY = 1 => USB_HID_REPORT06_OFFSET = 0
    /\ USB_HID_REPORT06_READY = 1 \/ USB_HID_REPORT06_OFFSET # 0 => HasMagic(USB_HID_REPORT06[0])

\* The copy in usb_get_report06 follows a report that stays put.
Copied ==
    /\ pc \in Copying => E_DIS = 1 /\ USB_HID_REPORT06_READY = 1
    /\ pc \in {"get_copy7", "get_copy14"} => buffer[0] = USB_HID_REPORT06[0]
    /\ pc = "get_copy14" => buffer[7] = USB_HID_REPORT06[7]

MailboxInv == Types /\ Linked /\ Opened /\ Copied

LEMMA InitMailboxInv == Init => MailboxInv
<1> SUFFICES ASSUME Init PROVE MailboxInv
    OBVIOUS
<1> USE DEF Init, SieInit, Ep0Init, Host0Init
<1>1. ReportZero \in [Offsets -> Chunk]
  BY NumReportsAssumption DEF ReportZero, Offsets, Chunk
<1>2. Types
  <2>1. UIF_TRANSFER \in BOOLEAN
    OBVIOUS
  <2> QED BY <1>1, <2>1, NumReportsAssumption DEF Types, Offsets, Token
<1>3. Linked
  BY DEF Linked, AnyRequest, SetupPending, OutPending
<1>4. Opened /\ Copied
  BY DEF Opened, Copied, Copying
<1> QED BY <1>2, <1>3, <1>4 DEF MailboxInv

\* A SET_REPORT goes out and carries data.
LEMMA RequestType ==
    ASSUME NEW s \in AnyRequest
    PROVE  IsSetReport(s) => s.length # 0 /\ s.dir = "out"
<1>1. CASE s \in Requests
  <2>1. s.length \in Nat /\ (IsSetReport(s) => s.length # 0)
    BY <1>1, RequestsAssumption
  <2>2. IsSetReport(s) => s.dir = "out"
    BY DEF IsSetReport
  <2> QED BY <2>1, <2>2
<1>2. CASE s = NoRequest
  BY <1>2 DEF NoRequest, StandardOut, Packet, IsSetReport
<1> QED BY <1>1, <1>2 DEF AnyRequest

\* Every request has a direction.
LEMMA DirectionType ==
    ASSUME NEW s \in AnyRequest
    PROVE  s.dir \in {"in", "out"}
<1>1. CASE s \in Requests
  BY <1>1, RequestsAssumption
<1>2. CASE s = NoRequest
  BY <1>2 DEF NoRequest, StandardOut, Packet
<1> QED BY <1>1, <1>2 DEF AnyRequest

\* One chunk stored or dropped by the handler (usb.c:499-514)
LEMMA ChunkStored ==
    ASSUME NEW c \in Chunk, OutReport06(c), Types, Opened
    PROVE  /\ USB_HID_REPORT06' \in [Offsets -> Chunk]
           /\ USB_HID_REPORT06_OFFSET' \in Offsets
           /\ USB_HID_REPORT06_READY' \in {0, 1}
           /\ Opened'
           /\ USB_HID_REPORT06_READY = 1 => USB_HID_REPORT06_READY' = 0
<1>1. CASE DropChunk(c)
  BY <1>1 DEF DropChunk, Types, Opened, Offsets
<1>2. CASE (USB_HID_REPORT06_OFFSET = 0 => HasMagic(c)) /\ StoreChunk(c)
  BY <1>2 DEF StoreChunk, Types, Opened, Offsets
<1> QED BY <1>1, <1>2 DEF OutReport06

\* The endpoint 0 handler either leaves report 06 alone or does one chunk.
LEMMA Ep0Cases ==
    ASSUME MailboxInv, IsrEp0
    PROVE  \/ /\ UNCHANGED report06Vars
              /\ ~(OutPending /\ IsReport06(request))
           \/ /\ OutPending /\ IsSetReport(request)
              /\ request.valueL = 6
              /\ \E c \in Chunk : USB_EP0_BUF = OutPacket(6, c) /\ OutReport06(c)
<1> USE DEF IsrEp0, usb_handle_EP0
<1>1. CASE USB_INT_ST[1] = "SETUP" /\ SetupToken
  BY <1>1 DEF SetupToken, OutPending
<1>2. CASE USB_INT_ST[1] = "IN" /\ InToken
  BY <1>2 DEF InToken, OutPending
<1>3. CASE USB_INT_ST[1] = "OUT" /\ OutToken
  <2>1. SetupPending => FALSE
    BY <1>3 DEF SetupPending
  <2>2. USB_EP0_SETUP = request
    BY <2>1 DEF MailboxInv, Linked
  <2>3. CASE ~IsSetReport(USB_EP0_SETUP)
    BY <1>3, <2>2, <2>3 DEF OutToken, OutSetReport, IsReport06
  <2>4. CASE IsSetReport(USB_EP0_SETUP) /\ OutPending
    <3>1. PICK c \in Chunk : USB_EP0_BUF = OutPacket(request.valueL, c)
      BY <2>2, <2>4 DEF MailboxInv, Linked
    <3>2. USB_EP0_BUF.id = request.valueL /\ USB_EP0_BUF.chunk = c
      BY <3>1 DEF OutPacket
    <3>3. CASE request.valueL = 6
      BY <1>3, <2>2, <2>4, <3>1, <3>2, <3>3 DEF OutToken, OutSetReport
    <3>4. CASE request.valueL # 6
      BY <1>3, <2>2, <2>4, <3>1, <3>2, <3>4 DEF OutToken, OutSetReport, IsReport06
    <3> QED BY <3>3, <3>4
  <2>5. CASE IsSetReport(USB_EP0_SETUP) /\ ~OutPending
    <3>1. USB_INT_ST \in Token => FALSE
      BY <1>3, <2>5 DEF OutPending, Token
    <3> QED BY <3>1 DEF MailboxInv, Types
  <2> QED BY <2>3, <2>4, <2>5
<1> QED BY <1>1, <1>2, <1>3

-----------------------------------------------------------------------------
(* Main loop *)

\* A step of the loop outside the copy
LEMMA OtherLoopStep ==
    ASSUME MailboxInv, UNCHANGED <<ep0Vars, host0Vars, reportVars, UIF_TRANSFER, USB_INT_ST>>,
           pc' \notin Copying
    PROVE  MailboxInv'
<1> USE DEF ep0Vars, ep0RegVars, ep0FwVars, report06Vars, host0Vars, reportSourceVars, reportVars
<1>1. Types' /\ Opened'
  BY DEF MailboxInv, Types, Opened
<1>2. Linked'
  BY DEF MailboxInv, Linked, SetupPending, OutPending
<1>3. Copied'
  BY DEF Copied, Copying
<1> QED BY <1>1, <1>2, <1>3 DEF MailboxInv

\* Types and Linked see only the endpoint and the host, not the loop.
LEMMA CopyStep ==
    ASSUME MailboxInv, UNCHANGED <<ep0RegVars, ep0FwVars, host0Vars, UIF_TRANSFER, USB_INT_ST>>
    PROVE  Linked'
BY DEF MailboxInv, Linked, SetupPending, OutPending, ep0RegVars, ep0FwVars, host0Vars

LEMMA GetReadyKeeps == MailboxInv /\ GetReady => MailboxInv'
<1> SUFFICES ASSUME MailboxInv, GetReady PROVE MailboxInv'
    OBVIOUS
<1> USE DEF GetReady, SetMask, GetMask, Goto, ep0Vars, report06Vars, host0Vars, reportSourceVars, reportVars
<1>1. Types' /\ Opened'
  BY DEF MailboxInv, Types, Opened
<1>2. Linked'
  BY CopyStep
<1>3. Copied'
  BY DEF Copied, Copying
<1> QED BY <1>1, <1>2, <1>3 DEF MailboxInv

LEMMA GetCopyKeeps ==
    ASSUME MailboxInv, NEW o \in {0, 7}, NEW from, NEW to, GetCopy(o, from, to),
           <<o, from, to>> \in {<<0, "get_copy0", "get_copy7">>, <<7, "get_copy7", "get_copy14">>}
    PROVE  MailboxInv'
<1> USE DEF GetCopy, Goto, ep0Vars, report06Vars, host0Vars, reportSourceVars, sieVars
<1>1. buffer' \in [Offsets -> Chunk] /\ buffer'[o] = USB_HID_REPORT06[o]
      /\ \A x \in Offsets : x # o => buffer'[x] = buffer[x]
  BY DEF MailboxInv, Types, Offsets
<1>2. Types' /\ Opened'
  BY <1>1 DEF MailboxInv, Types, Opened
<1>3. Linked'
  BY CopyStep
<1>4. Copied'
  BY <1>1 DEF MailboxInv, Copied, Copying, Offsets
<1> QED BY <1>2, <1>3, <1>4 DEF MailboxInv

\* The report handed out is the one that was marked ready (usb.c:243-246).
LEMMA GetReturnTakes ==
    ASSUME MailboxInv, GetReturn
    PROVE  taken' = USB_HID_REPORT06 /\ USB_HID_REPORT06_READY = 1 /\ USB_HID_REPORT06_READY' = 0
<1>1. pc = "get_copy14" /\ buffer' = [buffer EXCEPT ![14] = USB_HID_REPORT06[14]]
      /\ taken' = buffer' /\ USB_HID_REPORT06_READY' = 0
  BY DEF GetReturn, Goto
<1>2. buffer[0] = USB_HID_REPORT06[0] /\ buffer[7] = USB_HID_REPORT06[7] /\ USB_HID_REPORT06_READY = 1
  BY <1>1 DEF MailboxInv, Copied, Copying
<1>3. buffer' = USB_HID_REPORT06
  BY <1>1, <1>2 DEF MailboxInv, Types, Offsets
<1> QED BY <1>1, <1>2, <1>3

LEMMA GetReturnKeeps == MailboxInv /\ GetReturn => MailboxInv'
<1> SUFFICES ASSUME MailboxInv, GetReturn PROVE MailboxInv'
    OBVIOUS
<1>1. taken' = USB_HID_REPORT06 /\ buffer' = USB_HID_REPORT06 /\ USB_HID_REPORT06_READY' = 0
  BY GetReturnTakes DEF GetReturn
<1> USE DEF GetReturn, SetMask, Goto, ep0RegVars, ep0FwVars, host0Vars, reportSourceVars
<1>2. Types' /\ Opened'
  BY <1>1 DEF MailboxInv, Types, Opened
<1>3. Linked'
  BY CopyStep
<1>4. Copied'
  BY DEF Copied, Copying
<1> QED BY <1>2, <1>3, <1>4 DEF MailboxInv

\* The main loop touches nothing of endpoint 0 and the host's transfers but the
\* mark of an unread report.
LEMMA LoopFrame ==
    ASSUME MainLoop
    PROVE  /\ UNCHANGED <<host0Vars, ep0RegVars, ep0FwVars, running, faults>>
           /\ UNCHANGED <<UIF_TRANSFER, UIF_SUSPEND, UIF_BUS_RST, USB_INT_ST>>
           /\ UNCHANGED <<USB_HID_REPORT06, USB_HID_REPORT06_OFFSET>>
           /\ USB_HID_REPORT06_READY' \in {0, USB_HID_REPORT06_READY}
<1> USE DEF sieVars, ep0Vars, report06Vars, SetMask
<1>1. CASE GetStart \/ GetTest \/ GetNothing \/ GetReady \/ SetReport04 \/ ProcessStart
  BY <1>1 DEF GetStart, GetTest, GetNothing, GetReady, SetReport04, ProcessStart
<1>2. CASE GetCopy(0, "get_copy0", "get_copy7") \/ GetCopy(7, "get_copy7", "get_copy14")
  BY <1>2 DEF GetCopy
<1>3. CASE GetReturn
  BY <1>3 DEF GetReturn
<1>4. CASE ReadIdleLow("idle_low", "idle_high") \/ TestIdle \/ ReadIdleLow("cmp_low", "cmp_high")
           \/ CompareIdle \/ SendNot
  BY <1>4 DEF ReadIdleLow, TestIdle, CompareIdle, SendNot
<1>5. CASE Send \/ CopyFirst \/ CopySecond \/ Length \/ EnableTransmitter
  BY <1>5 DEF Send, CopyFirst, CopySecond, Length, EnableTransmitter
<1> QED BY <1>1, <1>2, <1>3, <1>4, <1>5 DEF MainLoop

LEMMA LoopKeeps == MailboxInv /\ MainLoop => MailboxInv'
<1> SUFFICES ASSUME MailboxInv, MainLoop PROVE MailboxInv'
    OBVIOUS
<1>1. CASE GetStart \/ GetTest \/ GetNothing \/ SetReport04 \/ ProcessStart
  BY <1>1, OtherLoopStep
  DEF GetStart, GetTest, GetNothing, SetReport04, ProcessStart, Goto, Copying, sieVars
<1>2. CASE GetReady
  BY <1>2, GetReadyKeeps
<1>3. CASE GetCopy(0, "get_copy0", "get_copy7") \/ GetCopy(7, "get_copy7", "get_copy14")
  BY <1>3, GetCopyKeeps
<1>4. CASE GetReturn
  BY <1>4, GetReturnKeeps
<1>5. CASE ReadIdleLow("idle_low", "idle_high") \/ TestIdle \/ ReadIdleLow("cmp_low", "cmp_high")
           \/ CompareIdle \/ SendNot
  BY <1>5, OtherLoopStep DEF ReadIdleLow, TestIdle, CompareIdle, SendNot, Goto, Copying, sieVars
<1>6. CASE Send \/ CopyFirst \/ CopySecond \/ Length \/ EnableTransmitter
  BY <1>6, OtherLoopStep
  DEF Send, CopyFirst, CopySecond, Length, EnableTransmitter, SetMask, Goto, Copying, sieVars
<1> QED BY <1>1, <1>2, <1>3, <1>4, <1>5, <1>6 DEF MainLoop

-----------------------------------------------------------------------------
(* Interrupts and bus: with interrupts enabled no copy is under way *)

LEMMA IsrKeeps == MailboxInv /\ usb_isr => MailboxInv'
<1> SUFFICES ASSUME MailboxInv, usb_isr PROVE MailboxInv'
    OBVIOUS
<1>0. pc \notin Copying
  BY DEF usb_isr, IsrEp0, IsrEp1, IsrSuspend, IsrBusReset, IsrRuns, MailboxInv, Copied
<1>1. CASE IsrEp0
  <2> USE <1>1 DEF IsrEp0, ClearTransfer, host0Vars, reportSourceVars, loopVars, reportVars
  <2>1. USB_EP0_SETUP' = request
    <3>1. CASE USB_INT_ST[1] = "SETUP" /\ SetupToken
      <4>1. SetupPending
        BY <3>1 DEF MailboxInv, Types, Token, SetupPending
      <4> QED BY <3>1, <4>1 DEF SetupToken, MailboxInv, Linked
    <3>2. CASE (USB_INT_ST[1] = "IN" /\ InToken) \/ (USB_INT_ST[1] = "OUT" /\ OutToken)
      <4>1. ~SetupPending
        BY <3>2 DEF SetupPending
      <4>2. USB_EP0_SETUP' = USB_EP0_SETUP
        BY <3>2 DEF InToken, OutToken, ep0FwVars
      <4> QED BY <4>1, <4>2 DEF MailboxInv, Linked
    <3> QED BY <3>1, <3>2 DEF usb_handle_EP0
  <2>2. Linked'
    BY <2>1 DEF MailboxInv, Linked, SetupPending, OutPending
  <2>3. UIF_TRANSFER' \in BOOLEAN
    OBVIOUS
  <2>4. Types' /\ Opened'
    <3>1. CASE UNCHANGED report06Vars
      BY <3>1, <2>3 DEF report06Vars, MailboxInv, Types, Opened
    <3>2. CASE \E c \in Chunk : OutReport06(c)
      BY <3>2, <2>3, ChunkStored DEF MailboxInv, Types
    <3> QED BY <3>1, <3>2, Ep0Cases
  <2>5. Copied'
    BY <1>0 DEF Copied, Copying
  <2> QED BY <2>2, <2>4, <2>5 DEF MailboxInv
<1>2. CASE IsrEp1 \/ IsrSuspend \/ IsrBusReset
  <2> USE <1>2 DEF IsrEp1, IsrSuspend, IsrBusReset, Ep0BusReset, ClearTransfer, ep0Vars, ep0RegVars,
                   ep0FwVars, report06Vars, host0Vars, reportSourceVars, loopVars, reportVars
  <2>1. UIF_TRANSFER' \in BOOLEAN
    BY DEF MailboxInv, Types
  <2>2. Types' /\ Opened'
    BY <2>1 DEF MailboxInv, Types, Opened
  <2>3. Copied'
    BY <1>0 DEF Copied, Copying
  <2>4. IsrEp1 => ~SetupPending /\ ~SetupPending' /\ ~OutPending'
    BY DEF SetupPending, OutPending
  <2>5. Linked'
    BY <2>4 DEF MailboxInv, Linked, SetupPending, OutPending
  <2> QED BY <2>2, <2>3, <2>5 DEF MailboxInv
<1> QED BY <1>1, <1>2 DEF usb_isr

\* The bus touches neither the assembled report nor the copy.
BusFrame == UNCHANGED <<report06Vars, reportVars, pc, E_DIS, USB_EP0_SETUP>>

LEMMA BusFrameKeeps == MailboxInv /\ BusFrame => Opened' /\ Copied'
BY DEF MailboxInv, BusFrame, Opened, Copied, report06Vars, reportVars

LEMMA HostSetupKeeps ==
    ASSUME MailboxInv, NEW s \in Requests, HostSetup(s), UNCHANGED loopVars
    PROVE  MailboxInv'
<1> USE DEF HostSetup, Transaction
<1>1. BusFrame
  BY DEF BusFrame, ep0FwVars, loopVars
<1>2. s \in AnyRequest /\ (IsSetReport(s) => s.dir = "out")
  BY RequestType DEF AnyRequest
<1>3. Types'
  BY <1>1 DEF MailboxInv, Types, BusFrame, report06Vars, reportVars, Token
<1>4. stage' = "status_in" \/ stage' = s.dir
  BY DEF FirstStage
<1>5. stage' = "in" \/ stage' = "status_out" => s.dir = "in"
  BY <1>2, <1>4, DirectionType DEF AnyRequest
<1>6. stage' = "out" => s.dir = "out"
  BY <1>2, <1>4, DirectionType DEF AnyRequest
<1>7. Linked'
  BY <1>2, <1>5, <1>6 DEF Linked, SetupPending, OutPending
<1> QED BY <1>1, <1>3, <1>7, BusFrameKeeps DEF MailboxInv

\* A stage of the host that puts no SETUP packet and no data on the bus
LEMMA StageKeeps ==
    ASSUME MailboxInv, BusFrame, UNCHANGED <<request, USB_EP0_BUF>>,
           ~SetupPending, ~SetupPending',
           OutPending' => OutPending \/ ~IsSetReport(request),
           stage' \in {"in", "status_out"} => request.dir = "in",
           stage' = "out" => request.dir = "out"
    PROVE  Linked'
BY DEF MailboxInv, BusFrame, Linked, OutPending

LEMMA HostOutKeeps ==
    ASSUME MailboxInv, NEW lost \in BOOLEAN, HostOut(lost), UNCHANGED loopVars
    PROVE  MailboxInv'
<1> USE DEF HostOut, Transaction
<1>1. BusFrame
  BY DEF BusFrame, ep0FwVars, loopVars
<1>2. <<rep, part>> \in Chunk
  BY NumReportsAssumption DEF MailboxInv, Types, Chunk
<1>3. Types'
  BY <1>1 DEF MailboxInv, Types, BusFrame, report06Vars, reportVars, Token
<1>4. ~SetupPending /\ ~SetupPending'
  BY DEF SieReady, SetupPending
<1>5. Linked'
  BY <1>1, <1>2, <1>4 DEF BusFrame, MailboxInv, Linked
<1> QED BY <1>1, <1>3, <1>5, BusFrameKeeps DEF MailboxInv

LEMMA HostInKeeps ==
    ASSUME MailboxInv, NEW lost \in BOOLEAN, HostIn(lost), UNCHANGED loopVars
    PROVE  MailboxInv'
<1> USE DEF HostIn, Transaction, ep0Vars, ep0RegVars, ep0FwVars, reportSourceVars, SieReady
<1>1. BusFrame
  BY DEF BusFrame, loopVars
<1>2. UIF_TRANSFER' \in BOOLEAN
  <2>1. CASE lost
    BY <2>1
  <2>2. CASE ~lost
    BY <2>2
  <2> QED BY <2>1, <2>2
<1>3. USB_INT_ST' \in Token
  BY DEF MailboxInv, Types, Token
<1>4. Types'
  BY <1>1, <1>2, <1>3 DEF MailboxInv, Types, BusFrame, report06Vars, reportVars
<1>5. ~SetupPending /\ ~SetupPending' /\ ~OutPending'
  <2>1. CASE lost
    BY <2>1 DEF SetupPending, OutPending
  <2>2. CASE ~lost
    BY <2>2 DEF SetupPending, OutPending
  <2> QED BY <2>1, <2>2
<1>6. stage' \in {"in", "status_out"} /\ request.dir = "in"
  BY DEF MailboxInv, Linked
<1>7. Linked'
  BY <1>1, <1>5, <1>6, StageKeeps
<1> QED BY <1>1, <1>4, <1>7, BusFrameKeeps DEF MailboxInv

LEMMA HostStatusKeeps ==
    ASSUME MailboxInv, NEW lost \in BOOLEAN, HostStatusOut(lost) \/ HostStatusIn(lost),
           UNCHANGED loopVars
    PROVE  MailboxInv'
<1> USE DEF HostStatusOut, HostStatusIn, Transaction, ep0Vars, ep0RegVars, ep0FwVars, SieReady
<1>1. BusFrame
  BY DEF BusFrame, loopVars
<1>2. rep' \in 1 .. NumReports /\ part' \in Offsets /\ sync' \in {"ok", "lost", "catching"}
  BY NumReportsAssumption
  DEF AdvanceReport, NextReport, reportSourceVars, MailboxInv, Types, Offsets
<1>3. UIF_TRANSFER' \in BOOLEAN /\ USB_INT_ST' \in Token
  BY DEF MailboxInv, Types, Token
<1>4. Types'
  BY <1>1, <1>2, <1>3 DEF MailboxInv, Types, BusFrame, report06Vars, reportVars
<1>5. ~SetupPending /\ ~SetupPending' /\ (HostStatusIn(lost) => ~OutPending')
  <2>1. ~SetupPending
    BY DEF SetupPending
  <2>2. CASE HostStatusOut(lost)
    <3>1. USB_INT_ST' = <<"OUT", 0>> /\ stage # "status_in"
      BY <2>2
    <3> QED BY <2>1, <3>1 DEF SetupPending
  <2>3. CASE HostStatusIn(lost) /\ lost
    <3>1. UIF_TRANSFER' = FALSE
      BY <2>3
    <3> QED BY <2>1, <3>1 DEF SetupPending, OutPending
  <2>4. CASE HostStatusIn(lost) /\ ~lost
    <3>1. USB_INT_ST' = <<"IN", 0>>
      BY <2>4
    <3> QED BY <2>1, <3>1 DEF SetupPending, OutPending
  <2> QED BY <2>2, <2>3, <2>4
<1>6. HostStatusOut(lost) => request.dir = "in" /\ ~IsSetReport(request)
  BY RequestType DEF MailboxInv, Linked
<1>7. stage' \in {"in", "status_out"} => HostStatusOut(lost)
  OBVIOUS
<1>8. Linked'
  BY <1>1, <1>5, <1>6, <1>7, StageKeeps
<1> QED BY <1>1, <1>4, <1>8, BusFrameKeeps DEF MailboxInv

\* The host gives a transfer up, resets or suspends the bus, or turns to
\* endpoint 1: nothing that is pending changes but a new endpoint 1 transfer.
LEMMA OtherBusKeeps ==
    ASSUME MailboxInv, BusFrame, UNCHANGED <<request, ep0RegVars>>,
           stage' = "idle" \/ stage' = stage,
           rep' \in 1 .. NumReports, part' \in Offsets, sync' \in {"ok", "lost", "catching"},
           \/ UNCHANGED <<UIF_TRANSFER, USB_INT_ST>>
           \/ ~UIF_TRANSFER /\ UIF_TRANSFER' = FALSE /\ USB_INT_ST' = USB_INT_ST
           \/ ~UIF_TRANSFER /\ UIF_TRANSFER' = TRUE /\ USB_INT_ST' = <<"IN", 1>>
    PROVE  MailboxInv'
<1> USE DEF ep0RegVars
<1>1. UIF_TRANSFER' \in BOOLEAN /\ USB_INT_ST' \in Token
  BY DEF MailboxInv, Types, Token
<1>2. Types'
  BY <1>1 DEF MailboxInv, Types, BusFrame, report06Vars, reportVars
<1>3. (SetupPending' <=> SetupPending) /\ (OutPending' <=> OutPending)
  BY DEF SetupPending, OutPending
<1>4. Linked'
  BY <1>3 DEF BusFrame, MailboxInv, Linked
<1> QED BY <1>2, <1>4, BusFrameKeeps DEF MailboxInv

LEMMA BusKeeps == MailboxInv /\ Bus => MailboxInv'
<1> SUFFICES ASSUME MailboxInv, Bus PROVE MailboxInv'
    OBVIOUS
<1>0. rep \in 1 .. NumReports /\ part \in Offsets /\ sync \in {"ok", "lost", "catching"}
  BY DEF MailboxInv, Types
<1>1. CASE Host0Next /\ UNCHANGED <<ep1Vars, loopVars>>
  <2>1. CASE \E s \in Requests : HostSetup(s)
    BY <1>1, <2>1, HostSetupKeeps
  <2>2. CASE \E lost \in BOOLEAN : HostIn(lost) \/ HostOut(lost)
    BY <1>1, <2>2, HostInKeeps, HostOutKeeps
  <2>3. CASE \E lost \in BOOLEAN : HostStatusOut(lost) \/ HostStatusIn(lost)
    BY <1>1, <2>3, HostStatusKeeps
  <2>4. CASE HostStalled \/ HostTimeout \/ HostAbort
    <3> USE <1>1, <2>4 DEF HostStalled, HostTimeout, HostAbort, HostGivesUp, sieVars, ep0Vars, ep0FwVars, loopVars
    <3>1. BusFrame
      BY DEF BusFrame
    <3>2. rep' \in 1 .. NumReports /\ part' \in Offsets /\ sync' \in {"ok", "lost", "catching"}
      BY <1>0
    <3> QED BY <3>1, <3>2, OtherBusKeeps
  <2>5. CASE HostRestart
    <3> USE <1>1, <2>5 DEF HostRestart, ep0Vars, ep0FwVars, loopVars
    <3>1. BusFrame
      BY DEF BusFrame
    <3>2. rep' \in 1 .. NumReports /\ part' \in Offsets /\ sync' \in {"ok", "lost", "catching"}
      BY <1>0, NumReportsAssumption DEF NextReport, Offsets
    <3> QED BY <3>1, <3>2, OtherBusKeeps
  <2> QED BY <1>1, <2>1, <2>2, <2>3, <2>4, <2>5 DEF Host0Next
<1>2. ASSUME NEW lost \in BOOLEAN, HostEp1(lost) PROVE MailboxInv'
  <2> USE <1>2 DEF HostEp1, HostPollsEp1, Transaction, SieReady, ep0Vars, ep0FwVars, host0Vars, reportSourceVars, loopVars
  <2>1. BusFrame
    BY DEF BusFrame
  <2>2. CASE lost
    BY <1>0, <2>1, <2>2, OtherBusKeeps
  <2>3. CASE ~lost
    BY <1>0, <2>1, <2>3, OtherBusKeeps
  <2> QED BY <2>2, <2>3
<1>3. CASE BusReset \/ Suspend
  <2> USE <1>3 DEF BusReset, Suspend, Host0BusReset, host0Vars, reportSourceVars, ep0Vars, ep0FwVars, loopVars
  <2>1. BusFrame
    BY DEF BusFrame
  <2> QED BY <1>0, <2>1, OtherBusKeeps
<1> QED BY <1>1, <1>2, <1>3 DEF Bus

LEMMA NextMailboxInv == MailboxInv /\ [Next]_vars => MailboxInv'
<1> SUFFICES ASSUME MailboxInv, [Next]_vars PROVE MailboxInv'
    OBVIOUS
<1>1. CASE MainLoop
  BY <1>1, LoopKeeps
<1>2. CASE usb_isr
  BY <1>2, IsrKeeps
<1>3. CASE Bus
  BY <1>3, BusKeeps
<1>4. CASE timer0_isr \/ UNCHANGED vars
  <2> USE <1>4 DEF timer0_isr, vars, sieVars, ep0Vars, ep0FwVars, host0Vars, reportSourceVars, loopVars
  <2>1. BusFrame
    BY DEF BusFrame
  <2>2. rep' \in 1 .. NumReports /\ part' \in Offsets /\ sync' \in {"ok", "lost", "catching"}
    BY DEF MailboxInv, Types
  <2> QED BY <2>1, <2>2, OtherBusKeeps
<1> QED BY <1>1, <1>2, <1>3, <1>4 DEF Next

\* What is being assembled, marked ready and copied stays consistent across
\* interrupts, bus resets and aborted transfers (usb.c:222-250, 495-516).
THEOREM MailboxInvariant == Spec => []MailboxInv
<1>1. Init => MailboxInv
  BY InitMailboxInv
<1>2. MailboxInv /\ [Next]_vars => MailboxInv'
  BY NextMailboxInv
<1> QED BY <1>1, <1>2, PTL DEF Spec

\* A report is marked ready only between two assemblies and starts with the
\* magic (usb.c:499-513), for every number of reports and faults.
THEOREM ReadyIsOpeningHolds == Spec => []ReadyIsOpening
<1>1. MailboxInv => ReadyIsOpening
  BY DEF MailboxInv, Opened, ReadyIsOpening
<1> QED BY <1>1, MailboxInvariant, PTL

-----------------------------------------------------------------------------
(* The mailbox *)

Slot == IF USB_HID_REPORT06_READY = 1 THEN {USB_HID_REPORT06} ELSE {}
MailboxStep == Mailbox!Next \/ UNCHANGED <<Slot, taken>>

\* A chunk stored or dropped withdraws the unread report, publishes a new one
\* or does neither.
LEMMA ChunkMaps ==
    ASSUME MailboxInv, NEW c \in Chunk, OutReport06(c), taken' = taken
    PROVE  MailboxStep
<1> USE DEF MailboxStep, Slot
<1>0. /\ USB_HID_REPORT06' \in [Offsets -> Chunk]
      /\ Opened'
      /\ USB_HID_REPORT06_READY = 1 => USB_HID_REPORT06_READY' = 0
  BY ChunkStored DEF MailboxInv
<1>1. CASE USB_HID_REPORT06_READY = 1
  BY <1>0, <1>1 DEF Mailbox!Next, Mailbox!Retract
<1>2. CASE USB_HID_REPORT06_READY # 1 /\ USB_HID_REPORT06_READY' = 1
  <2>1. USB_HID_REPORT06' \in {r \in [Offsets -> Chunk] : HasMagic(r[0])}
    BY <1>0, <1>2 DEF Opened, HasMagic
  <2>2. Mailbox!Publish
    BY <1>2, <2>1 DEF Mailbox!Publish
  <2> QED BY <2>2 DEF Mailbox!Next
<1>3. CASE USB_HID_REPORT06_READY # 1 /\ USB_HID_REPORT06_READY' # 1
  BY <1>3
<1> QED BY <1>1, <1>2, <1>3

\* Everything else but the return of a report leaves the mailbox alone.
LEMMA MailboxFrame ==
    ASSUME UNCHANGED <<report06Vars, taken>>
    PROVE  MailboxStep
BY DEF MailboxStep, Slot, report06Vars

LEMMA StepMaps == MailboxInv /\ [Next]_vars => MailboxStep
<1> SUFFICES ASSUME MailboxInv, [Next]_vars PROVE MailboxStep
    OBVIOUS
<1>1. CASE GetReturn
  <2>1. taken' = USB_HID_REPORT06 /\ USB_HID_REPORT06_READY = 1 /\ USB_HID_REPORT06_READY' = 0
    BY <1>1, GetReturnTakes
  <2>2. Mailbox!Take
    BY <2>1 DEF Mailbox!Take, MailboxInv, Types
  <2> QED BY <2>2 DEF MailboxStep, Mailbox!Next
<1>2. CASE MainLoop /\ ~GetReturn
  <2> USE DEF sieVars, ep0Vars, ep0RegVars, reportVars
  <2>1. CASE GetStart \/ GetTest \/ GetNothing \/ GetReady \/ SetReport04 \/ ProcessStart
    BY <2>1, MailboxFrame DEF GetStart, GetTest, GetNothing, GetReady, SetReport04, ProcessStart
  <2>2. CASE GetCopy(0, "get_copy0", "get_copy7") \/ GetCopy(7, "get_copy7", "get_copy14")
    BY <2>2, MailboxFrame DEF GetCopy
  <2>3. CASE ReadIdleLow("idle_low", "idle_high") \/ TestIdle \/ ReadIdleLow("cmp_low", "cmp_high")
             \/ CompareIdle \/ SendNot
    BY <2>3, MailboxFrame DEF ReadIdleLow, TestIdle, CompareIdle, SendNot
  <2>4. CASE Send \/ CopyFirst \/ CopySecond \/ Length \/ EnableTransmitter
    BY <2>4, MailboxFrame DEF Send, CopyFirst, CopySecond, Length, EnableTransmitter
  <2> QED BY <1>2, <2>1, <2>2, <2>3, <2>4 DEF MainLoop
<1>3. CASE usb_isr
  <2>0. taken' = taken
    BY <1>3 DEF usb_isr, IsrEp0, IsrEp1, IsrSuspend, IsrBusReset, loopVars, reportVars
  <2>1. CASE IsrEp0
    BY <2>0, <2>1, Ep0Cases, ChunkMaps, MailboxFrame
  <2>2. CASE IsrEp1 \/ IsrSuspend \/ IsrBusReset
    BY <2>0, <2>2, MailboxFrame DEF IsrEp1, IsrSuspend, IsrBusReset, Ep0BusReset, ep0Vars
  <2> QED BY <1>3, <2>1, <2>2 DEF usb_isr
<1>4. CASE Bus
  <2> USE DEF ep0Vars, loopVars, reportVars
  <2>1. CASE Host0Next /\ UNCHANGED <<ep1Vars, loopVars>>
    BY <2>1, MailboxFrame
    DEF Host0Next, HostSetup, HostIn, HostOut, HostStatusOut, HostStatusIn, HostStalled, HostTimeout,
        HostAbort, HostRestart, HostGivesUp
  <2>2. CASE (\E lost \in BOOLEAN : HostEp1(lost)) \/ BusReset \/ Suspend
    BY <2>2, MailboxFrame DEF HostEp1, BusReset, Suspend
  <2> QED BY <1>4, <2>1, <2>2 DEF Bus
<1>5. CASE timer0_isr \/ UNCHANGED vars
  BY <1>5, MailboxFrame DEF timer0_isr, vars, ep0Vars, loopVars, reportVars
<1> QED BY <1>1, <1>2, <1>3, <1>4, <1>5 DEF Next

\* The interrupt handler's assembly and usb_get_report06 (usb.c:222-250,
\* 495-516) implement the mailbox: what is handed out is whole as published,
\* unread and not withdrawn, for every number of reports, requests and faults.
THEOREM MailboxImplemented == Spec => ImplementsMailbox
<1>1. Init => Mailbox!Init
  <2>1. ReportZero \in [Offsets -> Chunk]
    BY NumReportsAssumption DEF ReportZero, Offsets, Chunk
  <2> QED BY <2>1 DEF Init, Ep0Init, Mailbox!Init
<1>2. MailboxInv /\ [Next]_vars => [Mailbox!Next]_<<Slot, taken>>
  BY StepMaps DEF MailboxStep
<1> QED BY <1>1, <1>2, MailboxInvariant, PTL DEF Spec, ImplementsMailbox, Mailbox!Spec, Slot

-----------------------------------------------------------------------------
(* Report 06: in step with the host *)

\* The chunk of the transfer under way is on the device's side of the bus, and
\* the handler has dealt with it.
Sent == stage = "status_in" /\ IsReport06(request)
Handled == Sent /\ ~OutPending

After(p) == IF p = 14 THEN 0 ELSE p + 7

\* Offset of the chunk the handler gets next
Upcoming == IF Handled THEN After(part) ELSE part

\* What has been stored since the host started its report
Prefix == \A o \in Offsets : o < USB_HID_REPORT06_OFFSET => USB_HID_REPORT06[o] = <<rep, o>>

ReadyIsWhole == USB_HID_REPORT06_READY = 1 => WholeReport(USB_HID_REPORT06)

\* An undisturbed chunk waits for the handler only in its own transfer.
Delivered ==
    sync # "lost" /\ OutPending /\ IsReport06(request) =>
        stage = "status_in" /\ USB_EP0_BUF = OutPacket(6, <<rep, part>>)

\* In step: device and host count alike.
Counted == sync = "ok" => USB_HID_REPORT06_OFFSET = Upcoming /\ Prefix /\ ReadyIsWhole

\* Out of step: a chunk without the magic is dropped between two reports, so a
\* device that is ahead of the host waits at offset 0.
CaughtUp ==
    sync = "catching" =>
        \/ Handled /\ part = 14 /\ USB_HID_REPORT06_OFFSET = 0 /\ ReadyIsWhole
        \/ ~Handled /\ part = 0
        \/ Upcoming # 0 /\ USB_HID_REPORT06_OFFSET = Upcoming /\ Prefix
        \/ Upcoming = 7 /\ USB_HID_REPORT06_OFFSET \in {0, 14}
        \/ Upcoming = 14 /\ USB_HID_REPORT06_OFFSET = 0

StepInv == MailboxInv /\ Delivered /\ Counted /\ CaughtUp

LEMMA InitStepInv == Init => StepInv
<1> SUFFICES ASSUME Init PROVE StepInv
    OBVIOUS
<1>1. MailboxInv
  BY InitMailboxInv
<1>2. ~Handled /\ Upcoming = 0 /\ ~OutPending
  BY DEF Init, SieInit, Host0Init, Handled, Sent, Upcoming, OutPending
<1>3. Prefix
  BY DEF Init, Ep0Init, Prefix, Offsets
<1> QED BY <1>1, <1>2, <1>3
        DEF StepInv, Delivered, Counted, CaughtUp, ReadyIsWhole, Init, Ep0Init, Host0Init

\* A step that changes neither what is stored nor where the host is; the loop
\* may take the report, and the host may find itself disturbed.
LEMMA Undisturbed ==
    ASSUME StepInv, MailboxInv', UNCHANGED <<USB_HID_REPORT06, USB_HID_REPORT06_OFFSET, rep, part>>,
           USB_HID_REPORT06_READY' \in {0, USB_HID_REPORT06_READY},
           sync' \in {sync, "lost"},
           sync' # "lost" => (Handled' <=> Handled),
           Delivered'
    PROVE  StepInv'
<1>1. CASE sync' = "lost"
  BY <1>1 DEF StepInv, Counted, CaughtUp
<1>2. CASE sync' # "lost"
  <2>1. sync' = sync /\ Upcoming' = Upcoming /\ (Handled' <=> Handled)
    BY <1>2 DEF Upcoming, After
  <2>2. (Prefix' <=> Prefix) /\ (ReadyIsWhole => ReadyIsWhole')
    BY DEF Prefix, ReadyIsWhole, WholeReport
  <2> QED BY <2>1, <2>2 DEF StepInv, Counted, CaughtUp
<1> QED BY <1>1, <1>2

-----------------------------------------------------------------------------
(* The handler *)

\* One chunk of the host's own report, in every state of the assembly
\* (usb.c:499-514)
LEMMA ChunkCounted ==
    ASSUME StepInv, MailboxInv', OutReport06(<<rep, part>>), UNCHANGED <<rep, part, sync>>,
           sync # "lost", Sent, OutPending, Handled'
    PROVE  StepInv'
<1> DEFINE off == USB_HID_REPORT06_OFFSET
<1>0. part \in Offsets /\ off \in Offsets /\ off' \in Offsets /\ rep \in 1 .. NumReports
      /\ USB_HID_REPORT06 \in [Offsets -> Chunk] /\ sync \in {"ok", "lost", "catching"}
  BY DEF StepInv, MailboxInv, Types
<1>1. Upcoming = part /\ ~Handled /\ Upcoming' = After(part)
  BY DEF Upcoming, Handled, After
<1>2. Delivered'
  BY DEF Delivered, Handled
<1>3. CASE off = 0 /\ part # 0
  <2>1. off' = 0 /\ USB_HID_REPORT06_READY' = 0 /\ sync = "catching"
    BY <1>0, <1>1, <1>3 DEF OutReport06, DropChunk, HasMagic, StepInv, Counted
  <2>2. ReadyIsWhole'
    BY <2>1 DEF ReadyIsWhole
  <2>3. part = 7 \/ part = 14
    BY <1>0, <1>3 DEF Offsets
  <2>4. CaughtUp'
    BY <1>1, <2>1, <2>2, <2>3 DEF CaughtUp, After
  <2> QED BY <1>2, <2>1, <2>4 DEF StepInv, Counted
<1>4. CASE off = 0 => part = 0
  <2>1. StoreChunk(<<rep, part>>)
    BY <1>0, <1>4 DEF OutReport06, DropChunk, HasMagic
  <2>2. /\ off' = After(off)
        /\ USB_HID_REPORT06'[off] = <<rep, part>>
        /\ \A o \in Offsets : o # off => USB_HID_REPORT06'[o] = USB_HID_REPORT06[o]
    BY <1>0, <2>1 DEF StoreChunk, After, Offsets
  <2>3. CASE off = part /\ Prefix
    <3>1. Prefix'
      BY <1>0, <2>2, <2>3 DEF Prefix, Offsets, After
    <3>2. ReadyIsWhole'
      <4>1. CASE part = 14
        <5>1. \A o \in Offsets : USB_HID_REPORT06'[o] = <<rep, o>>
          BY <1>0, <2>2, <2>3, <4>1 DEF Prefix, Offsets
        <5> QED BY <5>1 DEF ReadyIsWhole, WholeReport, Offsets
      <4>2. CASE part # 14
        <5>1. USB_HID_REPORT06_READY' # 1
          BY <1>0, <2>2, <2>3, <4>2 DEF MailboxInv, Opened, After, Offsets
        <5> QED BY <5>1 DEF ReadyIsWhole
      <4> QED BY <4>1, <4>2
    <3>3. CaughtUp'
      BY <1>0, <1>1, <2>2, <2>3, <3>1, <3>2 DEF CaughtUp, After, Offsets
    <3> QED BY <1>1, <1>2, <2>2, <2>3, <3>1, <3>2, <3>3 DEF StepInv, Counted
  <2>4. CASE ~(off = part /\ Prefix)
    <3>1. sync = "catching"
      BY <1>0, <1>1, <2>4 DEF StepInv, Counted
    <3>2. part = 0 \/ (part = 7 /\ off = 14)
      BY <1>1, <1>4, <2>4, <3>1 DEF StepInv, CaughtUp
    <3>3. CASE part = 0
      <4>1. off # 0
        BY <1>0, <2>4, <3>3 DEF Prefix, Offsets
      <4>2. Upcoming' = 7 /\ off' \in {0, 14}
        BY <1>0, <1>1, <2>2, <3>3, <4>1 DEF After, Offsets
      <4> QED BY <1>2, <3>1, <4>2 DEF StepInv, Counted, CaughtUp
    <3>4. CASE part = 7 /\ off = 14
      <4>1. Upcoming' = 14 /\ off' = 0
        BY <1>1, <2>2, <3>4 DEF After
      <4> QED BY <1>2, <3>1, <4>1 DEF StepInv, Counted, CaughtUp
    <3> QED BY <3>2, <3>3, <3>4
  <2> QED BY <2>3, <2>4
<1> QED BY <1>3, <1>4

LEMMA IsrEp0Steps == StepInv /\ IsrEp0 => StepInv'
<1> SUFFICES ASSUME StepInv, IsrEp0 PROVE StepInv'
    OBVIOUS
<1>1. MailboxInv /\ MailboxInv'
  BY IsrKeeps DEF StepInv, usb_isr
<1>2. UNCHANGED <<stage, request, rep, part, sync>> /\ ~OutPending'
  BY DEF IsrEp0, ClearTransfer, host0Vars, reportSourceVars, OutPending
<1>3. Delivered'
  BY <1>2 DEF Delivered
<1>4. CASE UNCHANGED report06Vars /\ ~(OutPending /\ IsReport06(request))
  <2>1. Handled' <=> Handled
    BY <1>2, <1>4 DEF Handled, Sent, IsReport06, IsSetReport
  <2> QED BY <1>1, <1>2, <1>3, <1>4, <2>1, Undisturbed DEF report06Vars
<1>5. CASE /\ OutPending /\ IsSetReport(request) /\ request.valueL = 6
           /\ \E c \in Chunk : USB_EP0_BUF = OutPacket(6, c) /\ OutReport06(c)
  <2>1. IsReport06(request)
    BY <1>5 DEF IsReport06
  <2>2. CASE sync = "lost"
    BY <1>1, <1>2, <1>3, <2>2 DEF StepInv, Counted, CaughtUp
  <2>3. CASE sync # "lost"
    <3>1. stage = "status_in" /\ USB_EP0_BUF = OutPacket(6, <<rep, part>>)
      BY <1>5, <2>1, <2>3 DEF StepInv, Delivered
    <3>2. OutReport06(<<rep, part>>)
      BY <1>5, <3>1 DEF OutPacket
    <3>3. Sent /\ Handled'
      BY <1>2, <2>1, <3>1 DEF Sent, Handled, IsReport06, IsSetReport
    <3> QED BY <1>1, <1>2, <1>5, <2>3, <3>2, <3>3, ChunkCounted
  <2> QED BY <2>2, <2>3
<1> QED BY <1>1, <1>4, <1>5, Ep0Cases

LEMMA IsrSteps == StepInv /\ usb_isr => StepInv'
<1> SUFFICES ASSUME StepInv, usb_isr, ~IsrEp0 PROVE StepInv'
    BY IsrEp0Steps
<1>1. MailboxInv'
  BY IsrKeeps DEF StepInv
<1>2. UNCHANGED <<host0Vars, report06Vars>> /\ ~OutPending /\ ~OutPending'
  BY DEF usb_isr, IsrEp1, IsrSuspend, IsrBusReset, ClearTransfer, Ep0BusReset, ep0Vars, OutPending
<1>3. Delivered' /\ (Handled' <=> Handled)
  BY <1>2 DEF Delivered, Handled, Sent, host0Vars
<1> QED BY <1>1, <1>2, <1>3, Undisturbed DEF host0Vars, reportSourceVars, report06Vars

-----------------------------------------------------------------------------
(* The main loop *)

LEMMA LoopSteps == StepInv /\ (MainLoop \/ timer0_isr \/ UNCHANGED vars) => StepInv'
<1> SUFFICES ASSUME StepInv, MainLoop \/ timer0_isr \/ UNCHANGED vars PROVE StepInv'
    OBVIOUS
<1> DEFINE Frame == /\ UNCHANGED <<host0Vars, USB_EP0_BUF, UIF_TRANSFER, USB_INT_ST>>
                    /\ UNCHANGED <<USB_HID_REPORT06, USB_HID_REPORT06_OFFSET>>
                    /\ USB_HID_REPORT06_READY' \in {0, USB_HID_REPORT06_READY}
<1>1. MailboxInv'
  BY NextMailboxInv DEF StepInv, Next
<1>2. Frame
  <2>1. CASE MainLoop
    BY <2>1, LoopFrame DEF ep0RegVars
  <2>2. CASE timer0_isr \/ UNCHANGED vars
    BY <2>2 DEF timer0_isr, vars, sieVars, ep0Vars, ep0RegVars, report06Vars
  <2> QED BY <2>1, <2>2
<1>3. (Handled' <=> Handled) /\ Delivered'
  BY <1>2 DEF StepInv, Delivered, Handled, Sent, OutPending, host0Vars, reportSourceVars
<1> QED BY <1>1, <1>2, <1>3, Undisturbed DEF host0Vars, reportSourceVars

-----------------------------------------------------------------------------
(* The bus *)

LEMMA HostSetupSteps ==
    ASSUME StepInv, MailboxInv', NEW s \in Requests, HostSetup(s)
    PROVE  StepInv'
<1>1. UNCHANGED <<report06Vars, rep, part>> /\ stage = "idle" /\ ~OutPending'
  BY DEF HostSetup, Transaction, OutPending
<1>2. stage' # "status_in" \/ ~IsReport06(s)
  <2>1. IsReport06(s) => s.length # 0 /\ s.dir = "out"
    BY RequestType DEF IsReport06, AnyRequest
  <2> QED BY <2>1 DEF HostSetup, FirstStage
<1>3. ~Handled /\ ~Handled'
  BY <1>1, <1>2 DEF HostSetup, Handled, Sent
<1>4. Delivered'
  BY <1>1 DEF Delivered
<1>5. CASE sync' = sync
  BY <1>1, <1>3, <1>4, <1>5, Undisturbed DEF report06Vars
<1>6. CASE sync' # sync
  <2>1. part' = 0 /\ sync' = "catching"
    BY <1>1, <1>6 DEF HostSetup
  <2> QED BY <1>3, <1>4, <2>1 DEF StepInv, Counted, CaughtUp
<1> QED BY <1>5, <1>6

LEMMA HostOutSteps ==
    ASSUME StepInv, MailboxInv', NEW lost \in BOOLEAN, HostOut(lost)
    PROVE  StepInv'
<1> USE DEF HostOut, Transaction
<1>1. UNCHANGED <<report06Vars, rep, part, request>> /\ stage = "out" /\ sync' \in {sync, "lost"}
  OBVIOUS
<1>2. OutPending'
  BY DEF OutPending
<1>3. ~Handled /\ ~Handled'
  BY <1>1, <1>2 DEF Handled, Sent
<1>4. Delivered'
  BY <1>1 DEF Delivered, IsReport06, IsSetReport
<1> QED BY <1>1, <1>3, <1>4, Undisturbed DEF report06Vars

LEMMA HostInSteps ==
    ASSUME StepInv, MailboxInv', NEW lost \in BOOLEAN, HostIn(lost)
    PROVE  StepInv'
<1> USE DEF HostIn, Transaction, SieReady
<1>1. UNCHANGED <<report06Vars, rep, part, sync>> /\ stage = "in" /\ stage' \in {"in", "status_out"}
  BY DEF reportSourceVars, ep0Vars
<1>2. ~OutPending'
  <2>1. CASE lost
    BY <2>1 DEF OutPending
  <2>2. CASE ~lost
    BY <2>2 DEF OutPending
  <2> QED BY <2>1, <2>2
<1>3. ~Handled /\ ~Handled' /\ Delivered'
  BY <1>1, <1>2 DEF Handled, Sent, Delivered
<1> QED BY <1>1, <1>3, Undisturbed DEF report06Vars

\* The status stage of a chunk: the host goes on to the next one.
LEMMA HostStatusInSteps ==
    ASSUME StepInv, MailboxInv', NEW lost \in BOOLEAN, HostStatusIn(lost)
    PROVE  StepInv'
<1> USE DEF HostStatusIn, Transaction
<1>0. ~OutPending /\ ~OutPending'
  <2>1. CASE lost
    BY <2>1 DEF SieReady, OutPending
  <2>2. CASE ~lost
    BY <2>2 DEF SieReady, OutPending
  <2> QED BY <2>1, <2>2
<1>1. UNCHANGED <<report06Vars, request>> /\ stage' = "idle" /\ ~OutPending /\ ~OutPending'
  BY <1>0 DEF ep0Vars
<1>2. ~Handled' /\ Delivered' /\ Upcoming' = part'
  BY <1>1 DEF Handled, Sent, Delivered, Upcoming
<1>3. CASE ~IsReport06(request)
  <2>1. UNCHANGED <<rep, part, sync>> /\ ~Handled
    BY <1>3 DEF reportSourceVars, Handled, Sent
  <2> QED BY <1>1, <1>2, <2>1, Undisturbed DEF report06Vars
<1>4. CASE IsReport06(request)
  <2>1. Handled /\ Upcoming = After(part) /\ part' = Upcoming
    BY <1>1, <1>4 DEF Handled, Sent, Upcoming, After, AdvanceReport
  <2>2. ReadyIsWhole' <=> ReadyIsWhole
    BY <1>1 DEF ReadyIsWhole, WholeReport, report06Vars
  <2>3. CASE part = 14
    <3>1. sync # "lost" => USB_HID_REPORT06_OFFSET = 0 /\ ReadyIsWhole
      BY <2>1, <2>3 DEF StepInv, MailboxInv, Types, Counted, CaughtUp, After
    <3>2. sync # "lost" => sync' = "ok"
      BY <1>4, <2>3 DEF AdvanceReport, StepInv, MailboxInv, Types
    <3>3. sync = "lost" => sync' = "lost"
      BY <1>4 DEF AdvanceReport
    <3>4. USB_HID_REPORT06_OFFSET' = 0 => Prefix'
      BY DEF Prefix, Offsets
    <3> QED BY <1>1, <1>2, <2>1, <2>2, <2>3, <3>1, <3>2, <3>3, <3>4
            DEF StepInv, Counted, CaughtUp, After, report06Vars
  <2>4. CASE part # 14
    <3>1. rep' = rep /\ sync' = sync
      BY <1>4, <2>4 DEF AdvanceReport
    <3>2. Prefix' <=> Prefix
      BY <1>1, <3>1 DEF Prefix, report06Vars
    <3> QED BY <1>1, <1>2, <2>1, <2>2, <2>4, <3>1, <3>2
            DEF StepInv, Counted, CaughtUp, report06Vars
  <2> QED BY <2>3, <2>4
<1> QED BY <1>3, <1>4

\* A transfer cut off, and whatever else leaves the packet memory alone
LEMMA CutOffSteps ==
    ASSUME StepInv, MailboxInv', UNCHANGED <<report06Vars, request, rep, part, USB_EP0_BUF>>,
           OutPending' => OutPending \/ ~IsReport06(request),
           OutPending => OutPending' \/ ~IsReport06(request),
           \/ stage' = stage /\ sync' = sync
           \/ stage' = "idle" /\ ~IsReport06(request) /\ sync' = sync
           \/ stage = "idle" /\ stage' = "idle" /\ sync' = sync
           \/ sync' = "lost"
    PROVE  StepInv'
<1>0. IsReport06(request)' <=> IsReport06(request)
  BY DEF IsReport06, IsSetReport
<1>1. Delivered'
  BY <1>0 DEF StepInv, Delivered
<1>2. sync' # "lost" => (Handled' <=> Handled)
  BY <1>0 DEF Handled, Sent
<1> QED BY <1>1, <1>2, Undisturbed DEF report06Vars

LEMMA BusSteps == StepInv /\ Bus => StepInv'
<1> SUFFICES ASSUME StepInv, Bus PROVE StepInv'
    OBVIOUS
<1>0. MailboxInv /\ MailboxInv'
  BY BusKeeps DEF StepInv
<1>1. CASE Host0Next
  <2>1. CASE \E s \in Requests : HostSetup(s)
    BY <1>0, <2>1, HostSetupSteps
  <2>2. CASE \E lost \in BOOLEAN : HostIn(lost) \/ HostOut(lost)
    BY <1>0, <2>2, HostInSteps, HostOutSteps
  <2>3. ASSUME NEW lost \in BOOLEAN, HostStatusOut(lost) PROVE StepInv'
    <3>1. ~IsReport06(request)
      BY <1>0, <2>3, RequestType DEF HostStatusOut, MailboxInv, Linked, IsReport06
    <3>2. stage' = stage \/ stage' = "idle"
      BY <2>3 DEF HostStatusOut
    <3> QED BY <1>0, <2>3, <3>1, <3>2, CutOffSteps DEF HostStatusOut, reportSourceVars, ep0Vars, ep0RegVars
  <2>4. CASE \E lost \in BOOLEAN : HostStatusIn(lost)
    BY <1>0, <2>4, HostStatusInSteps
  <2>5. CASE HostStalled \/ HostTimeout \/ HostAbort
    <3>1. HostGivesUp /\ UNCHANGED <<UIF_TRANSFER, USB_INT_ST>>
      BY <2>5 DEF HostStalled, HostTimeout, HostAbort, sieVars
    <3> QED BY <1>0, <3>1, CutOffSteps DEF HostGivesUp, ep0Vars, ep0RegVars, OutPending
  <2>6. CASE HostRestart
    BY <1>0, <2>6 DEF HostRestart, StepInv, Delivered, Counted, CaughtUp
  <2> QED BY <1>1, <2>1, <2>2, <2>3, <2>4, <2>5, <2>6 DEF Host0Next
<1>2. ASSUME NEW lost \in BOOLEAN, HostEp1(lost) PROVE StepInv'
  <2>1. ~OutPending /\ ~OutPending'
    <3>1. CASE lost
      BY <1>2, <3>1 DEF HostEp1, HostPollsEp1, Transaction, SieReady, OutPending
    <3>2. CASE ~lost
      BY <1>2, <3>2 DEF HostEp1, HostPollsEp1, Transaction, SieReady, OutPending
    <3> QED BY <3>1, <3>2
  <2> QED BY <1>0, <1>2, <2>1, CutOffSteps DEF HostEp1, host0Vars, reportSourceVars, ep0Vars, ep0RegVars
<1>3. CASE BusReset
  BY <1>0, <1>3, CutOffSteps
  DEF BusReset, Host0BusReset, ep0Vars, ep0RegVars, OutPending
<1>4. CASE Suspend
  BY <1>0, <1>4, CutOffSteps DEF Suspend, host0Vars, reportSourceVars, ep0Vars, ep0RegVars, OutPending
<1> QED BY <1>1, <1>2, <1>3, <1>4 DEF Bus

-----------------------------------------------------------------------------
\* Device and host count alike while no transfer is disturbed, and after one
\* undisturbed report again (usb.c:495-516).
THEOREM StepInvariant == Spec => []StepInv
<1>1. Init => StepInv
  BY InitStepInv
<1>2. StepInv /\ [Next]_vars => StepInv'
  BY LoopSteps, IsrSteps, BusSteps DEF Next
<1> QED BY <1>1, <1>2, PTL DEF Spec

\* From the first undisturbed report on, every report marked ready is one
\* report of the host, never a mixture (usb.c:499-514), whatever the position of
\* the assembly when the disturbance ended.
THEOREM SelfStabilisingHolds == Spec => []SelfStabilising
<1>1. StepInv => SelfStabilising
  BY DEF StepInv, Counted, ReadyIsWhole, SelfStabilising
<1> QED BY <1>1, StepInvariant, PTL

\* In step, the assembly expects exactly the chunk the host sends next
\* (usb.c:507-512).
THEOREM InStepHolds == Spec => []InStep
<1>1. StepInv => InStep
  BY DEF StepInv, Counted, Upcoming, Handled, Sent, InStep
<1> QED BY <1>1, StepInvariant, PTL

-----------------------------------------------------------------------------
(* Control transfers *)

InPending == UIF_TRANSFER /\ USB_INT_ST = <<"IN", 0>>

IsDescriptor(s) ==
    s.typ = "standard" /\ s.req = "GET_DESCRIPTOR" /\ s.valueL = 0 /\ DescLen(s) > 0
IsSetAddress(s) == s.typ = "standard" /\ s.req = "SET_ADDRESS"

\* Bytes the device sends in answer
Size(s) == Minimum(DescLen(s), s.length % 256)

\* Which interrupts may be pending in which stage
Staged ==
    /\ UIF_BUS_RST => stage = "idle"
    /\ UIF_SUSPEND /\ stage # "idle" => SetupPending
    /\ stage # "idle" => request \in Requests
    /\ SetupPending /\ stage # "idle" => stage = FirstStage(request) /\ received = 0 /\ hostTog0 = 1
    /\ OutPending => stage \in {"idle", "out", "status_in", "status_out"}
    /\ OutPending /\ stage = "status_out" => request.dir = "in"
    /\ InPending => stage \in {"idle", "in", "status_out"}
    /\ stage \in {"in", "out"} => request.length # 0

Agreed == USB_DEV_AD = hostAddr \/ (unconfirmed /\ USB_DEV_AD = 0)

\* The host and the device differ only while the status stage of SET_ADDRESS or
\* a bus reset waits for the handler, or if it does not get to know of the former.
Addressed ==
    /\ UIF_BUS_RST => hostAddr = 0
    /\ ~UIF_BUS_RST =>
         IF InPending /\ IsSetAddress(request) THEN hostAddr = request.valueL ELSE Agreed
    /\ stage # "idle" /\ request.req = "SET_ADDRESS" => hostAddr = 0

\* The answer to an IN token in the status stage
StatusAnswer ==
    \/ UEP0_CTRL.t = "STALL"
    \/ /\ UEP0_CTRL.t = "ACK" /\ UEP0_CTRL.ttog = 1 /\ UEP0_T_LEN = 0
       /\ request.req = "SET_ADDRESS" => request.typ = "standard"
    \/ UEP0_CTRL.t = "NAK" /\ (IsUnknownOut(request) \/ IsOtherHid(request))

\* The stages of a transfer to the device
Writing ==
    /\ stage = "status_in" /\ ~SetupPending => StatusAnswer
    /\ stage = "out" /\ ~SetupPending =>
         \/ UEP0_CTRL.r = "STALL"
         \/ UEP0_CTRL.r = "ACK" /\ StatusAnswer
         \/ /\ UEP0_CTRL.r = "NAK"
            /\ IsUnknownOut(request) \/ IsOtherHid(request) \/ (IsSetReport(request) /\ faults < MaxFaults)
    /\ stage = "out" /\ OutPending => faults < MaxFaults

\* The packet in memory is the part of the descriptor the host is waiting for,
\* or has just received.
Cursor ==
    /\ txPtr.answers = request
    /\ txPtr.from + txLen = Size(request)
    /\ UEP0_T_LEN <= txPtr.from
    /\ UEP0_T_LEN < 8 => txLen = 0
    /\ USB_EP0_BUF = InPacket(request, txPtr.from - UEP0_T_LEN)
    /\ received = IF UEP0_CTRL.ttog = hostTog0 THEN txPtr.from - UEP0_T_LEN ELSE txPtr.from
    /\ InPending => UEP0_CTRL.ttog # hostTog0

\* The stages of a transfer from the device
Reading ==
    /\ stage = "in" /\ ~SetupPending =>
         \/ UEP0_CTRL.t = "STALL" /\ ~InPending
         \/ /\ UEP0_CTRL.t = "ACK" /\ UEP0_CTRL.r = "ACK"
            /\ \/ IsDescriptor(request) /\ Cursor
               \/ /\ request.req # "GET_DESCRIPTOR" /\ ~InPending
                  /\ UEP0_CTRL.ttog = hostTog0 /\ UEP0_T_LEN < 8
    /\ stage = "status_out" =>
         /\ UEP0_CTRL.r = "ACK"
         /\ request.req = "GET_DESCRIPTOR" => received = Size(request)

ControlInv == Staged /\ Addressed /\ Writing /\ Reading

-----------------------------------------------------------------------------
(* Type correctness *)

Pc == {"get_start", "get_test", "get_check", "get_copy0", "get_copy7", "get_copy14",
       "set", "process", "idle_low", "idle_high", "cmp_low", "cmp_high",
       "send", "copy_1", "copy_2", "length", "arm"}

LoopTypes ==
    /\ pc \in Pc
    /\ ticks \in Tick /\ now \in Tick /\ USB_PROCESS_TICKS \in Tick
    /\ low \in 0 .. BYTE - 1
    /\ buffer \in [Offsets -> Chunk]
    /\ taken \in [Offsets -> Chunk]

LEMMA TypeParts ==
    /\ TypeOK <=> SieTypeOK /\ Ep0TypeOK /\ Host0TypeOK /\ Ep1TypeOK /\ LoopTypes
    /\ TypeOK' <=> SieTypeOK' /\ Ep0TypeOK' /\ Host0TypeOK' /\ Ep1TypeOK' /\ LoopTypes'
BY DEF TypeOK, LoopTypes, Pc

\* The endpoint 0 transfer under way is one of the host's requests.
Known == stage # "idle" => request \in Requests

TypeInv == TypeOK /\ Known

LEMMA MinimumType ==
    ASSUME NEW a \in Nat, NEW b \in Nat
    PROVE  Minimum(a, b) \in Nat /\ Minimum(a, b) <= a /\ Minimum(a, b) <= b
BY DEF Minimum

LEMMA DescLenType == ASSUME NEW s PROVE DescLen(s) \in 0 .. 46
BY DEF DescLen

LEMMA SizeType ==
    ASSUME NEW s \in AnyRequest
    PROVE  /\ s.length \in Nat /\ s.valueH \in Nat /\ s.valueL \in Nat
           /\ Size(s) \in 0 .. 46 /\ Size(s) <= s.length % 256 /\ s.length % 256 <= s.length
<1>1. s.length \in Nat /\ s.valueH \in Nat /\ s.valueL \in Nat
  BY RequestsAssumption DEF AnyRequest, NoRequest, StandardOut, Packet
<1>2. s.length % 256 \in Nat /\ s.length % 256 <= s.length
  BY <1>1
<1> QED BY <1>1, <1>2, DescLenType DEF Size, Minimum

LEMMA InitTypes == Init => TypeInv
<1> SUFFICES ASSUME Init PROVE TypeInv
    OBVIOUS
<1> USE DEF Init
<1>1. SieTypeOK
  <2>1. {UIF_TRANSFER, UIF_SUSPEND, UIF_BUS_RST, running} \subseteq BOOLEAN
    BY DEF SieInit
  <2> QED BY <2>1, MaxFaultsAssumption DEF SieInit, SieTypeOK, Token
<1>2. ReportZero \in [Offsets -> Chunk]
  BY NumReportsAssumption DEF ReportZero, Offsets, Chunk
<1>3. Ep0TypeOK
  <2>1. InPacket(NoRequest, 0) \in InPackets
    BY DEF InPacket, InPackets, AnyRequest
  <2> QED BY <1>2, <2>1, IdleAssumption DEF Ep0Init, Ep0TypeOK, Nak0, Ctrl0, AnyRequest, Offsets
<1>4. Host0TypeOK
  <2>1. configured \in BOOLEAN /\ unconfirmed \in BOOLEAN
    BY DEF Host0Init
  <2> QED BY <2>1, NumReportsAssumption DEF Host0Init, Host0TypeOK, Stage, AnyRequest, Offsets
<1>5. Ep1TypeOK
  <2>1. Whole(NoReport04) \in [Half -> Report04s]
    BY Report04Assumption DEF Whole
  <2>2. changed \in BOOLEAN
    BY DEF Ep1Init
  <2> QED BY <2>1, <2>2, Report04Assumption DEF Ep1Init, Ep1TypeOK, Nak1, Ep1Packet
<1>6. LoopTypes
  BY <1>2, TickModAssumption, LoopAssumption DEF LoopTypes, Pc, Tick
<1> QED BY <1>1, <1>3, <1>4, <1>5, <1>6, TypeParts DEF Host0Init, TypeInv, Known

\* A part of the state that a step leaves alone keeps its type.
LEMMA TypeFrames ==
    /\ SieTypeOK /\ UNCHANGED sieVars => SieTypeOK'
    /\ SieTypeOK /\ (SetMask(0) \/ SetMask(1)) => SieTypeOK'
    /\ Ep0TypeOK /\ UNCHANGED ep0Vars => Ep0TypeOK'
    /\ Host0TypeOK /\ UNCHANGED host0Vars => Host0TypeOK'
    /\ Ep1TypeOK /\ UNCHANGED ep1Vars => Ep1TypeOK'
    /\ LoopTypes /\ UNCHANGED loopVars => LoopTypes'
<1>1. SieTypeOK /\ UNCHANGED sieVars => SieTypeOK'
  BY DEF SieTypeOK, sieVars
<1>2. SieTypeOK /\ (SetMask(0) \/ SetMask(1)) => SieTypeOK'
  BY DEF SieTypeOK, SetMask
<1>3. Ep0TypeOK /\ UNCHANGED ep0Vars => Ep0TypeOK'
  BY DEF Ep0TypeOK, ep0Vars, ep0RegVars, ep0FwVars, report06Vars
<1>4. Host0TypeOK /\ UNCHANGED host0Vars => Host0TypeOK'
  BY DEF Host0TypeOK, host0Vars, reportSourceVars
<1>5. Ep1TypeOK /\ UNCHANGED ep1Vars => Ep1TypeOK'
  BY DEF Ep1TypeOK, ep1Vars, ep1RegVars, ep1FwVars, host1Vars
<1>6. LoopTypes /\ UNCHANGED loopVars => LoopTypes'
  BY DEF LoopTypes, loopVars, clockVars, reportVars
<1> QED BY <1>1, <1>2, <1>3, <1>4, <1>5, <1>6

LEMMA LoopKeepsTypes == TypeOK /\ MainLoop => TypeOK'
<1> SUFFICES ASSUME TypeOK, MainLoop PROVE TypeOK'
    OBVIOUS
<1>0. SieTypeOK /\ Ep0TypeOK /\ Host0TypeOK /\ Ep1TypeOK /\ LoopTypes
  BY TypeParts
<1> USE DEF Goto
<1>1. CASE GetStart \/ GetTest \/ GetNothing \/ ProcessStart \/ TestIdle \/ SendNot
  <2>1. LoopTypes'
    BY <1>0, <1>1
    DEF GetStart, GetTest, GetNothing, ProcessStart, TestIdle, SendNot, LoopTypes, Pc, clockVars, reportVars
  <2> QED BY <1>0, <1>1, <2>1, TypeFrames, TypeParts
          DEF GetStart, GetTest, GetNothing, ProcessStart, TestIdle, SendNot
<1>2. CASE GetReady \/ Send
  <2>1. LoopTypes'
    BY <1>0, <1>2 DEF GetReady, Send, LoopTypes, Pc, clockVars, reportVars
  <2> QED BY <1>0, <1>2, <2>1, TypeFrames, TypeParts DEF GetReady, Send, GetMask, SendMask
<1>3. ASSUME NEW o \in {0, 7}, NEW from, NEW to \in Pc, GetCopy(o, from, to) PROVE TypeOK'
  <2>1. buffer' \in [Offsets -> Chunk]
    BY <1>0, <1>3 DEF GetCopy, LoopTypes, Ep0TypeOK, Offsets
  <2>2. LoopTypes'
    BY <1>0, <1>3, <2>1 DEF GetCopy, LoopTypes, clockVars
  <2> QED BY <1>0, <1>3, <2>2, TypeFrames, TypeParts DEF GetCopy
<1>4. CASE GetReturn
  <2>1. buffer' \in [Offsets -> Chunk] /\ taken' = buffer'
    BY <1>0, <1>4 DEF GetReturn, LoopTypes, Ep0TypeOK, Offsets
  <2>2. LoopTypes'
    BY <1>0, <1>4, <2>1 DEF GetReturn, LoopTypes, Pc, clockVars
  <2>3. Ep0TypeOK'
    BY <1>0, <1>4 DEF GetReturn, Ep0TypeOK, ep0RegVars, ep0FwVars
  <2> QED BY <1>0, <1>4, <2>2, <2>3, TypeFrames, TypeParts DEF GetReturn
<1>5. CASE SetReport04 \/ CompareIdle
  <2>1. LoopTypes'
    BY <1>0, <1>5 DEF SetReport04, CompareIdle, LoopTypes, Pc, clockVars, reportVars
  <2>2. Ep1TypeOK'
    BY <1>0, <1>5 DEF SetReport04, usb_set_report04, CompareIdle, Ep1TypeOK, ep1RegVars, host1Vars
  <2> QED BY <1>0, <1>5, <2>1, <2>2, TypeFrames, TypeParts DEF SetReport04, CompareIdle
<1>6. ASSUME NEW from, NEW to \in Pc, ReadIdleLow(from, to) PROVE TypeOK'
  <2>1. USB_IDLE_SETTING \in Nat /\ BYTE \in Nat /\ BYTE > 1
    BY <1>0, LoopAssumption DEF Ep0TypeOK
  <2>2. low' \in 0 .. BYTE - 1
    BY <1>6, <2>1 DEF ReadIdleLow, Low
  <2>3. LoopTypes'
    BY <1>0, <1>6, <2>2 DEF ReadIdleLow, LoopTypes, clockVars, reportVars
  <2> QED BY <1>0, <1>6, <2>3, TypeFrames, TypeParts DEF ReadIdleLow
<1>7. CASE CopyFirst \/ CopySecond \/ Length
  <2>1. LoopTypes'
    BY <1>0, <1>7 DEF CopyFirst, CopySecond, Length, LoopTypes, Pc, clockVars, reportVars
  <2>2. Ep1TypeOK'
    BY <1>0, <1>7
    DEF CopyFirst, CopySecond, Length, CopyReport04, SetLength, Ep1TypeOK, ep1FwVars, host1Vars
  <2> QED BY <1>0, <1>7, <2>1, <2>2, TypeFrames, TypeParts DEF CopyFirst, CopySecond, Length
<1>8. CASE EnableTransmitter
  <2>1. LoopTypes'
    BY <1>0, <1>8 DEF EnableTransmitter, LoopTypes, Pc, clockVars, reportVars
  <2>2. UEP1_CTRL' \in [t : {"NAK", "ACK"}, ttog : {0, 1}] /\ repeats' \in 0 .. 2
    BY <1>0, <1>8 DEF EnableTransmitter, Arm, Ep1TypeOK
  <2>3. Ep1TypeOK'
    BY <1>0, <1>8, <2>2 DEF EnableTransmitter, Arm, Ep1TypeOK, ep1FwVars
  <2> QED BY <1>0, <1>8, <2>1, <2>3, TypeFrames, TypeParts DEF EnableTransmitter
<1> QED BY <1>1, <1>2, <1>3, <1>4, <1>5, <1>6, <1>7, <1>8 DEF MainLoop, Pc

\* What a SETUP packet leaves in the registers (usb.c:349-462)
LEMMA SetupTypes ==
    ASSUME Ep0TypeOK, MailboxInv, SetupPending, SetupToken
    PROVE  Ep0TypeOK'
<1>1. USB_EP0_BUF = request /\ request \in AnyRequest
  BY DEF MailboxInv, Linked
<1> DEFINE s == request
<1>2. s.valueH \in Nat /\ Size(s) \in 0 .. 46
  BY <1>1, SizeType
<1>3. s.valueH * IDLE_UNIT \in Nat
  BY <1>2, IdleAssumption
<1>4. InPacket(s, 0) \in InPackets /\ \A n \in Nat : InPacket(s, n) \in InPackets
  BY <1>1 DEF InPacket, InPackets
<1> DEFINE C == [r : {"ACK", "NAK", "STALL"}, t : {"ACK", "NAK", "STALL"}, ttog : {0, 1}]
<1>5. \A r, t \in {"ACK", "NAK", "STALL"} : \A x \in {0, 1} : Ctrl0(r, t, x) \in C
  BY DEF Ctrl0
<1> DEFINE Fields ==
      /\ USB_EP0_BUF' \in AnyRequest \cup InPackets \cup OutPackets
      /\ UEP0_T_LEN' \in 0 .. 8 /\ UEP0_CTRL' \in C
      /\ txPtr' \in InPackets /\ txLen' \in 0 .. 255
      /\ USB_CONFIGURATION' \in {0, 1} /\ USB_IDLE_SETTING' \in Nat
<1> USE DEF Answer, NoData, Nak0
<1>6. Fields
  <2>1. CASE SetupGetDescriptor(s)
    <3>1. PICK cur \in 0 .. 8 : /\ cur <= Size(s) /\ txPtr' = InPacket(s, cur) /\ txLen' = Size(s) - cur
                                /\ UEP0_T_LEN' = cur
      BY <1>2, <2>1 DEF SetupGetDescriptor, Size, Minimum
    <3>2. USB_EP0_BUF' = InPacket(s, 0) /\ UEP0_CTRL' = Ctrl0("ACK", "ACK", 1)
          /\ UNCHANGED <<USB_CONFIGURATION, USB_IDLE_SETTING>>
      BY <2>1 DEF SetupGetDescriptor
    <3> QED BY <1>2, <1>4, <1>5, <3>1, <3>2 DEF Ep0TypeOK
  <2>2. CASE SetupNoDescriptor(s) \/ SetupSetAddress(s) \/ SetupUnsupported(s) \/ SetupUnknown(s)
    BY <1>5, <2>2 DEF SetupNoDescriptor, SetupSetAddress, SetupUnsupported, SetupUnknown, Ep0TypeOK
  <2>3. CASE SetupGetValue(s) \/ SetupSetConfiguration(s)
    BY <1>4, <1>5, <2>3 DEF SetupGetValue, SetupSetConfiguration, Ep0TypeOK
  <2>4. CASE SetupSetIdle(s) \/ SetupSetReport(s) \/ SetupOtherHid(s) \/ SetupNonStandard(s)
    BY <1>3, <1>5, <2>4 DEF SetupSetIdle, SetupSetReport, SetupOtherHid, SetupNonStandard, Ep0TypeOK
  <2> QED BY <1>1, <2>1, <2>2, <2>3, <2>4 DEF SetupToken, SetupStandard
<1> HIDE DEF Fields
<1>7. USB_EP0_SETUP' = request /\ UNCHANGED <<report06Vars, USB_DEV_AD>>
  BY <1>1 DEF SetupToken
<1> QED BY <1>1, <1>6, <1>7 DEF Ep0TypeOK, report06Vars, Fields

LEMMA IsrEp0Types == ASSUME TypeInv, MailboxInv, MailboxInv', IsrEp0 PROVE TypeInv'
<1>0. SieTypeOK /\ Ep0TypeOK /\ Host0TypeOK /\ Ep1TypeOK /\ LoopTypes
  BY TypeParts DEF TypeInv
<1> USE DEF IsrEp0, ClearTransfer
<1>1. Ep0TypeOK'
  <2>1. CASE USB_INT_ST[1] = "SETUP" /\ SetupToken
    <3>1. SetupPending
      BY <2>1 DEF MailboxInv, Types, Token, SetupPending
    <3> QED BY <1>0, <2>1, <3>1, SetupTypes
  <2>2. CASE InToken
    <3>1. UNCHANGED <<USB_EP0_SETUP, USB_CONFIGURATION, USB_IDLE_SETTING, report06Vars>>
      BY <2>2 DEF InToken
    <3>2. CASE InDescriptor
      <4>1. PICK cur \in 0 .. 8 : /\ cur <= txLen /\ txLen' = txLen - cur /\ UEP0_T_LEN' = cur
                                  /\ txPtr' = [txPtr EXCEPT !.from = @ + cur]
        BY <1>0, <3>2 DEF InDescriptor, Ep0TypeOK, Minimum
      <4>2. txPtr' \in InPackets /\ txLen' \in 0 .. 255
        BY <1>0, <4>1 DEF Ep0TypeOK, InPackets
      <4>3. UEP0_CTRL' \in [r : {"ACK", "NAK", "STALL"}, t : {"ACK", "NAK", "STALL"}, ttog : {0, 1}]
        BY <1>0, <3>2 DEF InDescriptor, Ep0TypeOK
      <4> QED BY <1>0, <3>1, <3>2, <4>1, <4>2, <4>3 DEF InDescriptor, Ep0TypeOK, report06Vars
    <3>3. CASE InOther
      <4>1. USB_EP0_SETUP.valueL \in Nat
        BY <1>0, SizeType DEF Ep0TypeOK
      <4>2. USB_DEV_AD' \in Nat
        BY <1>0, <3>3, <4>1 DEF InOther, Ep0TypeOK
      <4> QED BY <1>0, <3>1, <3>3, <4>2 DEF InOther, NoData, Ctrl0, Ep0TypeOK, report06Vars
    <3> QED BY <2>2, <3>2, <3>3 DEF InToken
  <2>3. CASE OutToken
    <3>1. UEP0_T_LEN' \in 0 .. 8
          /\ UEP0_CTRL' \in [r : {"ACK", "NAK", "STALL"}, t : {"ACK", "NAK", "STALL"}, ttog : {0, 1}]
      BY <1>0, <2>3 DEF OutToken, OutSetReport, Ctrl0, Ep0TypeOK
    <3>2. UNCHANGED <<ep0FwVars, USB_EP0_BUF, USB_DEV_AD>>
      BY <2>3 DEF OutToken
    <3> QED BY <1>0, <3>1, <3>2 DEF Ep0TypeOK, ep0FwVars, MailboxInv, Types
  <2> QED BY <2>1, <2>2, <2>3 DEF usb_handle_EP0
<1>2. running' \in BOOLEAN
  <2>1. SetupToken \/ InToken => running' \in BOOLEAN
    BY <1>0 DEF SetupToken, InToken, SieTypeOK
  <2>2. OutToken => running' \in BOOLEAN
    BY <1>0 DEF OutToken, OutSetReport, SieTypeOK
  <2> QED BY <2>1, <2>2 DEF usb_handle_EP0
<1>3. SieTypeOK'
  <2>1. UIF_TRANSFER' \in BOOLEAN /\ UIF_SUSPEND' \in BOOLEAN
    OBVIOUS
  <2> QED BY <1>0, <1>2, <2>1 DEF SieTypeOK
<1>4. Ep1TypeOK'
  BY <1>0 DEF Ep1TypeOK, ep1RegVars, ep1FwVars, host1Vars
<1>5. Known'
  BY DEF TypeInv, Known, host0Vars
<1> QED BY <1>0, <1>1, <1>3, <1>4, <1>5, TypeFrames, TypeParts DEF TypeInv

LEMMA IsrTypes == ASSUME TypeInv, MailboxInv, MailboxInv', usb_isr PROVE TypeInv'
<1>0. SieTypeOK /\ Ep0TypeOK /\ Host0TypeOK /\ Ep1TypeOK /\ LoopTypes
  BY TypeParts DEF TypeInv
<1>1. CASE IsrEp1
  <2> USE <1>1 DEF IsrEp1, ClearTransfer
  <2>1. UIF_TRANSFER' \in BOOLEAN /\ UIF_SUSPEND' \in BOOLEAN
    OBVIOUS
  <2>2. SieTypeOK'
    BY <1>0, <2>1 DEF SieTypeOK
  <2>3. Ep1TypeOK'
    BY <1>0 DEF usb_handle_EP1, Ep1TypeOK, ep1FwVars, host1Vars
  <2> QED BY <1>0, <2>2, <2>3, TypeFrames, TypeParts DEF TypeInv, Known, host0Vars
<1>2. CASE IsrSuspend
  <2> USE <1>2 DEF IsrSuspend
  <2>1. UIF_SUSPEND' \in BOOLEAN
    OBVIOUS
  <2>2. SieTypeOK'
    BY <1>0, <2>1 DEF SieTypeOK
  <2>3. Ep0TypeOK'
    BY <1>0 DEF Ep0TypeOK, Nak0, Ctrl0, report06Vars, ep0FwVars
  <2> QED BY <1>0, <2>2, <2>3, TypeFrames, TypeParts DEF TypeInv, Known, host0Vars
<1>3. CASE IsrBusReset
  <2> USE <1>3 DEF IsrBusReset
  <2>1. UIF_BUS_RST' \in BOOLEAN
    OBVIOUS
  <2>2. SieTypeOK'
    BY <1>0, <2>1 DEF SieTypeOK
  <2>3. Ep0TypeOK'
    BY <1>0 DEF Ep0BusReset, Ep0TypeOK, Nak0, Ctrl0, report06Vars, ep0FwVars
  <2>4. Ep1TypeOK'
    BY <1>0 DEF Ep1BusReset, Ep1TypeOK, Nak1, ep1FwVars
  <2> QED BY <1>0, <2>2, <2>3, <2>4, TypeFrames, TypeParts DEF TypeInv, Known, host0Vars
<1> QED BY <1>1, <1>2, <1>3, IsrEp0Types DEF usb_isr

\* The SIE's side of any transaction
LEMMA TransactionTypes ==
    ASSUME SieTypeOK, MailboxInv', UNCHANGED <<E_DIS, UIF_SUSPEND, UIF_BUS_RST, running>>,
           faults' \in 0 .. MaxFaults
    PROVE  SieTypeOK'
BY DEF SieTypeOK, MailboxInv, Types

LEMMA FaultTypes ==
    ASSUME SieTypeOK, NEW lost \in BOOLEAN, Fault(lost)
    PROVE  faults' \in 0 .. MaxFaults /\ faults' <= faults /\ (lost => faults' < MaxFaults)
<1>1. faults \in Nat /\ faults <= MaxFaults
  BY MaxFaultsAssumption DEF SieTypeOK
<1>2. CASE lost
  BY <1>1, <1>2, MaxFaultsAssumption DEF Fault
<1>3. CASE ~lost
  BY <1>1, <1>3, MaxFaultsAssumption DEF Fault
<1> QED BY <1>2, <1>3

LEMMA Host0Types ==
    ASSUME TypeInv, MailboxInv, MailboxInv', Host0Next, UNCHANGED <<ep1Vars, loopVars>>
    PROVE  TypeInv'
<1>0. SieTypeOK /\ Ep0TypeOK /\ Host0TypeOK /\ Ep1TypeOK /\ LoopTypes
  BY TypeParts DEF TypeInv
<1>1. Ep1TypeOK' /\ LoopTypes'
  BY <1>0, TypeFrames
<1>2. rep' \in 1 .. NumReports /\ part' \in Offsets /\ sync' \in {"ok", "lost", "catching"}
  BY DEF MailboxInv, Types
<1>3. faults \in 0 .. MaxFaults /\ faults' = faults => faults' \in 0 .. MaxFaults
  OBVIOUS
<1>4. ASSUME NEW s \in Requests, HostSetup(s) PROVE TypeInv'
  <2>1. SieTypeOK'
    BY <1>0, <1>4, TransactionTypes DEF HostSetup, Transaction, SieTypeOK
  <2>2. Ep0TypeOK'
    BY <1>0, <1>4 DEF HostSetup, Ep0TypeOK, ep0FwVars, report06Vars, AnyRequest
  <2>3. stage' \in Stage
    BY <1>4, RequestsAssumption DEF HostSetup, FirstStage, Stage
  <2>4. Host0TypeOK' /\ Known'
    BY <1>0, <1>2, <1>4, <2>3 DEF HostSetup, Host0TypeOK, Known, AnyRequest
  <2> QED BY <1>1, <2>1, <2>2, <2>4, TypeParts DEF TypeInv
<1>5. ASSUME NEW lost \in BOOLEAN, HostIn(lost) PROVE TypeInv'
  <2>1. faults' \in 0 .. MaxFaults
    BY <1>0, <1>5, FaultTypes DEF HostIn
  <2>2. SieTypeOK'
    BY <1>0, <1>5, <2>1, TransactionTypes DEF HostIn, Transaction
  <2>3. received' \in Nat /\ hostTog0' \in {0, 1} /\ stage' \in Stage
    BY <1>0, <1>5 DEF HostIn, Host0TypeOK, Ep0TypeOK, Stage
  <2>4. Host0TypeOK' /\ Known'
    BY <1>0, <1>2, <1>5, <2>3 DEF HostIn, Host0TypeOK, TypeInv, Known
  <2> QED BY <1>0, <1>1, <1>5, <2>2, <2>4, TypeFrames, TypeParts DEF HostIn, TypeInv
<1>6. ASSUME NEW lost \in BOOLEAN, HostOut(lost) PROVE TypeInv'
  <2>1. faults' \in 0 .. MaxFaults
    BY <1>0, <1>6, FaultTypes DEF HostOut
  <2>2. SieTypeOK'
    BY <1>0, <1>6, <2>1, TransactionTypes DEF HostOut, Transaction
  <2>3. request \in Requests /\ <<rep, part>> \in Chunk
    BY <1>6, NumReportsAssumption DEF HostOut, TypeInv, Known, MailboxInv, Types, Chunk
  <2>4. USB_EP0_BUF' \in OutPackets
    BY <1>6, <2>3 DEF HostOut, OutPacket, OutPackets
  <2>5. Ep0TypeOK'
    BY <1>0, <1>6, <2>4 DEF HostOut, Ep0TypeOK, ep0FwVars, report06Vars
  <2>6. Host0TypeOK' /\ Known'
    BY <1>0, <1>2, <1>6 DEF HostOut, Host0TypeOK, TypeInv, Known, Stage
  <2> QED BY <1>1, <2>2, <2>5, <2>6, TypeParts DEF TypeInv
<1>7. ASSUME NEW lost \in BOOLEAN, HostStatusOut(lost) \/ HostStatusIn(lost) PROVE TypeInv'
  <2>0. faults' \in 0 .. MaxFaults
    BY <1>0, <1>7, FaultTypes DEF HostStatusOut, HostStatusIn
  <2>1. SieTypeOK'
    BY <1>0, <1>7, <2>0, TransactionTypes DEF HostStatusOut, HostStatusIn, Transaction
  <2>2. request.valueL \in Nat
    BY <1>0, SizeType DEF Host0TypeOK
  <2>3. hostAddr' \in Nat /\ configured' \in BOOLEAN /\ unconfirmed' \in BOOLEAN
    <3>1. CASE HostStatusOut(lost)
      BY <1>0, <3>1 DEF HostStatusOut, Host0TypeOK
    <3>2. CASE HostStatusIn(lost)
      <4>1. hostAddr' \in Nat /\ configured' \in BOOLEAN
        BY <1>0, <2>2, <3>2 DEF HostStatusIn, Host0TypeOK
      <4>2. unconfirmed' = lost \/ unconfirmed' = unconfirmed
        BY <3>2 DEF HostStatusIn
      <4> QED BY <1>0, <4>1, <4>2 DEF Host0TypeOK
    <3> QED BY <1>7, <3>1, <3>2
  <2>4. UNCHANGED <<request, received, hostTog0>> /\ (stage' = "idle" \/ stage' = stage)
    BY <1>7 DEF HostStatusOut, HostStatusIn
  <2>5. Host0TypeOK' /\ Known'
    BY <1>0, <1>2, <2>3, <2>4 DEF Host0TypeOK, TypeInv, Known, Stage
  <2> QED BY <1>0, <1>1, <1>7, <2>1, <2>5, TypeFrames, TypeParts DEF HostStatusOut, HostStatusIn, TypeInv
<1>8. CASE HostStalled \/ HostTimeout \/ HostAbort \/ HostRestart
  <2>1. SieTypeOK'
    BY <1>0, <1>8, MaxFaultsAssumption
    DEF HostStalled, HostTimeout, HostAbort, HostRestart, sieVars, SieTypeOK
  <2>2. UNCHANGED <<request, received, hostTog0, hostAddr, unconfirmed, configured, ep0Vars>>
        /\ stage' = "idle"
    BY <1>8 DEF HostStalled, HostTimeout, HostAbort, HostRestart, HostGivesUp
  <2>3. Host0TypeOK' /\ Known'
    BY <1>0, <1>2, <2>2 DEF Host0TypeOK, Known, Stage
  <2> QED BY <1>0, <1>1, <2>1, <2>2, <2>3, TypeFrames, TypeParts DEF TypeInv
<1> QED BY <1>4, <1>5, <1>6, <1>7, <1>8 DEF Host0Next

LEMMA BusTypes == ASSUME TypeInv, MailboxInv, MailboxInv', Bus PROVE TypeInv'
<1>0. SieTypeOK /\ Ep0TypeOK /\ Host0TypeOK /\ Ep1TypeOK /\ LoopTypes
  BY TypeParts DEF TypeInv
<1>1. ASSUME NEW lost \in BOOLEAN, HostEp1(lost) PROVE TypeInv'
  <2> USE <1>1 DEF HostEp1, HostPollsEp1
  <2>1. faults' \in 0 .. MaxFaults
    BY <1>0, FaultTypes
  <2>2. SieTypeOK'
    BY <1>0, <2>1, TransactionTypes DEF Transaction
  <2>3. host1Vars' = host1Vars \/ Accept
    OBVIOUS
  <2>4. Ep1TypeOK'
    BY <1>0, <2>3 DEF Accept, Ep1TypeOK, Ep1Packet, ep1RegVars, ep1FwVars, host1Vars
  <2> QED BY <1>0, <2>2, <2>4, TypeFrames, TypeParts DEF TypeInv, Known, host0Vars
<1>2. CASE BusReset
  <2> USE <1>2 DEF BusReset
  <2>1. UIF_BUS_RST' \in BOOLEAN /\ configured' \in BOOLEAN /\ unconfirmed' \in BOOLEAN
    BY DEF Host0BusReset
  <2>0. faults' \in 0 .. MaxFaults
    BY <1>0, FaultTypes DEF Host0TypeOK
  <2>2. SieTypeOK'
    BY <1>0, <2>0, <2>1 DEF SieTypeOK
  <2>3. Host0TypeOK' /\ Known'
    BY <1>0, <2>1 DEF Host0BusReset, Host0TypeOK, Known, Stage
  <2>4. Ep1TypeOK'
    BY <1>0 DEF Ep1TypeOK, ep1RegVars, ep1FwVars
  <2> QED BY <1>0, <2>2, <2>3, <2>4, TypeFrames, TypeParts DEF TypeInv
<1>3. CASE Suspend
  <2> USE <1>3 DEF Suspend
  <2>1. UIF_SUSPEND' \in BOOLEAN
    OBVIOUS
  <2>2. SieTypeOK'
    BY <1>0, <2>1, MaxFaultsAssumption DEF SieTypeOK
  <2> QED BY <1>0, <2>2, TypeFrames, TypeParts DEF TypeInv, Known, host0Vars
<1> QED BY <1>1, <1>2, <1>3, Host0Types DEF Bus

\* Every variable of the USB device stays in its range, in particular each array
\* index, length register and handshake (usb.c), for every instance.
THEOREM UsbTypeInvariant == Spec => []TypeInv
<1>1. Init => TypeInv
  BY InitTypes
<1>2. TypeInv /\ MailboxInv /\ MailboxInv' /\ [Next]_vars => TypeInv'
  <2> SUFFICES ASSUME TypeInv, MailboxInv, MailboxInv', [Next]_vars PROVE TypeInv'
    OBVIOUS
  <2>1. CASE MainLoop
    BY <2>1, LoopKeepsTypes, LoopFrame DEF TypeInv, Known, host0Vars
  <2>2. CASE timer0_isr
    <3>1. ticks' \in Tick
      BY <2>2, TickModAssumption, TypeParts DEF TypeInv, timer0_isr, NextTick, USHRT_MAX, Tick, LoopTypes
    <3>2. LoopTypes'
      BY <2>2, <3>1, TypeParts DEF TypeInv, timer0_isr, LoopTypes, reportVars
    <3> QED BY <2>2, <3>2, TypeParts, TypeFrames DEF TypeInv, timer0_isr, Known, host0Vars
  <2>3. CASE UNCHANGED vars
    BY <2>3, TypeParts, TypeFrames DEF TypeInv, vars, Known, host0Vars
  <2> QED BY <2>1, <2>2, <2>3, IsrTypes, BusTypes DEF Next
<1> QED BY <1>1, <1>2, MailboxInvariant, PTL DEF Spec

\* TypeOK holds in every reachable state.
THEOREM UsbTypeOK == Spec => []TypeOK
<1>1. TypeInv => TypeOK
  BY DEF TypeInv
<1> QED BY <1>1, UsbTypeInvariant, PTL

-----------------------------------------------------------------------------
(* The control transfers *)

\* What the steps below may rely on
Typed == TypeInv /\ MailboxInv

LEMMA TypedFacts ==
    ASSUME Typed
    PROVE  /\ UEP0_T_LEN \in 0 .. 8 /\ UEP0_CTRL.ttog \in {0, 1}
           /\ txLen \in Nat /\ txPtr \in InPackets /\ received \in Nat /\ hostTog0 \in {0, 1}
           /\ faults \in 0 .. MaxFaults /\ USB_INT_ST \in Token /\ stage \in Stage
           /\ request \in AnyRequest
           /\ ~SetupPending => USB_EP0_SETUP = request
           /\ SetupPending => USB_EP0_BUF = request
BY DEF Typed, TypeInv, TypeOK, SieTypeOK, Ep0TypeOK, Host0TypeOK, MailboxInv, Linked

LEMMA InitControlInv == Init => ControlInv
<1> SUFFICES ASSUME Init PROVE ControlInv
    OBVIOUS
<1>1. stage = "idle" /\ ~SetupPending /\ ~InPending /\ ~OutPending /\ ~UIF_BUS_RST
      /\ USB_DEV_AD = 0 /\ hostAddr = 0
  BY DEF Init, SieInit, Ep0Init, Host0Init, SetupPending, InPending, OutPending
<1> QED BY <1>1 DEF ControlInv, Staged, Addressed, Agreed, Writing, Reading

\* Once a transfer is over only the address matters.
LEMMA IdleKeeps ==
    ASSUME ControlInv, stage' = "idle", Addressed'
    PROVE  ControlInv'
BY DEF ControlInv, Staged, Writing, Reading

\* A step that endpoint 0 does not take part in
controlVars ==
    <<ep0RegVars, txPtr, txLen, stage, request, received, hostTog0, hostAddr, unconfirmed, UIF_BUS_RST>>

LEMMA ElsewhereKeeps ==
    ASSUME ControlInv, Typed, UNCHANGED controlVars, faults' \in Nat, faults' <= faults,
           SetupPending' <=> SetupPending, InPending' <=> InPending, OutPending' <=> OutPending,
           UIF_SUSPEND' => UIF_SUSPEND \/ stage = "idle"
    PROVE  ControlInv'
<1>0. faults \in Nat /\ MaxFaults \in Nat
  BY TypedFacts, MaxFaultsAssumption
<1> USE DEF controlVars, ep0RegVars
<1>1. IsUnknownOut(request') = IsUnknownOut(request) /\ IsOtherHid(request') = IsOtherHid(request)
      /\ IsSetReport(request') = IsSetReport(request)
  OBVIOUS
<1>2. Staged' /\ Addressed'
  BY DEF ControlInv, Staged, Addressed, Agreed, IsSetAddress
<1>3. StatusAnswer' <=> StatusAnswer
  BY <1>1 DEF StatusAnswer
<1>4. Writing'
  BY <1>0, <1>1, <1>3 DEF ControlInv, Writing
<1>5. Cursor' <=> Cursor
  BY DEF Cursor
<1>6. Reading'
  BY <1>5 DEF ControlInv, Reading
<1> QED BY <1>2, <1>4, <1>6 DEF ControlInv

-----------------------------------------------------------------------------
(* The handler *)

\* A request for data is answered with data, a descriptor from its beginning,
\* or stalled (usb.c:355-443).
LEMMA SetupReads ==
    ASSUME NEW s \in Requests, USB_EP0_BUF = s, SetupToken, s.dir = "in", s.length # 0
    PROVE  \/ UEP0_CTRL'.t = "STALL"
           \/ /\ UEP0_CTRL'.t = "ACK" /\ UEP0_CTRL'.r = "ACK" /\ UEP0_CTRL'.ttog = 1
              /\ \/ /\ IsDescriptor(s)
                    /\ \E cur \in 0 .. 8 :
                         /\ txPtr' = InPacket(s, cur) /\ txLen' = Size(s) - cur
                         /\ cur <= Size(s) /\ (cur < 8 => cur = Size(s))
                         /\ UEP0_T_LEN' = cur /\ USB_EP0_BUF' = InPacket(s, 0)
                 \/ s.req # "GET_DESCRIPTOR" /\ UEP0_T_LEN' < 8
<1>0. ~HidRequest(s) /\ ~(s.typ = "standard" /\ s.req = "SET_ADDRESS")
  BY WellFormedAssumption DEF HidRequest
<1> USE DEF Answer, Ctrl0, Nak0
<1>1. CASE SetupStandard(s)
  <2>1. CASE SetupGetDescriptor(s)
    <3> DEFINE cur == Minimum(Size(s), 8)
    <3>1. Size(s) \in 0 .. 46
      BY SizeType DEF AnyRequest
    <3>2. cur \in 0 .. 8 /\ cur <= Size(s) /\ (cur < 8 => cur = Size(s))
      BY <3>1 DEF Minimum
    <3>3. txPtr' = InPacket(s, cur) /\ txLen' = Size(s) - cur /\ UEP0_T_LEN' = cur
          /\ USB_EP0_BUF' = InPacket(s, 0)
      BY <2>1 DEF SetupGetDescriptor, Size
    <3>4. IsDescriptor(s)
      BY <1>1, <2>1 DEF SetupGetDescriptor, SetupStandard, IsDescriptor
    <3>5. UEP0_CTRL'.t = "ACK" /\ UEP0_CTRL'.r = "ACK" /\ UEP0_CTRL'.ttog = 1
      BY <2>1 DEF SetupGetDescriptor
    <3> HIDE DEF cur
    <3> QED BY <3>2, <3>3, <3>4, <3>5
  <2>2. CASE SetupNoDescriptor(s) \/ SetupUnsupported(s)
    BY <2>2 DEF SetupNoDescriptor, SetupUnsupported
  <2>3. CASE SetupGetValue(s) \/ SetupSetConfiguration(s)
    BY <2>3 DEF SetupGetValue, SetupSetConfiguration
  <2>4. CASE SetupUnknown(s)
    BY <2>4 DEF SetupUnknown
  <2>5. CASE SetupSetAddress(s)
    BY <1>0, <1>1, <2>5 DEF SetupSetAddress, SetupStandard
  <2> QED BY <1>1, <2>1, <2>2, <2>3, <2>4, <2>5 DEF SetupStandard
<1>2. CASE SetupNonStandard(s)
  BY <1>2 DEF SetupNonStandard
<1>3. CASE SetupSetIdle(s) \/ SetupSetReport(s) \/ SetupOtherHid(s)
  BY <1>0, <1>3 DEF SetupSetIdle, SetupSetReport, SetupOtherHid
<1> QED BY <1>1, <1>2, <1>3 DEF SetupToken

\* A request without data from the device is given an empty packet for its
\* status stage, stalled, or left alone (usb.c:397-462).
LEMMA SetupWrites ==
    ASSUME NEW s \in Requests, USB_EP0_BUF = s, request = s, request' = s, SetupToken,
           s.dir = "out" \/ s.length = 0
    PROVE  /\ StatusAnswer'
           /\ s.dir = "out" /\ s.length # 0 =>
                \/ UEP0_CTRL'.r \in {"STALL", "ACK"}
                \/ UEP0_CTRL'.r = "NAK" /\ (IsUnknownOut(s) \/ IsOtherHid(s))
<1>0. /\ s.typ = "standard" /\ s.req = "GET_DESCRIPTOR" => s.dir = "in"
      /\ s.typ = "standard" /\ s.req \in {"GET_STATUS", "GET_CONFIGURATION"} => s.dir = "in" /\ s.length # 0
      /\ HidRequest(s) /\ s.req = "SET_IDLE" => s.length = 0
      /\ s.dir \in {"in", "out"}
  BY WellFormedAssumption, RequestsAssumption
<1> USE DEF Answer, Ctrl0, Nak0, StatusAnswer
<1>1. CASE SetupStandard(s)
  <2>0. s.typ = "standard"
    BY <1>1 DEF SetupStandard
  <2>1. CASE SetupGetDescriptor(s)
    <3>1. s.length = 0 /\ s.dir = "in"
      BY <1>0, <2>0, <2>1 DEF SetupGetDescriptor
    <3>2. Minimum(Minimum(DescLen(s), s.length % 256), 8) = 0
      BY <3>1, DescLenType DEF Minimum
    <3>3. UEP0_T_LEN' = 0
      BY <2>1, <3>2 DEF SetupGetDescriptor
    <3>4. UEP0_CTRL'.t = "ACK" /\ UEP0_CTRL'.ttog = 1
      BY <2>1 DEF SetupGetDescriptor
    <3> QED BY <2>0, <3>1, <3>3, <3>4
  <2>2. CASE SetupNoDescriptor(s) \/ SetupUnsupported(s)
    BY <2>2 DEF SetupNoDescriptor, SetupUnsupported
  <2>3. CASE SetupGetValue(s)
    BY <1>0, <2>0, <2>3 DEF SetupGetValue
  <2>4. CASE SetupSetAddress(s) \/ SetupSetConfiguration(s)
    BY <2>0, <2>4 DEF SetupSetAddress, SetupSetConfiguration
  <2>5. CASE SetupUnknown(s)
    BY <1>0, <2>0, <2>5 DEF SetupUnknown, IsUnknownOut
  <2> QED BY <1>1, <2>1, <2>2, <2>3, <2>4, <2>5 DEF SetupStandard
<1>2. CASE SetupNonStandard(s)
  BY <1>2 DEF SetupNonStandard
<1>3. CASE SetupSetIdle(s) \/ SetupSetReport(s)
  BY <1>0, <1>3 DEF SetupSetIdle, SetupSetReport
<1>4. CASE SetupOtherHid(s)
  BY <1>4 DEF SetupOtherHid, IsOtherHid
<1> QED BY <1>1, <1>2, <1>3, <1>4 DEF SetupToken

LEMMA IsrSetupControls ==
    ASSUME ControlInv, Typed, IsrEp0, SetupPending, Staged', Addressed'
    PROVE  ControlInv'
<1>1. SetupToken /\ USB_EP0_BUF = request
  BY TypedFacts DEF IsrEp0, usb_handle_EP0, SetupPending
<1>2. UNCHANGED <<stage, request, received, hostTog0, faults>>
      /\ ~SetupPending' /\ ~InPending' /\ ~OutPending'
  BY DEF IsrEp0, ClearTransfer, host0Vars, SetupPending, InPending, OutPending
<1>3. CASE stage = "idle"
  BY <1>2, <1>3 DEF ControlInv, Writing, Reading
<1>4. CASE stage # "idle"
  <2> DEFINE s == request
  <2>1. s \in Requests /\ stage = FirstStage(s) /\ received = 0 /\ hostTog0 = 1
    BY <1>4 DEF ControlInv, Staged
  <2>2. s.dir \in {"in", "out"} /\ s.length \in Nat /\ Size(s) \in Nat
    BY <2>1, RequestsAssumption, SizeType DEF AnyRequest
  <2>3. CASE s.length # 0 /\ s.dir = "in"
    <3>1. stage = "in" /\ stage' = "in"
      BY <1>2, <2>1, <2>3 DEF FirstStage
    <3>2. CASE UEP0_CTRL'.t = "STALL"
      BY <1>2, <3>1, <3>2 DEF ControlInv, Writing, Reading
    <3>3. CASE UEP0_CTRL'.t # "STALL"
      <4>1. UEP0_CTRL'.t = "ACK" /\ UEP0_CTRL'.r = "ACK" /\ UEP0_CTRL'.ttog = 1
        BY <1>1, <2>1, <2>3, <3>3, SetupReads
      <4>2. CASE s.req # "GET_DESCRIPTOR" /\ UEP0_T_LEN' < 8
        BY <1>2, <2>1, <3>1, <4>1, <4>2 DEF ControlInv, Writing, Reading
      <4>3. CASE ~(s.req # "GET_DESCRIPTOR" /\ UEP0_T_LEN' < 8)
        <5>1. PICK cur \in 0 .. 8 :
                 /\ txPtr' = InPacket(s, cur) /\ txLen' = Size(s) - cur
                 /\ cur <= Size(s) /\ (cur < 8 => cur = Size(s))
                 /\ UEP0_T_LEN' = cur /\ USB_EP0_BUF' = InPacket(s, 0)
          BY <1>1, <2>1, <2>3, <3>3, <4>3, SetupReads
        <5>2. IsDescriptor(request')
          BY <1>1, <1>2, <2>1, <2>3, <3>3, <4>3, SetupReads
        <5>3. txPtr'.answers = s /\ txPtr'.from = cur
          BY <5>1 DEF InPacket
        <5>4. Size(s)' = Size(s) /\ cur - cur = 0 /\ cur + (Size(s) - cur) = Size(s)
          BY <1>2, <2>2, <5>1
        <5>5. UEP0_T_LEN' < 8 => txLen' = 0
          BY <2>2, <5>1
        <5>6. Cursor'
          BY <1>2, <2>1, <4>1, <5>1, <5>3, <5>4, <5>5 DEF Cursor
        <5> QED BY <1>2, <3>1, <4>1, <5>2, <5>6 DEF ControlInv, Writing, Reading
      <4> QED BY <4>2, <4>3
    <3> QED BY <3>2, <3>3
  <2>4. CASE s.length = 0 \/ s.dir = "out"
    <3>1. stage \in {"status_in", "out"} /\ stage' = stage
          /\ (stage = "out" => s.dir = "out" /\ s.length # 0)
      BY <1>2, <2>1, <2>2, <2>4 DEF FirstStage
    <3>2. /\ StatusAnswer'
          /\ s.dir = "out" /\ s.length # 0 =>
                \/ UEP0_CTRL'.r \in {"STALL", "ACK"}
                \/ UEP0_CTRL'.r = "NAK" /\ (IsUnknownOut(s) \/ IsOtherHid(s))
      BY <1>1, <1>2, <2>1, <2>4, SetupWrites
    <3>3. IsUnknownOut(request') = IsUnknownOut(s) /\ IsOtherHid(request') = IsOtherHid(s)
      BY <1>2
    <3>4. Writing'
      BY <1>2, <3>1, <3>2, <3>3 DEF Writing
    <3>5. Reading'
      BY <3>1 DEF Reading
    <3> QED BY <3>4, <3>5 DEF ControlInv
  <2> QED BY <2>2, <2>3, <2>4
<1> QED BY <1>3, <1>4

\* The next part of a descriptor, or the end of a transfer (usb.c:468-490)
LEMMA IsrInControls ==
    ASSUME ControlInv, Typed, IsrEp0, InPending, Staged', Addressed'
    PROVE  ControlInv'
<1>1. InToken /\ USB_EP0_SETUP = request
  BY TypedFacts DEF IsrEp0, usb_handle_EP0, InPending, SetupPending
<1>2. UNCHANGED <<stage, request, received, hostTog0, faults>>
      /\ ~SetupPending' /\ ~InPending' /\ ~OutPending'
  BY DEF IsrEp0, ClearTransfer, host0Vars, SetupPending, InPending, OutPending
<1>3. stage \in {"idle", "in", "status_out"} /\ ~SetupPending
  BY DEF ControlInv, Staged, InPending, SetupPending
<1>4. Writing'
  BY <1>2, <1>3 DEF Writing
<1>5. CASE stage = "in"
  <2>1. UEP0_CTRL.t = "ACK" /\ UEP0_CTRL.r = "ACK" /\ IsDescriptor(request) /\ Cursor
    BY <1>3, <1>5 DEF ControlInv, Reading
  <2>2. InDescriptor
    BY <1>1, <2>1 DEF InToken, InOther, IsDescriptor
  <2> DEFINE cur == Minimum(txLen, 8)
  <2>3. cur \in 0 .. 8 /\ cur <= txLen /\ (cur < 8 => cur = txLen)
    BY TypedFacts DEF Minimum
  <2>4. /\ USB_EP0_BUF' = txPtr /\ txPtr' = [txPtr EXCEPT !.from = @ + cur] /\ txLen' = txLen - cur
        /\ UEP0_T_LEN' = cur /\ UEP0_CTRL' = [UEP0_CTRL EXCEPT !.ttog = 1 - @]
    BY <2>2 DEF InDescriptor
  <2> HIDE DEF cur
  <2>5. UEP0_CTRL \in [r : {"ACK", "NAK", "STALL"}, t : {"ACK", "NAK", "STALL"}, ttog : {0, 1}]
    BY DEF Typed, TypeInv, TypeOK, Ep0TypeOK
  <2>6. UEP0_CTRL'.t = "ACK" /\ UEP0_CTRL'.r = "ACK" /\ UEP0_CTRL'.ttog = 1 - UEP0_CTRL.ttog
    BY <2>1, <2>4, <2>5
  <2>7. UEP0_CTRL.ttog # hostTog0 /\ UEP0_CTRL.ttog \in {0, 1} /\ hostTog0 \in {0, 1}
    BY <2>1, TypedFacts DEF Cursor
  <2>8. UEP0_CTRL'.ttog = hostTog0'
    BY <1>2, <2>6, <2>7
  <2>9. txPtr.answers = request /\ txPtr.from \in Nat /\ txPtr = InPacket(request, txPtr.from)
    BY <2>1, TypedFacts DEF Cursor, InPacket, InPackets
  <2>10. txPtr'.answers = request /\ txPtr'.from = txPtr.from + cur
    BY <2>4, <2>9 DEF InPacket
  <2>11. txPtr'.from - UEP0_T_LEN' = txPtr.from /\ UEP0_T_LEN' <= txPtr'.from
         /\ txPtr'.from + txLen' = txPtr.from + txLen /\ (UEP0_T_LEN' < 8 => txLen' = 0)
    BY <2>3, <2>4, <2>9, <2>10, TypedFacts
  <2>12. received = txPtr.from /\ txPtr.from + txLen = Size(request)
    BY <2>1, <2>7 DEF Cursor
  <2>13. Size(request') = Size(request) /\ IsDescriptor(request')
    BY <1>2, <2>1
  <2>14. Cursor'
    BY <1>2, <2>4, <2>8, <2>9, <2>10, <2>11, <2>12, <2>13 DEF Cursor
  <2>15. Reading'
    BY <1>2, <1>5, <2>6, <2>13, <2>14 DEF Reading
  <2> QED BY <1>4, <2>15 DEF ControlInv
<1>6. CASE stage # "in"
  <2>1. stage = "status_out" => UEP0_CTRL.r = "ACK"
    BY DEF ControlInv, Reading
  <2>2. UEP0_CTRL \in [r : {"ACK", "NAK", "STALL"}, t : {"ACK", "NAK", "STALL"}, ttog : {0, 1}]
    BY DEF Typed, TypeInv, TypeOK, Ep0TypeOK
  <2>3. UEP0_CTRL'.r = UEP0_CTRL.r \/ UEP0_CTRL'.r = "ACK"
    BY <1>1, <2>2 DEF InToken, InDescriptor, InOther, Ctrl0
  <2>4. Size(request') = Size(request)
    BY <1>2
  <2>5. Reading'
    BY <1>2, <1>6, <2>1, <2>3, <2>4 DEF ControlInv, Reading
  <2> QED BY <1>4, <2>5 DEF ControlInv
<1> QED BY <1>5, <1>6

\* Data of the host, or the status stage of a read (usb.c:493-526)
LEMMA IsrOutControls ==
    ASSUME ControlInv, Typed, IsrEp0, OutPending, Staged', Addressed'
    PROVE  ControlInv'
<1>1. OutToken /\ USB_EP0_SETUP = request
  BY TypedFacts DEF IsrEp0, usb_handle_EP0, OutPending, SetupPending
<1>2. UNCHANGED <<stage, request, received, hostTog0, faults>>
      /\ ~SetupPending' /\ ~InPending' /\ ~OutPending'
  BY DEF IsrEp0, ClearTransfer, host0Vars, SetupPending, InPending, OutPending
<1>3. stage \in {"idle", "out", "status_in", "status_out"} /\ ~SetupPending
  BY DEF ControlInv, Staged, OutPending, SetupPending
<1>4. stage = "status_out" => ~IsSetReport(request)
  BY TypedFacts, RequestType DEF ControlInv, Staged
<1>5. CASE IsSetReport(request)
  <2>0. Reading'
    BY <1>2, <1>3, <1>4, <1>5 DEF Reading
  <2>1. UEP0_T_LEN' = 0 /\ UEP0_CTRL' = Ctrl0("NAK", "ACK", 1)
    BY <1>1, <1>5 DEF OutToken, OutSetReport
  <2>2. StatusAnswer'
    BY <1>2, <1>5, <2>1 DEF StatusAnswer, Ctrl0, IsSetReport
  <2>3. IsSetReport(request') /\ (stage = "out" => faults' < MaxFaults) /\ UEP0_CTRL'.r = "NAK"
    BY <1>2, <1>5, <2>1 DEF ControlInv, Writing, Ctrl0
  <2>4. Writing'
    BY <1>2, <2>2, <2>3 DEF Writing
  <2> QED BY <2>0, <2>4 DEF ControlInv
<1>6. CASE ~IsSetReport(request)
  <2>1. UNCHANGED <<UEP0_T_LEN, UEP0_CTRL>>
    BY <1>1, <1>6 DEF OutToken, OutSetReport
  <2>2. IsUnknownOut(request') = IsUnknownOut(request) /\ IsOtherHid(request') = IsOtherHid(request)
        /\ IsSetReport(request') = IsSetReport(request)
    BY <1>2
  <2>3. StatusAnswer' <=> StatusAnswer
    BY <1>2, <2>1, <2>2 DEF StatusAnswer
  <2>4. Writing'
    BY <1>2, <1>3, <2>1, <2>2, <2>3 DEF ControlInv, Writing
  <2>5. Size(request') = Size(request)
    BY <1>2
  <2>6. Reading'
    BY <1>2, <1>3, <2>1, <2>5 DEF ControlInv, Reading
  <2> QED BY <2>4, <2>6 DEF ControlInv
<1> QED BY <1>5, <1>6

LEMMA IsrEp0Controls == ASSUME ControlInv, Typed, IsrEp0 PROVE ControlInv'
<1>1. UNCHANGED <<stage, request, received, hostTog0, hostAddr, unconfirmed, UIF_BUS_RST>>
      /\ ~UIF_SUSPEND' /\ ~SetupPending' /\ ~InPending' /\ ~OutPending'
  BY DEF IsrEp0, ClearTransfer, host0Vars, SetupPending, InPending, OutPending
<1>2. Staged'
  BY <1>1 DEF ControlInv, Staged
<1>3. SetupPending \/ InPending \/ OutPending
  BY TypedFacts DEF IsrEp0, Token, SetupPending, InPending, OutPending
<1>4. Addressed'
  <2>1. CASE InPending
    <3>1. InToken /\ USB_EP0_SETUP = request
      BY <2>1, TypedFacts DEF IsrEp0, usb_handle_EP0, InPending, SetupPending
    <3>2. USB_DEV_AD' = IF IsSetAddress(request) THEN request.valueL ELSE USB_DEV_AD
      BY <3>1 DEF InToken, InDescriptor, InOther, IsSetAddress
    <3> QED BY <1>1, <2>1, <3>2 DEF ControlInv, Addressed, Agreed
  <2>2. CASE ~InPending
    <3>1. USB_DEV_AD' = USB_DEV_AD
      BY <1>3, <2>2
      DEF IsrEp0, usb_handle_EP0, SetupToken, OutToken, SetupPending, OutPending
    <3> QED BY <1>1, <2>2, <3>1 DEF ControlInv, Addressed, Agreed
  <2> QED BY <2>1, <2>2
<1> QED BY <1>2, <1>3, <1>4, IsrSetupControls, IsrInControls, IsrOutControls

LEMMA IsrControls == ASSUME ControlInv, Typed, usb_isr PROVE ControlInv'
<1>0. faults \in Nat
  BY TypedFacts, MaxFaultsAssumption
<1>1. CASE IsrEp1
  BY <1>0, <1>1, ElsewhereKeeps
  DEF IsrEp1, ClearTransfer, controlVars, ep0Vars, ep0FwVars, host0Vars, SetupPending, InPending, OutPending
<1>2. CASE IsrSuspend
  <2>1. ~SetupPending /\ ~InPending /\ ~InPending'
    BY <1>2 DEF IsrSuspend, SetupPending, InPending
  <2>2. stage' = "idle"
    BY <1>2, <2>1 DEF IsrSuspend, ControlInv, Staged, host0Vars
  <2>3. Addressed'
    BY <1>2, <2>1 DEF IsrSuspend, ControlInv, Addressed, Agreed, host0Vars
  <2> QED BY <1>2, <2>1, <2>2, <2>3
          DEF ControlInv, Staged, Writing, Reading, IsrSuspend, SetupPending, InPending, OutPending
<1>3. CASE IsrBusReset
  <2>1. stage' = "idle" /\ hostAddr' = 0 /\ USB_DEV_AD' = 0 /\ ~UIF_BUS_RST' /\ ~InPending'
    BY <1>3 DEF IsrBusReset, Ep0BusReset, ControlInv, Staged, Addressed, host0Vars, InPending
  <2> QED BY <2>1 DEF ControlInv, Staged, Addressed, Agreed, Writing, Reading
<1> QED BY <1>1, <1>2, <1>3, IsrEp0Controls DEF usb_isr

-----------------------------------------------------------------------------
(* The bus *)

\* The SIE is ready: no transaction waits for the handler.
LEMMA ReadyFacts ==
    ASSUME ControlInv, SieReady
    PROVE  /\ ~SetupPending /\ ~InPending /\ ~OutPending /\ ~UIF_BUS_RST
           /\ Agreed
           /\ UIF_SUSPEND => stage = "idle"
BY DEF SieReady, SetupPending, InPending, OutPending, ControlInv, Addressed, Staged

LEMMA HostSetupControls ==
    ASSUME ControlInv, Typed, NEW s \in Requests, HostSetup(s)
    PROVE  ControlInv'
<1> USE DEF HostSetup, Transaction
<1>1. SetupPending' /\ ~InPending' /\ ~OutPending' /\ ~UIF_BUS_RST'
  BY ReadyFacts DEF SetupPending, InPending, OutPending
<1>2. s.dir \in {"in", "out"}
  BY RequestsAssumption
<1>3. stage' = FirstStage(s) /\ FirstStage(s) \in {"in", "out", "status_in"}
      /\ (FirstStage(s) \in {"in", "out"} => s.length # 0)
  BY <1>2 DEF FirstStage
<1>4. Staged'
  BY <1>1, <1>3 DEF Staged
<1>5. Addressed'
  BY <1>1 DEF Addressed, Agreed, HostMaySend
<1>6. Writing' /\ Reading'
  BY <1>1, <1>3 DEF Writing, Reading
<1> QED BY <1>4, <1>5, <1>6 DEF ControlInv

\* What a packet read by the host does to the transfer
LEMMA HostInControls ==
    ASSUME ControlInv, Typed, NEW lost \in BOOLEAN, HostIn(lost)
    PROVE  ControlInv'
<1> USE DEF HostIn, Transaction
<1>1. ~SetupPending /\ ~InPending /\ ~OutPending /\ ~UIF_BUS_RST /\ ~UIF_SUSPEND /\ Agreed
  BY ReadyFacts
<1>2. ~SetupPending' /\ ~OutPending' /\ ~UIF_BUS_RST' /\ ~UIF_SUSPEND'
  <2>1. CASE lost
    BY <1>1, <2>1 DEF SetupPending, OutPending
  <2>2. CASE ~lost
    BY <1>1, <2>2 DEF SetupPending, OutPending
  <2> QED BY <2>1, <2>2
<1>3. UNCHANGED <<request, hostAddr, unconfirmed, ep0RegVars, txPtr, txLen>> /\ stage' \in {"in", "status_out"}
  BY DEF ep0Vars, ep0FwVars
<1>4. request \in Requests /\ request.length # 0 /\ request.length \in Nat
  BY RequestsAssumption DEF ControlInv, Staged
<1>5. Staged'
  BY <1>2, <1>3, <1>4 DEF Staged
<1>6. Addressed'
  <2>1. ~IsSetAddress(request)
    BY <1>4, WellFormedAssumption DEF IsSetAddress
  <2> QED BY <1>1, <1>2, <1>3, <2>1 DEF ControlInv, Addressed, Agreed, IsSetAddress, ep0RegVars
<1>7. Writing'
  BY <1>3 DEF Writing
<1>8. UEP0_CTRL.t = "ACK" /\ UEP0_CTRL.r = "ACK"
      /\ \/ IsDescriptor(request) /\ Cursor
         \/ request.req # "GET_DESCRIPTOR" /\ UEP0_CTRL.ttog = hostTog0 /\ UEP0_T_LEN < 8
  BY <1>1 DEF ControlInv, Reading
<1>9. UEP0_T_LEN \in 0 .. 8 /\ UEP0_CTRL.ttog \in {0, 1} /\ hostTog0 \in {0, 1} /\ received \in Nat
      /\ txPtr \in InPackets /\ txLen \in Nat
  BY TypedFacts
<1>10. CASE UEP0_CTRL.ttog = hostTog0
  <2>1. received' = received + UEP0_T_LEN /\ hostTog0' = 1 - hostTog0
        /\ stage' = IF UEP0_T_LEN < 8 \/ received + UEP0_T_LEN >= request.length THEN "status_out" ELSE "in"
    BY <1>10
  <2>2. CASE IsDescriptor(request) /\ Cursor
    <3>1. txPtr.from \in Nat /\ Size(request) \in Nat /\ Size(request) <= request.length
      BY <1>4, <1>9, SizeType DEF InPackets, AnyRequest
    <3>2. received' = txPtr.from /\ txPtr.from + txLen = Size(request)
      BY <1>9, <1>10, <2>1, <2>2, <3>1 DEF Cursor
    <3>3. UEP0_CTRL.ttog # hostTog0'
      BY <1>9, <1>10, <2>1
    <3>4. Cursor'
      BY <1>3, <2>2, <3>2, <3>3 DEF Cursor, ep0RegVars
    <3>5. stage' = "status_out" => received' = Size(request)
      <4>1. UEP0_T_LEN < 8 => txLen = 0
        BY <2>2 DEF Cursor
      <4>2. received + UEP0_T_LEN >= request.length => txPtr.from = Size(request)
        BY <1>4, <1>9, <2>1, <3>1, <3>2
      <4> QED BY <1>9, <2>1, <3>1, <3>2, <4>1, <4>2
    <3>6. Size(request') = Size(request) /\ IsDescriptor(request')
      BY <1>3, <2>2
    <3>7. Reading'
      BY <1>3, <1>8, <3>4, <3>5, <3>6 DEF Reading, ep0RegVars
    <3> QED BY <1>5, <1>6, <1>7, <3>7 DEF ControlInv
  <2>3. CASE request.req # "GET_DESCRIPTOR" /\ UEP0_T_LEN < 8
    <3>1. stage' = "status_out"
      BY <2>1, <2>3
    <3>2. Reading'
      BY <1>3, <1>8, <2>3, <3>1 DEF Reading, ep0RegVars
    <3> QED BY <1>5, <1>6, <1>7, <3>2 DEF ControlInv
  <2> QED BY <1>8, <2>2, <2>3
<1>11. CASE UEP0_CTRL.ttog # hostTog0
  <2>1. UNCHANGED <<received, hostTog0, stage>> /\ IsDescriptor(request) /\ Cursor
    BY <1>8, <1>11
  <2>2. Cursor'
    BY <1>3, <1>11, <2>1 DEF Cursor, ep0RegVars
  <2>3. IsDescriptor(request')
    BY <1>3, <2>1
  <2>4. Reading'
    BY <1>3, <1>8, <2>1, <2>2, <2>3 DEF Reading, ep0RegVars
  <2> QED BY <1>5, <1>6, <1>7, <2>4 DEF ControlInv
<1> QED BY <1>10, <1>11

LEMMA HostOutControls ==
    ASSUME ControlInv, Typed, NEW lost \in BOOLEAN, HostOut(lost)
    PROVE  ControlInv'
<1> USE DEF HostOut, Transaction
<1>1. ~SetupPending /\ ~UIF_BUS_RST /\ ~UIF_SUSPEND /\ Agreed
  BY ReadyFacts
<1>2. ~SetupPending' /\ ~InPending' /\ OutPending' /\ ~UIF_BUS_RST' /\ ~UIF_SUSPEND'
  BY <1>1 DEF SetupPending, InPending, OutPending
<1>3. UNCHANGED <<request, hostAddr, unconfirmed, UEP0_CTRL, UEP0_T_LEN, USB_DEV_AD>>
      /\ stage' = IF lost THEN "out" ELSE "status_in"
  OBVIOUS
<1>4. Staged'
  BY <1>2, <1>3 DEF ControlInv, Staged
<1>5. Addressed'
  BY <1>1, <1>2, <1>3 DEF ControlInv, Addressed, Agreed
<1>6. Reading'
  BY <1>3 DEF Reading
<1>7. lost => faults' < MaxFaults
  BY FaultTypes DEF Typed, TypeInv, TypeOK
<1>8. StatusAnswer /\ UEP0_CTRL.r = "ACK"
  BY <1>1 DEF ControlInv, Writing
<1>9. StatusAnswer'
  BY <1>3, <1>8 DEF StatusAnswer, IsUnknownOut, IsOtherHid, HidRequest
<1>10. Writing'
  BY <1>3, <1>7, <1>8, <1>9 DEF Writing
<1> QED BY <1>4, <1>5, <1>6, <1>10 DEF ControlInv

\* The end of a read; the handler has nothing to do, even if it happens twice.
LEMMA HostStatusOutControls ==
    ASSUME ControlInv, Typed, NEW lost \in BOOLEAN, HostStatusOut(lost)
    PROVE  ControlInv'
<1> USE DEF HostStatusOut, Transaction
<1>1. ~SetupPending /\ ~UIF_BUS_RST /\ ~UIF_SUSPEND /\ Agreed
  BY ReadyFacts
<1>2. ~SetupPending' /\ ~InPending' /\ OutPending' /\ ~UIF_BUS_RST' /\ ~UIF_SUSPEND'
  BY <1>1 DEF SetupPending, InPending, OutPending
<1>3. UNCHANGED <<request, received, hostAddr, unconfirmed, ep0RegVars>> /\ stage' \in {"status_out", "idle"}
  BY DEF ep0Vars
<1>4. request.dir = "in"
  BY DEF Typed, MailboxInv, Linked
<1>5. Staged'
  BY <1>2, <1>3, <1>4 DEF ControlInv, Staged
<1>6. Addressed'
  BY <1>1, <1>2, <1>3 DEF ControlInv, Addressed, Agreed, ep0RegVars
<1>7. Size(request') = Size(request)
  BY <1>3
<1>8. Writing' /\ Reading'
  BY <1>3, <1>7 DEF ControlInv, Writing, Reading, ep0RegVars
<1> QED BY <1>5, <1>6, <1>8 DEF ControlInv

\* The status stage of SET_ADDRESS is over: the handler has yet to follow, or,
\* when the acknowledge is lost, will not.
LEMMA HostStatusInControls ==
    ASSUME ControlInv, Typed, NEW lost \in BOOLEAN, HostStatusIn(lost)
    PROVE  ControlInv'
<1> USE DEF HostStatusIn, Transaction
<1>1. ~SetupPending /\ ~UIF_BUS_RST /\ ~UIF_SUSPEND /\ Agreed
  BY ReadyFacts
<1>2. ~UIF_BUS_RST' /\ stage' = "idle" /\ request' = request /\ USB_DEV_AD' = USB_DEV_AD
  BY <1>1 DEF ep0Vars, ep0RegVars
<1>3. CASE request.req = "SET_ADDRESS"
  <2>1. IsSetAddress(request)
    BY <1>1, <1>3 DEF ControlInv, Writing, StatusAnswer, IsSetAddress
  <2>2. USB_DEV_AD = 0
    BY <1>1, <1>3 DEF ControlInv, Addressed, Agreed
  <2>3. CASE lost
    <3>1. ~InPending' /\ Agreed'
      BY <1>2, <1>3, <2>2, <2>3 DEF InPending, Agreed
    <3> QED BY <1>2, <3>1, IdleKeeps DEF Addressed
  <2>4. CASE ~lost
    <3>1. InPending' /\ IsSetAddress(request')
      BY <1>2, <2>1, <2>4 DEF InPending
    <3>2. hostAddr' = request'.valueL
      BY <1>2, <1>3
    <3> QED BY <1>2, <3>1, <3>2, IdleKeeps DEF Addressed
  <2> QED BY <2>3, <2>4
<1>4. CASE request.req # "SET_ADDRESS"
  <2>1. ~IsSetAddress(request') /\ Agreed'
    BY <1>1, <1>2, <1>4 DEF IsSetAddress, Agreed
  <2> QED BY <1>2, <2>1, IdleKeeps DEF Addressed
<1> QED BY <1>3, <1>4

LEMMA BusControls == ASSUME ControlInv, Typed, Bus PROVE ControlInv'
<1>0. SieTypeOK
  BY DEF Typed, TypeInv, TypeOK
<1>1. CASE Host0Next
  <2>1. CASE HostStalled \/ HostTimeout \/ HostAbort \/ HostRestart
    <3>1. UNCHANGED <<request, hostAddr, unconfirmed, ep0Vars, UIF_TRANSFER, UIF_BUS_RST, USB_INT_ST>>
          /\ stage' = "idle"
      BY <2>1 DEF HostStalled, HostTimeout, HostAbort, HostRestart, HostGivesUp, sieVars
    <3>2. Addressed'
      BY <3>1 DEF ControlInv, Addressed, Agreed, InPending, IsSetAddress, ep0Vars, ep0RegVars
    <3> QED BY <3>1, <3>2, IdleKeeps
  <2> QED BY <1>1, <2>1, HostSetupControls, HostInControls, HostOutControls, HostStatusOutControls,
             HostStatusInControls
          DEF Host0Next
<1>2. ASSUME NEW lost \in BOOLEAN, HostEp1(lost) PROVE ControlInv'
  <2> USE <1>2 DEF HostEp1, HostPollsEp1, Transaction
  <2>1. ~SetupPending /\ ~InPending /\ ~OutPending
    BY ReadyFacts
  <2>2. ~SetupPending' /\ ~InPending' /\ ~OutPending'
    <3>1. CASE lost
      BY <3>1 DEF SetupPending, InPending, OutPending
    <3>2. CASE ~lost
      BY <3>2 DEF SetupPending, InPending, OutPending
    <3> QED BY <3>1, <3>2
  <2>3. faults' \in Nat /\ faults' <= faults
    BY <1>0, FaultTypes, MaxFaultsAssumption
  <2> QED BY <2>1, <2>2, <2>3, ElsewhereKeeps DEF controlVars, ep0Vars, ep0FwVars, host0Vars
<1>3. CASE BusReset
  <2>1. stage' = "idle" /\ hostAddr' = 0 /\ UIF_BUS_RST'
    BY <1>3 DEF BusReset, Host0BusReset
  <2> QED BY <2>1, IdleKeeps DEF Addressed
<1>4. CASE Suspend
  <2>1. stage' = "idle" /\ Addressed'
    BY <1>4
    DEF Suspend, host0Vars, ep0Vars, ep0RegVars, ControlInv, Addressed, Agreed, InPending, IsSetAddress
  <2> QED BY <2>1, IdleKeeps
<1> QED BY <1>1, <1>2, <1>3, <1>4 DEF Bus

LEMMA NextControlInv == ControlInv /\ Typed /\ [Next]_vars => ControlInv'
<1> SUFFICES ASSUME ControlInv, Typed, [Next]_vars PROVE ControlInv'
    OBVIOUS
<1>0. faults \in Nat
  BY TypedFacts, MaxFaultsAssumption
<1>1. CASE MainLoop
  BY <1>0, <1>1, LoopFrame, ElsewhereKeeps
  DEF controlVars, host0Vars, ep0FwVars, SetupPending, InPending, OutPending
<1>2. CASE timer0_isr \/ UNCHANGED vars
  BY <1>0, <1>2, ElsewhereKeeps
  DEF timer0_isr, vars, controlVars, sieVars, host0Vars, ep0Vars, ep0FwVars, SetupPending, InPending, OutPending
<1> QED BY <1>1, <1>2, IsrControls, BusControls DEF Next

\* What the handler has prepared on endpoint 0 fits the stage of the host's
\* transfer, for every set of well-formed requests and every number of faults.
THEOREM ControlInvariant == Spec => [](ControlInv /\ Typed)
<1>1. Init => ControlInv
  BY InitControlInv
<1>2. ControlInv /\ Typed /\ [Next]_vars => ControlInv'
  BY NextControlInv
<1>3. TypeInv /\ MailboxInv => Typed
  BY DEF Typed
<1> QED BY <1>1, <1>2, <1>3, UsbTypeInvariant, MailboxInvariant, PTL DEF Spec

\* The device answers to the address the host uses (usb.c:402-405, 480-482),
\* across aborted transfers and bus resets.  The one exception is a lost
\* acknowledge of SET_ADDRESS's status packet: then it is still at address 0, and
\* nowhere else, until the bus is reset.
THEOREM AddressAgreesHolds == Spec => []AddressAgrees
<1>1. ControlInv => AddressAgrees
  BY DEF ControlInv, Addressed, Agreed, AddressAgrees, SieReady, InPending
<1> QED BY <1>1, ControlInvariant, PTL

\* What the host takes for a status stage is an empty packet with toggle 1
\* (usb.c:402-458, 523-524), never data left over.
THEOREM StatusIsEmptyHolds == Spec => []StatusIsEmpty
<1>1. ControlInv => StatusIsEmpty
  <2> SUFFICES ASSUME ControlInv, stage = "status_in", SieReady, UEP0_CTRL.t = "ACK"
               PROVE  UEP0_T_LEN = 0 /\ UEP0_CTRL.ttog = 1
      BY DEF StatusIsEmpty
  <2> QED BY ReadyFacts DEF ControlInv, Writing, StatusAnswer
<1> QED BY <1>1, ControlInvariant, PTL

\* The host has the whole descriptor, or as much as it asked for, when it turns
\* to the status stage (usb.c:381-395).
THEOREM DescriptorCompleteHolds == Spec => []DescriptorComplete
<1>1. ControlInv /\ Typed => DescriptorComplete
  <2> SUFFICES ASSUME ControlInv, Typed, stage = "status_out", request.req = "GET_DESCRIPTOR",
                      request.length < 256
               PROVE  received = Minimum(DescLen(request), request.length)
      BY DEF DescriptorComplete
  <2>1. received = Size(request)
    BY DEF ControlInv, Reading
  <2>2. request.length % 256 = request.length
    BY TypedFacts, SizeType
  <2> QED BY <2>1, <2>2 DEF Size
<1> QED BY <1>1, ControlInvariant, PTL

\* No request but the two kinds usb.c leaves unanswered, and a SET_REPORT that is
\* being repeated, lets the host run into its timeout (usb.c:437-458).
THEOREM NeverLeftWaitingHolds == Spec => []NeverLeftWaiting
<1>1. ControlInv /\ Typed => NeverLeftWaiting
  <2> SUFFICES ASSUME ControlInv, Typed, stage # "idle", SieReady, Handshake = "NAK"
               PROVE  \/ IsUnknownOut(request) \/ IsOtherHid(request)
                      \/ IsSetReport(request) /\ stage = "out" /\ faults < MaxFaults
      BY DEF NeverLeftWaiting
  <2>1. stage \in Stage
    BY TypedFacts
  <2> QED BY <2>1, ReadyFacts DEF ControlInv, Reading, Writing, StatusAnswer, Handshake, Stage
<1> QED BY <1>1, ControlInvariant, PTL

\* A descriptor is read from its first byte on, without a gap or a repetition
\* (usb.c:379-396, 471-479), whatever acknowledge is lost.
THEOREM DescriptorInOrderHolds == Spec => DescriptorInOrder
<1>1. ControlInv /\ Typed /\ [Next]_vars =>
        [received' > received /\ request.req = "GET_DESCRIPTOR" => USB_EP0_BUF = InPacket(request, received)]_vars
  <2> SUFFICES ASSUME ControlInv, Typed, Next, received' > received, request.req = "GET_DESCRIPTOR"
               PROVE  USB_EP0_BUF = InPacket(request, received)
      OBVIOUS
  <2>0. received' # received /\ received' # 0
    BY TypedFacts
  <2>1. PICK lost \in BOOLEAN : HostIn(lost)
    <3>1. CASE MainLoop
      BY <2>0, <3>1, LoopFrame DEF host0Vars
    <3>2. CASE timer0_isr \/ usb_isr
      BY <2>0, <3>2 DEF timer0_isr, usb_isr, IsrEp0, IsrEp1, IsrSuspend, IsrBusReset, host0Vars
    <3>3. \A s \in Requests : ~HostSetup(s)
      BY <2>0 DEF HostSetup
    <3>4. CASE (\E lost \in BOOLEAN : HostEp1(lost)) \/ BusReset \/ Suspend
      BY <2>0, <3>4 DEF HostEp1, BusReset, Host0BusReset, Suspend, host0Vars
    <3>5. CASE HostStalled \/ HostTimeout \/ HostAbort \/ HostRestart
      BY <2>0, <3>5 DEF HostStalled, HostTimeout, HostAbort, HostRestart, HostGivesUp
    <3>6. \A lost \in BOOLEAN : ~(HostOut(lost) \/ HostStatusOut(lost) \/ HostStatusIn(lost))
      BY <2>0 DEF HostOut, HostStatusOut, HostStatusIn
    <3> QED BY <3>1, <3>2, <3>3, <3>4, <3>5, <3>6 DEF Next, Bus, Host0Next
  <2>2. UEP0_CTRL.ttog = hostTog0
    BY <2>0, <2>1 DEF HostIn
  <2>3. Cursor
    BY <2>1, ReadyFacts DEF HostIn, ControlInv, Reading
  <2> QED BY <2>2, <2>3 DEF Cursor
<1> QED BY <1>1, ControlInvariant, PTL DEF Spec, DescriptorInOrder
=============================================================================
