---------------------------- MODULE UsbEp1Proofs ----------------------------
(***************************************************************************)
(* Endpoint 1 of usb.c for every set of reports, every host and every      *)
(* number of faults: what the host accepts is whole, accepted once, and up  *)
(* to date in the end.                                                      *)
(***************************************************************************)
EXTENDS UsbProperties, TLAPS

Preparing == {"copy_1", "copy_2", "length", "arm"}
Copying == {"get_copy0", "get_copy7", "get_copy14"}
Collected == UIF_TRANSFER /\ USB_INT_ST[2] = 1

Types ==
    /\ Ep1TypeOK
    /\ USB_INT_ST \in Token
    /\ E_DIS \in {0, 1}
    /\ UIF_TRANSFER \in BOOLEAN
    /\ UIF_BUS_RST \in BOOLEAN

\* Interrupts are masked exactly while a report is being copied.
Masked == E_DIS = 1 <=> pc \in Preparing \cup Copying

\* The packet memory is written only while the SIE may not send.
Prepared ==
    /\ pc \in Preparing => UEP1_CTRL.t = "NAK"
    /\ pc = "arm" => UEP1_T_LEN = 8
    /\ pc # "arm" => (UEP1_T_LEN = 8 <=> UEP1_CTRL.t = "ACK")
    /\ pc = "copy_2" => USB_EP1_BUF[1] = USB_HID_REPORT04
    /\ pc \in {"length", "arm"} => USB_EP1_BUF = Whole(USB_HID_REPORT04)
    /\ UEP1_CTRL.t = "ACK" => USB_EP1_BUF[1] = USB_EP1_BUF[2]

\* Toggles and the fate of the packet
Toggles ==
    /\ Collected => UEP1_CTRL.t = "ACK" /\ fate = "taken"
    /\ UEP1_CTRL.t = "NAK" => fate \in {"none", "taken"}
    /\ UEP1_CTRL.t = "ACK" => fate \in {"armed", "taken"}
    /\ UIF_BUS_RST => hostTog1 = 0
    /\ ~UIF_BUS_RST =>
         hostTog1 = IF UEP1_CTRL.t = "ACK" /\ fate = "taken" THEN 1 - UEP1_CTRL.ttog
                                                            ELSE UEP1_CTRL.ttog

\* What the host has, or is about to get
UpToDate ==
    /\ pc \in {"copy_1", "copy_2"} => USB_SEND_EP1 = 1
    /\ pc \in {"length", "arm"} => USB_SEND_EP1 = 0
    /\ USB_SEND_EP1 = 0 /\ pc \notin {"length", "arm"} =>
         /\ fate = "taken" => view.data = Whole(USB_HID_REPORT04)
         /\ fate = "armed" => USB_EP1_BUF = Whole(USB_HID_REPORT04)

Ep1Inv == Types /\ Masked /\ Prepared /\ Toggles /\ UpToDate /\ Ep1Intact

LEMMA InitEp1Inv == Init => Ep1Inv
<1> SUFFICES ASSUME Init PROVE Ep1Inv
    OBVIOUS
<1> USE DEF Init, SieInit, Ep1Init
<1>1. view.len = 8 /\ view.data = Whole(NoReport04)
  OBVIOUS
<1>2. Ep1TypeOK
  <2>1. Whole(NoReport04) \in [Half -> Report04s]
    BY Report04Assumption DEF Whole
  <2>2. view \in Ep1Packet
    BY <2>1 DEF Ep1Packet
  <2>3. USB_EP1_BUF \in [Half -> Report04s]
    BY <2>1
  <2>4. UEP1_CTRL \in [t : {"NAK", "ACK"}, ttog : {0, 1}]
    BY DEF Nak1
  <2>5. changed \in BOOLEAN
    OBVIOUS
  <2> QED BY <2>2, <2>3, <2>4, <2>5, Report04Assumption DEF Ep1TypeOK
<1>3. Types
  BY <1>2 DEF Types, Token
<1>4. Masked
  BY DEF Masked, Preparing, Copying
<1>5. Prepared
  BY DEF Prepared, Preparing, Nak1, Whole, Half
<1>6. Toggles
  BY DEF Toggles, Collected, Nak1
<1>7. UpToDate /\ Ep1Intact
  BY <1>1 DEF UpToDate, Ep1Intact, Whole, Half
<1> QED BY <1>3, <1>4, <1>5, <1>6, <1>7 DEF Ep1Inv

\* What an action may do that has nothing to do with endpoint 1
Elsewhere ==
    /\ UNCHANGED <<ep1RegVars, ep1FwVars, host1Vars, changed, UIF_BUS_RST>>
    /\ repeats' \in {0, repeats}
    /\ USB_INT_ST' \in Token /\ UIF_TRANSFER' \in BOOLEAN
    /\ Collected' => Collected

\* Such an action of the main loop, or of anyone else, keeps the invariant.
LEMMA ElsewhereKeeps ==
    ASSUME Ep1Inv, Elsewhere,
           \/ UNCHANGED <<pc, E_DIS>>
           \/ /\ pc \notin Preparing /\ pc' \notin Preparing
              /\ E_DIS' \in {0, 1} /\ (E_DIS' = 1 <=> pc' \in Copying)
    PROVE  Ep1Inv'
BY DEF Ep1Inv, Elsewhere, Types, Masked, Prepared, Toggles, UpToDate, Ep1Intact, Ep1TypeOK,
       Preparing, Copying, Collected, ep1RegVars, ep1FwVars, host1Vars

-----------------------------------------------------------------------------
(* One step per action that touches endpoint 1 *)

LEMMA SetReport04Keeps == Ep1Inv /\ SetReport04 => Ep1Inv'
<1> SUFFICES ASSUME Ep1Inv, NEW r \in Report04s, usb_set_report04(r), Goto("set", "process"),
                    UNCHANGED sieVars
             PROVE  Ep1Inv'
    BY DEF SetReport04
<1> USE DEF usb_set_report04, Goto, sieVars, ep1RegVars, host1Vars
<1>1. Types'
  BY DEF Ep1Inv, Types, Ep1TypeOK
<1>2. Masked' /\ Prepared' /\ Toggles' /\ Ep1Intact'
  BY DEF Ep1Inv, Masked, Prepared, Toggles, Ep1Intact, Preparing, Copying, Collected
<1>3. UpToDate'
  BY DEF Ep1Inv, Types, Ep1TypeOK, UpToDate
<1> QED BY <1>1, <1>2, <1>3 DEF Ep1Inv

LEMMA CompareIdleKeeps == Ep1Inv /\ CompareIdle => Ep1Inv'
<1> SUFFICES ASSUME Ep1Inv, CompareIdle PROVE Ep1Inv'
    OBVIOUS
<1>1. USB_SEND_EP1' \in {1, USB_SEND_EP1}
  BY DEF CompareIdle
<1> USE DEF CompareIdle, Goto, sieVars, ep1RegVars, host1Vars
<1>2. Types'
  BY <1>1 DEF Ep1Inv, Types, Ep1TypeOK
<1>3. Masked' /\ Prepared' /\ Toggles' /\ Ep1Intact'
  BY DEF Ep1Inv, Masked, Prepared, Toggles, Ep1Intact, Preparing, Copying, Collected
<1>4. UpToDate'
  BY <1>1 DEF Ep1Inv, Types, Ep1TypeOK, UpToDate
<1> QED BY <1>2, <1>3, <1>4 DEF Ep1Inv

LEMMA SendKeeps == Ep1Inv /\ Send => Ep1Inv'
<1> SUFFICES ASSUME Ep1Inv, Send PROVE Ep1Inv'
    OBVIOUS
<1> USE DEF Send, Ep1MaySend, Goto, SetMask, SendMask, ep1Vars, ep1RegVars, ep1FwVars, host1Vars
<1>1. Types'
  BY DEF Ep1Inv, Types, Ep1TypeOK
<1>2. Masked' /\ Toggles' /\ Ep1Intact' /\ UpToDate'
  BY DEF Ep1Inv, Masked, Toggles, Ep1Intact, UpToDate, Preparing, Copying, Collected
<1>3. Prepared'
  BY DEF Ep1Inv, Types, Ep1TypeOK, Prepared, Preparing
<1> QED BY <1>1, <1>2, <1>3 DEF Ep1Inv

LEMMA CopyKeeps ==
    ASSUME Ep1Inv, NEW h \in Half, CopyReport04(h), UNCHANGED sieVars,
           \/ h = 1 /\ pc = "copy_1" /\ pc' = "copy_2" /\ UNCHANGED USB_SEND_EP1
           \/ h = 2 /\ pc = "copy_2" /\ pc' = "length" /\ USB_SEND_EP1' = 0
    PROVE  Ep1Inv'
<1> USE DEF CopyReport04, sieVars, host1Vars
<1>1. USB_EP1_BUF' \in [Half -> Report04s] /\ USB_EP1_BUF'[h] = USB_HID_REPORT04
  BY DEF Ep1Inv, Types, Ep1TypeOK
<1>2. Types'
  BY <1>1 DEF Ep1Inv, Types, Ep1TypeOK
<1>3. UEP1_CTRL.t = "NAK"
  BY DEF Ep1Inv, Prepared, Preparing
<1>4. h = 2 => USB_EP1_BUF' = Whole(USB_HID_REPORT04)
  BY DEF Ep1Inv, Types, Ep1TypeOK, Prepared, Whole, Half
<1>5. Prepared'
  BY <1>1, <1>3, <1>4 DEF Ep1Inv, Prepared, Preparing
<1>6. Masked' /\ Toggles' /\ Ep1Intact'
  BY DEF Ep1Inv, Masked, Toggles, Ep1Intact, Preparing, Copying, Collected
<1>7. fate # "armed"
  BY <1>3 DEF Ep1Inv, Toggles
<1>8. UpToDate'
  BY <1>7 DEF Ep1Inv, UpToDate
<1> QED BY <1>2, <1>5, <1>6, <1>8 DEF Ep1Inv

LEMMA LengthKeeps == Ep1Inv /\ Length => Ep1Inv'
<1> SUFFICES ASSUME Ep1Inv, Length PROVE Ep1Inv'
    OBVIOUS
<1> USE DEF Length, SetLength, Goto, sieVars, ep1FwVars, host1Vars
<1>1. Types'
  BY DEF Ep1Inv, Types, Ep1TypeOK
<1>2. Masked' /\ Prepared' /\ Toggles' /\ Ep1Intact' /\ UpToDate'
  BY DEF Ep1Inv, Masked, Prepared, Toggles, Ep1Intact, UpToDate, Preparing, Copying, Collected
<1> QED BY <1>1, <1>2 DEF Ep1Inv

LEMMA EnableTransmitterKeeps == Ep1Inv /\ EnableTransmitter => Ep1Inv'
<1> SUFFICES ASSUME Ep1Inv, EnableTransmitter PROVE Ep1Inv'
    OBVIOUS
<1> USE DEF EnableTransmitter, Arm, Goto, SetMask, ep1FwVars
<1>1. UEP1_CTRL' = [t |-> "ACK", ttog |-> UEP1_CTRL.ttog] /\ UEP1_CTRL.t = "NAK"
  BY DEF Ep1Inv, Types, Ep1TypeOK, Prepared, Preparing
<1>2. fate' = "armed" /\ ~Collected
  BY <1>1 DEF Ep1Inv, Toggles
<1>3. repeats' \in 0 .. 2
  BY DEF Ep1Inv, Types, Ep1TypeOK
<1>4. Types'
  BY <1>1, <1>2, <1>3 DEF Ep1Inv, Types, Ep1TypeOK
<1>5. Masked' /\ Ep1Intact'
  BY DEF Ep1Inv, Masked, Ep1Intact, Preparing, Copying
<1>6. Prepared'
  BY <1>1 DEF Ep1Inv, Types, Ep1TypeOK, Prepared, Preparing, Whole, Half
<1>7. Toggles'
  BY <1>1, <1>2 DEF Ep1Inv, Toggles, Collected
<1>8. UpToDate'
  BY <1>2 DEF Ep1Inv, UpToDate, Prepared
<1> QED BY <1>4, <1>5, <1>6, <1>7, <1>8 DEF Ep1Inv

LEMMA IsrEp1Keeps == Ep1Inv /\ IsrEp1 => Ep1Inv'
<1> SUFFICES ASSUME Ep1Inv, IsrEp1 PROVE Ep1Inv'
    OBVIOUS
<1> USE DEF IsrEp1, usb_handle_EP1, ClearTransfer, IsrRuns, ep1FwVars, host1Vars, loopVars
<1>1. Collected /\ UEP1_CTRL.t = "ACK" /\ fate = "taken" /\ pc \notin Preparing
  BY DEF Ep1Inv, Toggles, Collected, Masked
<1>2. Types'
  <2>1. UIF_TRANSFER' \in BOOLEAN
    OBVIOUS
  <2>2. UEP1_CTRL' \in [t : {"NAK", "ACK"}, ttog : {0, 1}]
    BY DEF Ep1Inv, Types, Ep1TypeOK
  <2> QED BY <2>1, <2>2 DEF Ep1Inv, Types, Ep1TypeOK
<1>3. Masked' /\ Prepared' /\ Ep1Intact' /\ UpToDate'
  BY <1>1 DEF Ep1Inv, Masked, Prepared, Ep1Intact, UpToDate, Preparing, Copying
<1>4. Toggles'
  BY <1>1 DEF Ep1Inv, Types, Ep1TypeOK, Toggles, Collected
<1> QED BY <1>2, <1>3, <1>4 DEF Ep1Inv

LEMMA IsrBusResetKeeps == Ep1Inv /\ IsrBusReset => Ep1Inv'
<1> SUFFICES ASSUME Ep1Inv, IsrBusReset PROVE Ep1Inv'
    OBVIOUS
<1> USE DEF IsrBusReset, Ep1BusReset, IsrRuns, ep1FwVars, loopVars, Nak1
<1>1. pc \notin Preparing
  BY DEF Ep1Inv, Masked
<1>2. Types'
  BY DEF Ep1Inv, Types, Ep1TypeOK
<1>3. Masked' /\ Prepared' /\ Toggles' /\ Ep1Intact' /\ UpToDate'
  BY <1>1 DEF Ep1Inv, Masked, Prepared, Toggles, Ep1Intact, UpToDate, Preparing, Copying, Collected
<1> QED BY <1>2, <1>3 DEF Ep1Inv

LEMMA HostEp1Keeps == ASSUME NEW lost \in BOOLEAN PROVE Ep1Inv /\ HostEp1(lost) => Ep1Inv'
<1> SUFFICES ASSUME Ep1Inv, HostEp1(lost) PROVE Ep1Inv'
    OBVIOUS
<1> USE DEF HostEp1, HostPollsEp1, SieReady, Transaction, ep1RegVars, ep1FwVars, host1Vars, loopVars
<1>1. UEP1_CTRL.t = "ACK" /\ pc \notin Preparing /\ UEP1_T_LEN = 8
  BY DEF Ep1Inv, Prepared, Preparing
<1>2. CASE UEP1_CTRL.ttog = hostTog1
  <2> USE <1>2 DEF Accept
  <2>1. fate = "armed" /\ fate' = "taken"
    BY <1>1 DEF Ep1Inv, Types, Ep1TypeOK, Toggles
  <2>2. view' \in Ep1Packet /\ view'.len = 8 /\ view'.data = USB_EP1_BUF
    BY <1>1 DEF Ep1Inv, Types, Ep1TypeOK, Ep1Packet
  <2>3. Types'
    BY <2>1, <2>2 DEF Ep1Inv, Types, Ep1TypeOK, Token
  <2>4. Masked' /\ Prepared' /\ Ep1Intact'
    BY <1>1, <2>2 DEF Ep1Inv, Masked, Prepared, Ep1Intact, Preparing, Copying
  <2>5. Toggles'
    BY <1>1, <2>1 DEF Ep1Inv, Types, Ep1TypeOK, Toggles, Collected
  <2>6. UpToDate'
    BY <2>1, <2>2 DEF Ep1Inv, UpToDate
  <2> QED BY <2>3, <2>4, <2>5, <2>6 DEF Ep1Inv
<1>3. CASE UEP1_CTRL.ttog # hostTog1
  <2> USE <1>3
  <2>1. fate = "taken"
    BY <1>1 DEF Ep1Inv, Types, Ep1TypeOK, Toggles
  <2>2. Types'
    BY DEF Ep1Inv, Types, Ep1TypeOK, Token
  <2>3. Masked' /\ Prepared' /\ Ep1Intact' /\ UpToDate'
    BY DEF Ep1Inv, Masked, Prepared, Ep1Intact, UpToDate
  <2>4. Toggles'
    BY <1>1, <2>1 DEF Ep1Inv, Toggles, Collected
  <2> QED BY <2>2, <2>3, <2>4 DEF Ep1Inv
<1> QED BY <1>2, <1>3

LEMMA BusResetKeeps == Ep1Inv /\ BusReset => Ep1Inv'
<1> SUFFICES ASSUME Ep1Inv, BusReset PROVE Ep1Inv'
    OBVIOUS
<1> USE DEF BusReset, ep1RegVars, ep1FwVars, loopVars
<1>1. Types'
  BY DEF Ep1Inv, Types, Ep1TypeOK
<1>2. Masked' /\ Prepared' /\ Toggles' /\ Ep1Intact' /\ UpToDate'
  BY DEF Ep1Inv, Masked, Prepared, Toggles, Ep1Intact, UpToDate, Collected
<1> QED BY <1>1, <1>2 DEF Ep1Inv

-----------------------------------------------------------------------------
(* All the other actions *)

LEMMA GetKeeps ==
    ASSUME Ep1Inv, UNCHANGED ep1Vars, UNCHANGED <<UIF_TRANSFER, UIF_BUS_RST, USB_INT_ST>>,
           pc \notin Preparing, pc' \notin Preparing,
           E_DIS' \in {0, 1}, E_DIS' = 1 <=> pc' \in Copying
    PROVE  Ep1Inv'
<1>1. Elsewhere
  BY DEF Elsewhere, Ep1Inv, Types, Collected, ep1Vars
<1> QED BY <1>1, ElsewhereKeeps

LEMMA LoopKeeps == Ep1Inv /\ MainLoop => Ep1Inv'
<1> SUFFICES ASSUME Ep1Inv, MainLoop PROVE Ep1Inv'
    OBVIOUS
<1> USE DEF Goto, sieVars, SetMask
<1>a. E_DIS \in {0, 1} /\ (E_DIS = 1 <=> pc \in Preparing \cup Copying)
  BY DEF Ep1Inv, Types, Masked
<1>1. CASE GetStart
  BY <1>1, <1>a, GetKeeps DEF GetStart, Preparing, Copying
<1>2. CASE GetTest
  BY <1>2, <1>a, GetKeeps DEF GetTest, Preparing, Copying
<1>3. CASE GetNothing
  BY <1>3, <1>a, GetKeeps DEF GetNothing, Preparing, Copying
<1>4. CASE GetReady
  BY <1>4, <1>a, GetKeeps DEF GetReady, GetMask, Preparing, Copying
<1>5. CASE GetCopy(0, "get_copy0", "get_copy7")
  BY <1>5, <1>a, GetKeeps DEF GetCopy, Preparing, Copying
<1>6. CASE GetCopy(7, "get_copy7", "get_copy14")
  BY <1>6, <1>a, GetKeeps DEF GetCopy, Preparing, Copying
<1>7. CASE GetReturn
  BY <1>7, <1>a, GetKeeps DEF GetReturn, Preparing, Copying
<1>8. CASE SetReport04
  BY <1>8, SetReport04Keeps
<1>9. CASE ProcessStart
  BY <1>9, <1>a, GetKeeps DEF ProcessStart, Preparing, Copying
<1>10. CASE ReadIdleLow("idle_low", "idle_high")
  BY <1>10, <1>a, GetKeeps DEF ReadIdleLow, Preparing, Copying
<1>11. CASE TestIdle
  BY <1>11, <1>a, GetKeeps DEF TestIdle, Preparing, Copying
<1>12. CASE ReadIdleLow("cmp_low", "cmp_high")
  BY <1>12, <1>a, GetKeeps DEF ReadIdleLow, Preparing, Copying
<1>13. CASE CompareIdle
  BY <1>13, CompareIdleKeeps
<1>14. CASE SendNot
  BY <1>14, <1>a, GetKeeps DEF SendNot, Preparing, Copying
<1>15. CASE Send
  BY <1>15, SendKeeps
<1>16. CASE CopyFirst
  BY <1>16, CopyKeeps DEF CopyFirst, Half
<1>17. CASE CopySecond
  BY <1>17, CopyKeeps DEF CopySecond, Half
<1>18. CASE Length
  BY <1>18, LengthKeeps
<1>19. CASE EnableTransmitter
  BY <1>19, EnableTransmitterKeeps
<1> QED BY <1>1, <1>2, <1>3, <1>4, <1>5, <1>6, <1>7, <1>8, <1>9, <1>10, <1>11, <1>12, <1>13,
           <1>14, <1>15, <1>16, <1>17, <1>18, <1>19 DEF MainLoop

LEMMA IsrKeeps == Ep1Inv /\ usb_isr => Ep1Inv'
<1> SUFFICES ASSUME Ep1Inv, usb_isr PROVE Ep1Inv'
    OBVIOUS
<1>1. CASE IsrEp0
  <2>1. UIF_TRANSFER' \in BOOLEAN /\ ~Collected'
    BY <1>1 DEF IsrEp0, ClearTransfer, Collected
  <2>2. Elsewhere
    BY <1>1, <2>1 DEF IsrEp0, ClearTransfer, Elsewhere, Ep1Inv, Types
  <2> QED BY <1>1, <2>2, ElsewhereKeeps DEF IsrEp0, ClearTransfer, loopVars
<1>2. CASE IsrSuspend
  <2>1. Elsewhere
    BY <1>2 DEF IsrSuspend, Elsewhere, Ep1Inv, Types, Collected, ep1Vars
  <2> QED BY <1>2, <2>1, ElsewhereKeeps DEF IsrSuspend, loopVars
<1> QED BY <1>1, <1>2, IsrEp1Keeps, IsrBusResetKeeps DEF usb_isr

\* Control transfers of the host: endpoint 0 transactions, or no change of flags.
LEMMA Host0Keeps == Ep1Inv /\ Host0Next /\ UNCHANGED <<ep1Vars, loopVars>> => Ep1Inv'
<1> SUFFICES ASSUME Ep1Inv, Host0Next, UNCHANGED <<ep1Vars, loopVars>> PROVE Ep1Inv'
    OBVIOUS
<1> DEFINE Quiet == UNCHANGED <<E_DIS, UIF_TRANSFER, UIF_BUS_RST, USB_INT_ST>>
           Transfer == \E token \in {"SETUP", "IN", "OUT"}, raised \in BOOLEAN :
                         Transaction(token, 0, raised)
<1>1. Quiet \/ Transfer
  <2>1. CASE \E s \in Requests : HostSetup(s)
    BY <2>1 DEF HostSetup
  <2>2. CASE \E lost \in BOOLEAN : HostIn(lost) \/ HostStatusIn(lost)
    <3>1. PICK lost \in BOOLEAN : HostIn(lost) \/ HostStatusIn(lost)
      BY <2>2
    <3>2. CASE lost
      <4>1. Transaction("IN", 0, FALSE)
        BY <3>1, <3>2 DEF HostIn, HostStatusIn, Transaction
      <4> QED BY <4>1
    <3>3. CASE ~lost
      <4>1. Transaction("IN", 0, TRUE)
        BY <3>1, <3>3 DEF HostIn, HostStatusIn, Transaction
      <4> QED BY <4>1
    <3> QED BY <3>2, <3>3
  <2>3. CASE \E lost \in BOOLEAN : HostOut(lost)
    BY <2>3 DEF HostOut
  <2>4. CASE \E lost \in BOOLEAN : HostStatusOut(lost)
    BY <2>4 DEF HostStatusOut
  <2>5. CASE HostStalled \/ HostTimeout \/ HostAbort \/ HostRestart
    BY <2>5 DEF HostStalled, HostTimeout, HostAbort, HostRestart, sieVars
  <2> QED BY <2>1, <2>2, <2>3, <2>4, <2>5 DEF Host0Next
<1>2. Elsewhere /\ UNCHANGED E_DIS
  <2>1. CASE Quiet
    BY <2>1 DEF Elsewhere, Ep1Inv, Types, Collected, ep1Vars
  <2>2. CASE Transfer
    <3>1. PICK token \in {"SETUP", "IN", "OUT"}, raised \in BOOLEAN : Transaction(token, 0, raised)
      BY <2>2
    <3>2. USB_INT_ST' \in Token /\ UIF_TRANSFER' \in BOOLEAN
      BY <3>1 DEF Transaction, Ep1Inv, Types, Token
    <3>3. ~Collected'
      <4>1. CASE raised
        BY <3>1, <4>1 DEF Transaction, Collected
      <4>2. CASE ~raised
        BY <3>1, <4>2 DEF Transaction, Collected
      <4> QED BY <4>1, <4>2
    <3> QED BY <3>1, <3>2, <3>3 DEF Elsewhere, Transaction, ep1Vars
  <2> QED BY <1>1, <2>1, <2>2
<1> QED BY <1>1, <1>2, ElsewhereKeeps DEF loopVars

LEMMA NextEp1Inv == Ep1Inv /\ [Next]_vars => Ep1Inv'
<1> SUFFICES ASSUME Ep1Inv, [Next]_vars PROVE Ep1Inv'
    OBVIOUS
<1>1. CASE timer0_isr
  <2>1. Elsewhere
    BY <1>1 DEF timer0_isr, Elsewhere, Ep1Inv, Types, Collected, ep1Vars, sieVars
  <2> QED BY <1>1, <2>1, ElsewhereKeeps DEF timer0_isr, sieVars
<1>2. CASE Bus
  <2>1. CASE Suspend
    <3>1. Elsewhere
      BY <2>1 DEF Suspend, Elsewhere, Ep1Inv, Types, Collected, ep1Vars
    <3> QED BY <2>1, <3>1, ElsewhereKeeps DEF Suspend, loopVars
  <2> QED BY <1>2, <2>1, Host0Keeps, HostEp1Keeps, BusResetKeeps DEF Bus
<1>3. CASE UNCHANGED vars
  <2>1. Elsewhere
    BY <1>3 DEF vars, Elsewhere, Ep1Inv, Types, Collected, ep1Vars, sieVars
  <2> QED BY <1>3, <2>1, ElsewhereKeeps DEF vars, sieVars, loopVars
<1> QED BY <1>1, <1>2, <1>3, LoopKeeps, IsrKeeps DEF Next

\* The invariant of endpoint 1 holds for every instance.
THEOREM Ep1Invariant == Spec => []Ep1Inv
<1>1. Init => Ep1Inv
  BY InitEp1Inv
<1>2. Ep1Inv /\ [Next]_vars => Ep1Inv'
  BY NextEp1Inv
<1> QED BY <1>1, <1>2, PTL DEF Spec

\* The host never accepts a torn or an empty report 04 (usb.c:203-219).
THEOREM Ep1IntactHolds == Spec => []Ep1Intact
<1>1. Ep1Inv => Ep1Intact
  BY DEF Ep1Inv
<1> QED BY <1>1, Ep1Invariant, PTL

\* No packet is accepted twice or replaced unseen (usb.c:207, 530-538).
THEOREM Ep1OnceHolds == Spec => []Ep1Once
<1>1. Ep1Inv => Ep1Once
  BY DEF Ep1Inv, Types, Ep1TypeOK, Toggles, Ep1Once
<1> QED BY <1>1, Ep1Invariant, PTL

\* A change of report 04 is never forgotten (usb.c:205-217, 258-261).
THEOREM NeverForgottenHolds == Spec => []NeverForgotten
<1>1. Ep1Inv => NeverForgotten
  BY DEF Ep1Inv, Types, Ep1TypeOK, Toggles, UpToDate, NeverForgotten
<1> QED BY <1>1, Ep1Invariant, PTL

-----------------------------------------------------------------------------
(* The pipe *)

Wanted == USB_SEND_EP1 = 1 \/ pc \in {"length", "arm"}
Busy == UEP1_T_LEN # 0 /\ pc # "arm"
Armed == IF fate = "armed" THEN {USB_EP1_BUF[1]} ELSE {}
pipeVars == <<USB_HID_REPORT04, Wanted, Busy, Armed, view.data[2]>>
PipeStep == Pipe!Next \/ UNCHANGED pipeVars

\* A step that leaves endpoint 1 alone and neither ends nor begins an arming
LEMMA PipeFrame ==
    ASSUME UNCHANGED <<ep1RegVars, ep1FwVars, host1Vars>>,
           pc' = pc \/ {pc, pc'} \cap {"length", "arm"} = {}
    PROVE  PipeStep
BY DEF PipeStep, pipeVars, Wanted, Busy, Armed, ep1RegVars, ep1FwVars, host1Vars

LEMMA SetReport04Maps == Ep1Inv /\ SetReport04 => PipeStep
<1> SUFFICES ASSUME Ep1Inv, NEW r \in Report04s, usb_set_report04(r), Goto("set", "process")
             PROVE  PipeStep
    BY DEF SetReport04
<1>1. Wanted' = (Wanted \/ r # USB_HID_REPORT04)
  BY DEF usb_set_report04, Goto, Wanted
<1>2. UNCHANGED <<Busy, Armed, view.data[2]>> /\ USB_HID_REPORT04' = r
  BY DEF usb_set_report04, Goto, Busy, Armed, ep1RegVars, host1Vars
<1>3. Pipe!Set(r)
  BY <1>1, <1>2 DEF Pipe!Set, Wanted, Busy, Armed
<1> QED BY <1>3 DEF PipeStep, Pipe!Next

LEMMA CompareIdleMaps == Ep1Inv /\ CompareIdle => PipeStep
<1> SUFFICES ASSUME Ep1Inv, CompareIdle PROVE PipeStep
    OBVIOUS
<1>1. UNCHANGED <<USB_HID_REPORT04, Busy, Armed, view.data[2]>>
  BY DEF CompareIdle, Goto, Busy, Armed, ep1RegVars, host1Vars
<1>2. CASE IdleOver
  <2>1. Wanted' = TRUE
    BY <1>2 DEF CompareIdle, Wanted
  <2>2. Pipe!Repeat
    BY <1>1, <2>1 DEF Pipe!Repeat, Wanted, Busy, Armed
  <2> QED BY <2>2 DEF PipeStep, Pipe!Next
<1>3. CASE ~IdleOver
  BY <1>1, <1>3 DEF CompareIdle, Goto, Wanted, PipeStep, pipeVars
<1> QED BY <1>2, <1>3

\* While the packet is put together the pipe stands still.
LEMMA CopyMaps == Ep1Inv /\ (CopyFirst \/ CopySecond \/ Length) => PipeStep
<1> SUFFICES ASSUME Ep1Inv, CopyFirst \/ CopySecond \/ Length PROVE PipeStep
    OBVIOUS
<1> USE DEF CopyFirst, CopySecond, Length, CopyReport04, SetLength, Goto, ep1FwVars, host1Vars
<1>1. pc \in {"copy_1", "copy_2", "length"} /\ UEP1_CTRL.t = "NAK"
  BY DEF Ep1Inv, Prepared, Preparing
<1>2. fate # "armed" /\ UEP1_T_LEN = 0
  BY <1>1 DEF Ep1Inv, Types, Ep1TypeOK, Toggles, Prepared
<1>3. UNCHANGED <<USB_HID_REPORT04, Busy, Armed, view.data[2]>>
  BY <1>1, <1>2 DEF Busy, Armed
<1>4. Wanted /\ Wanted'
  BY <1>1 DEF Ep1Inv, UpToDate, Wanted
<1> QED BY <1>3, <1>4 DEF PipeStep, pipeVars

LEMMA EnableTransmitterMaps == Ep1Inv /\ EnableTransmitter => PipeStep
<1> SUFFICES ASSUME Ep1Inv, EnableTransmitter PROVE PipeStep
    OBVIOUS
<1> USE DEF EnableTransmitter, Arm, Goto, ep1FwVars
<1>1. fate' = "armed" /\ USB_EP1_BUF = Whole(USB_HID_REPORT04) /\ UEP1_T_LEN = 8 /\ USB_SEND_EP1 = 0
  BY DEF Ep1Inv, Types, Ep1TypeOK, Prepared, Preparing, Toggles, UpToDate
<1>2. Wanted /\ ~Busy /\ Wanted' = FALSE /\ Busy' = TRUE
  BY <1>1 DEF Wanted, Busy
<1>3. Armed' = {USB_HID_REPORT04}
  BY <1>1 DEF Armed, Whole, Half
<1>4. Pipe!Arm
  BY <1>2, <1>3 DEF Pipe!Arm, Wanted, Busy, Armed
<1> QED BY <1>4 DEF PipeStep, Pipe!Next

LEMMA IsrEp1Maps == Ep1Inv /\ IsrEp1 => PipeStep
<1> SUFFICES ASSUME Ep1Inv, IsrEp1 PROVE PipeStep
    OBVIOUS
<1> USE DEF IsrEp1, usb_handle_EP1, IsrRuns, ep1FwVars, host1Vars, loopVars
<1>1. UEP1_CTRL.t = "ACK" /\ fate = "taken" /\ pc \notin Preparing
  BY DEF Ep1Inv, Toggles, Collected, Masked
<1>2. Busy /\ Busy' = FALSE
  BY <1>1 DEF Ep1Inv, Prepared, Preparing, Busy
<1>3. Armed = {} /\ UNCHANGED <<USB_HID_REPORT04, Wanted, Armed, view.data[2]>>
  BY <1>1 DEF Armed, Wanted
<1>4. Pipe!Release
  BY <1>2, <1>3 DEF Pipe!Release, Wanted, Busy, Armed
<1> QED BY <1>4 DEF PipeStep, Pipe!Next

LEMMA IsrBusResetMaps == IsrBusReset => PipeStep
<1> SUFFICES ASSUME IsrBusReset PROVE PipeStep
    OBVIOUS
<1>1. Busy' = FALSE /\ Armed' = {} /\ UNCHANGED <<USB_HID_REPORT04, Wanted, view.data[2]>>
  BY DEF IsrBusReset, Ep1BusReset, ep1FwVars, loopVars, Busy, Armed, Wanted
<1>2. Pipe!BusReset
  BY <1>1 DEF Pipe!BusReset, Wanted, Busy, Armed
<1> QED BY <1>2 DEF PipeStep, Pipe!Next

\* A packet the host has already seen changes nothing.
LEMMA HostEp1Maps == ASSUME NEW lost \in BOOLEAN PROVE Ep1Inv /\ HostEp1(lost) => PipeStep
<1> SUFFICES ASSUME Ep1Inv, HostEp1(lost) PROVE PipeStep
    OBVIOUS
<1> USE DEF HostEp1, HostPollsEp1, ep1RegVars, ep1FwVars, loopVars
<1>1. UEP1_CTRL.t = "ACK" /\ UNCHANGED <<USB_HID_REPORT04, Wanted, Busy>>
  BY DEF Wanted, Busy
<1>2. CASE UEP1_CTRL.ttog = hostTog1
  <2>1. fate = "armed" /\ fate' = "taken"
    BY <1>1, <1>2 DEF Ep1Inv, Types, Ep1TypeOK, Toggles, SieReady, Accept
  <2>2. view'.data[2] = USB_EP1_BUF[1] /\ USB_EP1_BUF[1] \in Report04s
    BY <1>1, <1>2 DEF Ep1Inv, Types, Ep1TypeOK, Prepared, Accept, Half
  <2>3. Armed = {USB_EP1_BUF[1]} /\ Armed' = {}
    BY <2>1 DEF Armed
  <2>4. Pipe!Collect
    BY <1>1, <2>2, <2>3 DEF Pipe!Collect, Wanted, Busy, Armed
  <2> QED BY <2>4 DEF PipeStep, Pipe!Next
<1>3. CASE UEP1_CTRL.ttog # hostTog1
  BY <1>1, <1>3, PipeFrame
<1> QED BY <1>2, <1>3

LEMMA LoopMaps == Ep1Inv /\ MainLoop => PipeStep
<1> SUFFICES ASSUME Ep1Inv, MainLoop PROVE PipeStep
    OBVIOUS
<1> USE DEF Goto, ep1Vars
<1>1. CASE GetStart \/ GetTest \/ GetNothing \/ GetReady \/ GetReturn \/ ProcessStart
  BY <1>1, PipeFrame DEF GetStart, GetTest, GetNothing, GetReady, GetReturn, ProcessStart
<1>2. CASE GetCopy(0, "get_copy0", "get_copy7") \/ GetCopy(7, "get_copy7", "get_copy14")
  BY <1>2, PipeFrame DEF GetCopy
<1>3. CASE ReadIdleLow("idle_low", "idle_high") \/ ReadIdleLow("cmp_low", "cmp_high")
  BY <1>3, PipeFrame DEF ReadIdleLow
<1>4. CASE TestIdle \/ SendNot \/ Send
  BY <1>4, PipeFrame DEF TestIdle, SendNot, Send
<1> QED BY <1>1, <1>2, <1>3, <1>4, SetReport04Maps, CompareIdleMaps, CopyMaps, EnableTransmitterMaps
        DEF MainLoop

LEMMA NextMaps == Ep1Inv /\ [Next]_vars => PipeStep
<1> SUFFICES ASSUME Ep1Inv, [Next]_vars PROVE PipeStep
    OBVIOUS
<1> USE DEF ep1Vars, loopVars
<1>1. CASE usb_isr
  <2>1. CASE IsrEp0 \/ IsrSuspend
    BY <2>1, PipeFrame DEF IsrEp0, IsrSuspend
  <2> QED BY <1>1, <2>1, IsrEp1Maps, IsrBusResetMaps DEF usb_isr
<1>2. CASE Bus
  <2>1. CASE Host0Next /\ UNCHANGED <<ep1Vars, loopVars>>
    BY <2>1, PipeFrame
  <2>2. CASE BusReset
    BY <2>2 DEF BusReset, PipeStep, pipeVars, Wanted, Busy, Armed, ep1RegVars, ep1FwVars
  <2>3. CASE Suspend
    BY <2>3, PipeFrame DEF Suspend
  <2> QED BY <1>2, <2>1, <2>2, <2>3, HostEp1Maps DEF Bus
<1>3. CASE timer0_isr \/ UNCHANGED vars
  BY <1>3, PipeFrame DEF timer0_isr, vars
<1> QED BY <1>1, <1>2, <1>3, LoopMaps DEF Next

\* Arming, transmission, handler and bus resets (usb.c:189-220, 252-264,
\* 311-313, 530-538) implement the pipe: a packet reaches the host at most
\* once, unchanged, and only a bus reset takes it away, for every set of
\* reports, requests and faults.
THEOREM PipeImplemented == Spec => ImplementsPipe
<1>1. Init => Pipe!Init
  <2> SUFFICES ASSUME Init PROVE Pipe!Init
    OBVIOUS
  <2>1. view.data[2] = NoReport04 /\ ~Wanted /\ ~Busy /\ Armed = {} /\ USB_HID_REPORT04 = NoReport04
    BY DEF Init, Ep1Init, Wanted, Busy, Armed, Whole, Half
  <2> QED BY <2>1, Report04Assumption DEF Pipe!Init, Wanted, Busy, Armed
<1>2. Ep1Inv /\ [Next]_vars => [Pipe!Next]_pipeVars
  BY NextMaps DEF PipeStep
<1> QED BY <1>1, <1>2, Ep1Invariant, PTL DEF Spec, ImplementsPipe, Pipe!Spec, pipeVars, Wanted, Busy, Armed
-----------------------------------------------------------------------------
(* Idle off *)

\* The loop has decided on an unchanged report, or may still do so with bytes
\* of the setting that it read before they changed (usb.c:197-201, 205-217).
Owed ==
    \/ pc = "idle_high" /\ low # 0
    \/ pc \in {"cmp_low", "cmp_high"}
    \/ ~changed /\ (USB_SEND_EP1 = 1 \/ pc \in {"length", "arm"})

\* Such a report is counted when it is armed; no second one can be owed after it.
Silent ==
    IF USB_IDLE_SETTING = 0 THEN repeats <= 1 /\ (Owed => repeats = 0) ELSE repeats = 0

LEMMA ZeroBytes == Low(0) = 0 /\ High(0) = 0
<1>1. \A b \in Nat : b > 0 => 0 % b = 0 /\ 0 \div b = 0
  OBVIOUS
<1> QED BY <1>1, LoopAssumption DEF Low, High

\* A step that neither counts nor decides
LEMMA SilentKeeps ==
    ASSUME Silent, UNCHANGED <<USB_IDLE_SETTING, repeats>>, Owed' => Owed
    PROVE  Silent'
BY DEF Silent

LEMMA LoopSilent == Ep1Inv /\ Silent /\ MainLoop => Silent'
<1> SUFFICES ASSUME Ep1Inv, Silent, MainLoop PROVE Silent'
    OBVIOUS
<1> USE DEF Goto, ep0Vars, ep0FwVars, ep1Vars, ep1FwVars
<1>0. /\ changed \in BOOLEAN /\ repeats \in 0 .. 2 /\ USB_SEND_EP1 \in {0, 1}
      /\ pc \in {"length", "arm"} => USB_SEND_EP1 = 0
  BY DEF Ep1Inv, Types, Ep1TypeOK, UpToDate
<1>1. CASE GetStart \/ GetTest \/ GetNothing \/ GetReady
  BY <1>1, SilentKeeps DEF GetStart, GetTest, GetNothing, GetReady, Owed
<1>2. CASE GetCopy(0, "get_copy0", "get_copy7") \/ GetCopy(7, "get_copy7", "get_copy14")
  BY <1>2, SilentKeeps DEF GetCopy, Owed
<1>3. CASE GetReturn
  BY <1>3, SilentKeeps DEF GetReturn, Owed
<1>4. CASE SetReport04
  <2>1. PICK r \in Report04s : usb_set_report04(r)
    BY <1>4 DEF SetReport04
  <2>2. USB_SEND_EP1' = 1 /\ ~changed' => USB_SEND_EP1 = 1 /\ ~changed
    BY <2>1, <1>0 DEF usb_set_report04
  <2> QED BY <1>4, <2>1, <2>2, SilentKeeps DEF SetReport04, usb_set_report04, Owed
<1>5. CASE ProcessStart \/ SendNot \/ Send
  BY <1>5, SilentKeeps DEF ProcessStart, SendNot, Send, Owed
<1>6. CASE ReadIdleLow("idle_low", "idle_high")
  <2>1. UNCHANGED <<USB_IDLE_SETTING, repeats, changed, USB_SEND_EP1>> /\ pc' = "idle_high"
        /\ low' = Low(USB_IDLE_SETTING)
    BY <1>6 DEF ReadIdleLow
  <2>2. CASE USB_IDLE_SETTING = 0
    BY <2>1, <2>2, ZeroBytes, SilentKeeps DEF Owed
  <2>3. CASE USB_IDLE_SETTING # 0
    BY <2>1, <2>3 DEF Silent
  <2> QED BY <2>2, <2>3
<1>7. CASE TestIdle
  <2>1. UNCHANGED <<USB_IDLE_SETTING, repeats, changed, USB_SEND_EP1, low>> /\ pc = "idle_high"
        /\ pc' = IF IdleOff THEN "send" ELSE "cmp_low"
    BY <1>7 DEF TestIdle
  <2>2. CASE USB_IDLE_SETTING = 0
    BY <2>1, <2>2, ZeroBytes, SilentKeeps DEF Owed, IdleOff
  <2>3. CASE USB_IDLE_SETTING # 0
    BY <2>1, <2>3 DEF Silent
  <2> QED BY <2>2, <2>3
<1>8. CASE ReadIdleLow("cmp_low", "cmp_high")
  BY <1>8, SilentKeeps DEF ReadIdleLow, Owed
<1>9. CASE CompareIdle
  BY <1>9, SilentKeeps DEF CompareIdle, Owed
<1>10. CASE CopyFirst
  BY <1>10, SilentKeeps DEF CopyFirst, CopyReport04, Owed
<1>11. CASE CopySecond
  <2>1. USB_SEND_EP1 = 1
    BY <1>11 DEF CopySecond, Ep1Inv, UpToDate
  <2> QED BY <1>11, <2>1, SilentKeeps DEF CopySecond, CopyReport04, Owed
<1>12. CASE Length
  BY <1>12, SilentKeeps DEF Length, SetLength, Owed
<1>13. CASE EnableTransmitter
  <2>1. UNCHANGED <<USB_IDLE_SETTING, USB_SEND_EP1>> /\ USB_SEND_EP1 = 0 /\ pc' = "get_start"
        /\ repeats' = IF USB_IDLE_SETTING = 0 /\ ~changed /\ repeats < 2 THEN repeats + 1 ELSE repeats
    BY <1>13, <1>0 DEF EnableTransmitter, Arm
  <2>2. ~Owed'
    BY <2>1 DEF Owed
  <2>3. ~changed => Owed
    BY <1>13 DEF EnableTransmitter, Owed
  <2> QED BY <1>0, <2>1, <2>2, <2>3 DEF Silent
<1> QED BY <1>1, <1>2, <1>3, <1>4, <1>5, <1>6, <1>7, <1>8, <1>9, <1>10, <1>11, <1>12, <1>13 DEF MainLoop

LEMMA IsrSilent == Ep1Inv /\ Silent /\ usb_isr => Silent'
<1> SUFFICES ASSUME Ep1Inv, Silent, usb_isr PROVE Silent'
    OBVIOUS
<1> USE DEF ep0Vars, ep0FwVars, ep1FwVars, loopVars
<1>1. CASE IsrEp0
  <2>1. UNCHANGED <<pc, low, changed, USB_SEND_EP1>>
        /\ repeats' = IF USB_IDLE_SETTING' # 0 THEN 0 ELSE repeats
    BY <1>1 DEF IsrEp0
  <2>2. Owed' <=> Owed
    BY <2>1 DEF Owed
  <2> QED BY <2>1, <2>2 DEF Silent
<1>2. CASE IsrEp1
  BY <1>2, SilentKeeps DEF IsrEp1, usb_handle_EP1, Owed
<1>3. CASE IsrSuspend
  BY <1>3, SilentKeeps DEF IsrSuspend, ep1Vars, Owed
<1>4. CASE IsrBusReset
  BY <1>4, SilentKeeps DEF IsrBusReset, Ep0BusReset, Ep1BusReset, Owed
<1> QED BY <1>1, <1>2, <1>3, <1>4 DEF usb_isr

LEMMA BusSilent == Silent /\ Bus => Silent'
<1> SUFFICES ASSUME Silent, Bus PROVE Silent'
    OBVIOUS
<1> USE DEF ep0Vars, ep0FwVars, ep1Vars, ep1FwVars, loopVars
<1>1. CASE Host0Next /\ UNCHANGED <<ep1Vars, loopVars>>
  <2>1. UNCHANGED USB_IDLE_SETTING
    BY <1>1 DEF Host0Next, HostSetup, HostIn, HostOut, HostStatusOut, HostStatusIn, HostStalled,
                HostTimeout, HostAbort, HostRestart, HostGivesUp
  <2> QED BY <1>1, <2>1, SilentKeeps DEF Owed
<1>2. CASE \E lost \in BOOLEAN : HostEp1(lost)
  BY <1>2, SilentKeeps DEF HostEp1, HostPollsEp1, Owed
<1>3. CASE BusReset \/ Suspend
  BY <1>3, SilentKeeps DEF BusReset, Suspend, Owed
<1> QED BY <1>1, <1>2, <1>3 DEF Bus

\* At most one unchanged report follows after the host has switched periodic
\* reports off, however the two bytes of the setting are read (usb.c:197-201,
\* 445-447).
THEOREM IdleOffSilencesHolds == Spec => []IdleOffSilences
<1>1. Init => Silent
  BY DEF Init, Ep1Init, Silent, Owed
<1>2. Ep1Inv /\ Silent /\ [Next]_vars => Silent'
  <2> SUFFICES ASSUME Ep1Inv, Silent, [Next]_vars PROVE Silent'
      OBVIOUS
  <2>1. CASE timer0_isr
    BY <2>1, SilentKeeps DEF timer0_isr, ep0Vars, ep0FwVars, ep1Vars, ep1FwVars, Owed
  <2>2. CASE UNCHANGED vars
    BY <2>2, SilentKeeps DEF vars, ep0Vars, ep0FwVars, ep1Vars, ep1FwVars, loopVars, Owed
  <2> QED BY <2>1, <2>2, LoopSilent, IsrSilent, BusSilent DEF Next
<1>3. Silent => IdleOffSilences
  BY DEF Silent, IdleOffSilences
<1> QED BY <1>1, <1>2, <1>3, Ep1Invariant, PTL DEF Spec
=============================================================================
