---------------------------- MODULE DriverProofs ----------------------------
(***************************************************************************)
(* The driver's bookkeeping, for all contents of the report: whatever       *)
(* libusb answers and however often the dongle is unplugged, the two kinds  *)
(* of transfer take turns.  The reason is report_offset: it is past the end *)
(* while the interrupt transfer is in flight and not while a part is, and   *)
(* only the callback of the former brings it back.  With the dongle at the  *)
(* other end of the cable the driver makes no other steps, so all of it     *)
(* holds of System too.                                                     *)
(***************************************************************************)
EXTENDS System, TLAPS

\* The transfer in flight is told by report_offset, and none is in flight when
\* the device is closed or about to be.
TurnInv ==
    /\ int_pending => report_offset > PARTS_END
    /\ control_pending => report_offset <= PARTS_END
    /\ state # "WORKING" => owned = {}
    /\ devh = "NULL" <=> state = "OPEN_DEVICE"

\* The part sent last is the one before the one that is due, and of the same
\* content, unless it is the one due itself: in flight, or refused.
PartInv ==
    /\ report_offset \in {7, 14} => sent.report = report /\ report_offset - sent.offset \in {0, 7}
    /\ control_pending => sent = [offset |-> report_offset, report |-> report]

DriverInv == TypeOK /\ NothingInFlight /\ TurnInv /\ PartInv

USE DEF Transfers, Offsets, PARTS_END

\* At the start nothing is in flight (main.c:247-267).
LEMMA DriverInit == usb_init => DriverInv
<1> SUFFICES ASSUME usb_init PROVE DriverInv
  OBVIOUS
<1>1. int_pending \in BOOLEAN /\ control_pending \in BOOLEAN /\ failed \in BOOLEAN
  BY DEF usb_init
<1> QED BY <1>1 DEF usb_init, DriverInv, TypeOK, NothingInFlight, TurnInv, PartInv

\* Each half of usb_process keeps the invariant (main.c:270-411).
LEMMA SwitchStep ==
  ASSUME DriverInv, Switch
  PROVE  DriverInv'
<1> USE DEF DriverInv, TypeOK, NothingInFlight, TurnInv, PartInv, Switch
<1>1. CASE OpenDevice
  BY <1>1 DEF OpenDevice
<1>2. CASE OpenFails
  BY <1>2 DEF OpenFails
<1>3. CASE Submit
  <2>1. CASE SubmitInterrupt /\ UNCHANGED <<control_pending, sent>>
    BY <1>3, <2>1 DEF Submit, SubmitInterrupt, WantsInt
  <2>2. CASE SubmitControl /\ UNCHANGED int_pending
    BY <1>3, <2>2 DEF Submit, SubmitControl, WantsControl
  <2> QED BY <1>3, <2>1, <2>2 DEF Submit
<1>4. CASE SubmitFails
  BY <1>4 DEF SubmitFails
<1>5. CASE NothingToSubmit
  BY <1>5 DEF NothingToSubmit
<1>6. CASE Restart
  BY <1>6 DEF Restart
<1> QED BY <1>1, <1>2, <1>3, <1>4, <1>5, <1>6

LEMMA CallbackStep ==
  ASSUME DriverInv, Callback
  PROVE  DriverInv'
<1> USE DEF DriverInv, TypeOK, NothingInFlight, TurnInv, PartInv, Callback, EventsFrame
<1>1. CASE usb_interrupt_callback
  <2>1. int_pending' \in BOOLEAN
    BY <1>1 DEF usb_interrupt_callback
  <2> QED BY <1>1, <2>1 DEF usb_interrupt_callback, IntData
<1>2. CASE usb_control_callback
  <2>1. control_pending' \in BOOLEAN
    BY <1>2 DEF usb_control_callback
  <2>2. sent.offset = report_offset /\ sent.report = report /\ report_offset \in {0, 7, 14}
    BY <1>2 DEF usb_control_callback
  <2>3. CASE PartSent
    <3>1. report_offset' \in {7, 14, 21} /\ report_offset' - sent.offset = 7
      BY <2>2, <2>3 DEF PartSent
    <3> QED BY <1>2, <2>1, <2>2, <2>3, <3>1 DEF usb_control_callback, PartSent
  <2>4. CASE state' = "RESTART" /\ UNCHANGED report_offset
    BY <1>2, <2>1, <2>2, <2>4 DEF usb_control_callback
  <2> QED BY <1>2, <2>3, <2>4 DEF usb_control_callback
<1> QED BY <1>1, <1>2

\* Nothing else touches what the invariant speaks of (main.c:401-408).
LEMMA DriverStep == DriverInv /\ [Next]_vars => DriverInv'
<1> SUFFICES ASSUME DriverInv, [Next]_vars PROVE DriverInv'
  OBVIOUS
<1>1. CASE Switch
  BY <1>1, SwitchStep
<1>2. CASE Callback
  BY <1>2, CallbackStep
<1>3. CASE NoEvent \/ UNCHANGED vars
  <2>1. UNCHANGED <<state, devh, int_pending, control_pending, report_offset, report,
                    plugged, owned, sent, failed>> /\ pc' \in {"switch", "events"}
    BY <1>3 DEF NoEvent, EventsFrame, vars, DriverInv, TypeOK
  <2> QED BY <2>1 DEF DriverInv, TypeOK, NothingInFlight, TurnInv, PartInv
<1>4. CASE Unplug
  <2>1. plugged' \in BOOLEAN
    BY <1>4 DEF Unplug
  <2>2. devh' \in {"NULL", "open", "gone", "unnoticed"} /\ (devh' = "NULL" <=> devh = "NULL")
    BY <1>4 DEF Unplug, DriverInv, TypeOK
  <2> QED BY <1>4, <2>1, <2>2 DEF Unplug, DriverInv, TypeOK, NothingInFlight, TurnInv, PartInv
<1>5. CASE Plug
  <2>1. plugged' \in BOOLEAN
    BY <1>5 DEF Plug
  <2> QED BY <1>5, <2>1 DEF Plug, DriverInv, TypeOK, NothingInFlight, TurnInv, PartInv
<1> QED BY <1>1, <1>2, <1>3, <1>4, <1>5 DEF Next, usb_process

\* The bookkeeping holds for ever (main.c:270-411).
THEOREM DriverInvariant == usb_init /\ [][Next]_vars => []DriverInv
  BY DriverInit, DriverStep, PTL

\* The parts of a report go out in order and are of one content
\* (main.c:184-216, 346-372).
LEMMA PartsInOrder == usb_init /\ [][Next]_vars => PartsOfOneReport
<1> DEFINE InOrder == sent' # sent /\ sent'.offset # 0 =>
                        sent'.report = sent.report /\ sent'.offset = sent.offset + 7
<1>1. DriverInv /\ [Next]_vars => [InOrder]_vars
  <2> SUFFICES ASSUME DriverInv, Next, sent' # sent PROVE InOrder
    BY DEF vars
  <2>1. SubmitControl
    BY DEF Next, usb_process, Switch, Callback, NoEvent, EventsFrame, Unplug, Plug,
           OpenDevice, OpenFails, Submit, SubmitInterrupt, SubmitFails, NothingToSubmit, Restart
  <2>2. sent' = [offset |-> report_offset, report |-> report] /\ report_offset <= 14
    BY <2>1 DEF SubmitControl, WantsControl
  <2> QED BY <2>2 DEF DriverInv, TypeOK, PartInv
<1> QED BY <1>1, DriverInvariant, PTL DEF PartsOfOneReport

LEMMA InvariantSuffices == DriverInv => TakeTurns /\ NothingInFlight
BY DEF DriverInv, TypeOK, TurnInv, TakeTurns

\* The two kinds of transfer take turns (main.c:333, 346).
THEOREM TakeTurnsHolds == Spec => []TakeTurns
BY InvariantSuffices, DriverInvariant, PTL DEF Spec

\* No transfer is in flight when the device is closed (main.c:375-395).
THEOREM NothingInFlightHolds == Spec => []NothingInFlight
BY InvariantSuffices, DriverInvariant, PTL DEF Spec

\* The parts of a report are of one content and in order, for the driver on its own
\* (main.c:184-216, 346-372).
THEOREM PartsOfOneReportHolds == Spec => PartsOfOneReport
BY PartsInOrder, PTL DEF Spec

-----------------------------------------------------------------------------
(* The driver and the dongle *)

\* Whatever the dongle does, each step of the system is one of the driver's or leaves
\* the driver as it is.
THEOREM SystemRunsDriver == SystemSpec => usb_init /\ [][Next]_vars
<1>1. SystemInit => usb_init
  BY DEF SystemInit
<1>2. [SystemNext]_systemVars => [Next]_vars
  <2> SUFFICES ASSUME [SystemNext]_systemVars PROVE [Next]_vars
      OBVIOUS
  <2>1. CASE driver_process
    BY <2>1 DEF driver_process, DriverSwitch, DriverCallback, DriverNoEvent, Next, usb_process
  <2>2. CASE Deliver \/ LoopTakes
    BY <2>2 DEF Deliver, LoopTakes
  <2>3. CASE PowerLost \/ PluggedIn
    BY <2>3 DEF PowerLost, PluggedIn, Next
  <2>4. CASE UNCHANGED systemVars
    BY <2>4 DEF systemVars
  <2> QED BY <2>1, <2>2, <2>3, <2>4 DEF SystemNext
<1> QED BY <1>1, <1>2, PTL DEF SystemSpec

\* Transfers take turns with a dongle that takes its time, misses parts and comes and
\* goes (main.c:333, 346).
THEOREM SystemTakesTurns == SystemSpec => []TakeTurns
BY SystemRunsDriver, InvariantSuffices, DriverInvariant, PTL

\* No transfer is in flight on a closed device, whatever became of the dongle
\* (main.c:375-395).
THEOREM SystemNothingInFlight == SystemSpec => []NothingInFlight
BY SystemRunsDriver, InvariantSuffices, DriverInvariant, PTL

\* The parts of a report leave in order, whichever of them reach the dongle
\* (main.c:184-216, 346-372).
THEOREM SystemPartsOfOneReport == SystemSpec => PartsOfOneReport
BY SystemRunsDriver, PartsInOrder, PTL
=============================================================================
