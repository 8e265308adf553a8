------------------------------- MODULE Driver -------------------------------
(***************************************************************************)
(* driver/main.c: the host's side.  usb_process is called for ever; a call  *)
(* makes one step of a three-state machine and then lets libusb deliver     *)
(* callbacks.  Outside the repository: libusb, and the dongle's plug.       *)
(***************************************************************************)
EXTENDS Naturals

CONSTANT Reports         \* contents of the report the display is to show

VARIABLES
    pc,                  \* "switch" or "events": which half of usb_process is next
    state,
    devh,                \* "NULL", "open", or unplugged since: "gone" if a transfer
                         \* was in flight, "unnoticed" if none was
    int_pending, control_pending,
    report_offset,       \* next byte of the report to send; above 14: all sent
    report,              \* its content
    plugged,             \* there is a dongle
    owned,               \* transfers submitted to libusb whose callback is due
    sent,                \* history: the part sent last, its offset and content
    failed               \* history: submitting a transfer failed on this device

vars == <<pc, state, devh, int_pending, control_pending, report_offset, report,
          plugged, owned, sent, failed>>

PARTS_END == 14
Offsets == {0, 7, 14}
Transfers == {"int", "control"}

TypeOK ==
    /\ pc \in {"switch", "events"}
    /\ state \in {"OPEN_DEVICE", "WORKING", "RESTART"}
    /\ devh \in {"NULL", "open", "gone", "unnoticed"}
    /\ int_pending \in BOOLEAN /\ control_pending \in BOOLEAN
    /\ report_offset \in Offsets \cup {21, 24} /\ report \in Reports
    /\ plugged \in BOOLEAN
    /\ owned \in SUBSET Transfers
    /\ sent \in [offset : Offsets, report : Reports]
    /\ failed \in BOOLEAN

usb_init ==
    /\ pc = "switch"
    /\ state = "OPEN_DEVICE" /\ devh = "NULL"
    /\ int_pending = FALSE /\ control_pending = FALSE
    /\ report_offset = 24 /\ report \in Reports
    /\ plugged \in BOOLEAN
    /\ owned = {}
    /\ sent = [offset |-> PARTS_END, report |-> report]
    /\ failed = FALSE

-----------------------------------------------------------------------------
(* The switch of usb_process *)

\* The device is opened, detached, claimed; a SET_IDLE that fails does no harm.
OpenDevice ==
    /\ state = "OPEN_DEVICE" /\ plugged
    /\ devh' = "open"
    /\ state' = "WORKING"
    /\ UNCHANGED <<int_pending, control_pending, report_offset, owned, sent, failed>>

\* It is not there, or detaching or claiming it fails.
OpenFails ==
    /\ state = "OPEN_DEVICE"
    /\ UNCHANGED <<state, devh, int_pending, control_pending, report_offset, owned, sent, failed>>

\* Mutated form: an interrupt transfer is submitted a part too early.
WantsInt_early == ~int_pending /\ report_offset >= PARTS_END

WantsInt == ~int_pending /\ report_offset > PARTS_END

WantsControl == ~control_pending /\ report_offset <= PARTS_END

SubmitInterrupt ==
    /\ WantsInt
    /\ int_pending' = TRUE
    /\ owned' = owned \cup {"int"}

\* The parts sent, as the dongle sees them
SubmitControl ==
    /\ WantsControl
    /\ control_pending' = TRUE
    /\ owned' = owned \cup {"control"}
    /\ sent' = [offset |-> report_offset, report |-> report]

\* Submitting fails if the device is gone, and may fail otherwise.
Submit ==
    /\ state = "WORKING" /\ devh = "open"
    /\ \/ SubmitInterrupt /\ UNCHANGED <<control_pending, sent>>
       \/ SubmitControl /\ UNCHANGED int_pending
    /\ UNCHANGED <<state, devh, report_offset, failed>>

\* The message says that the device is cleaned up; the code tries again.
SubmitFails ==
    /\ state = "WORKING" /\ (WantsInt \/ WantsControl)
    /\ failed' = TRUE
    /\ UNCHANGED <<state, devh, int_pending, control_pending, report_offset, owned, sent>>

NothingToSubmit ==
    /\ state = "WORKING" /\ ~WantsInt /\ ~WantsControl
    /\ UNCHANGED <<state, devh, int_pending, control_pending, report_offset, owned, sent, failed>>

\* A pending interrupt transfer is cancelled first; otherwise the device is closed.
Restart ==
    /\ state = "RESTART"
    /\ IF int_pending
         THEN UNCHANGED <<state, devh, failed>>
         ELSE devh' = "NULL" /\ state' = "OPEN_DEVICE" /\ failed' = FALSE
    /\ UNCHANGED <<int_pending, control_pending, report_offset, owned, sent>>

Switch ==
    /\ pc = "switch" /\ pc' = "events"
    /\ OpenDevice \/ OpenFails \/ Submit \/ SubmitFails \/ NothingToSubmit \/ Restart
    /\ UNCHANGED <<report, plugged>>

-----------------------------------------------------------------------------
(* The callbacks *)

\* whb04b_update_report and the keys change the report; it is to be sent again.
IntData ==
    /\ report' \in Reports
    /\ report_offset' = 0

\* Data, nothing, or the time-out after 1500 ms; any other status is an error.
usb_interrupt_callback ==
    /\ "int" \in owned
    /\ owned' = owned \ {"int"}
    /\ int_pending' = FALSE
    /\ \/ devh = "open" /\ IntData /\ UNCHANGED state
       \/ devh = "open" /\ UNCHANGED <<report, report_offset, state>>
       \/ state' = "RESTART" /\ UNCHANGED <<report, report_offset>>
    /\ UNCHANGED <<control_pending, devh>>

PartSent == devh = "open" /\ report_offset' = report_offset + 7 /\ UNCHANGED state

\* Mutated form: after an error the transfer still counts as pending.
usb_control_callback_keep_pending ==
    /\ "control" \in owned
    /\ owned' = owned \ {"control"}
    /\ \/ PartSent /\ control_pending' = FALSE
       \/ state' = "RESTART" /\ UNCHANGED <<report_offset, control_pending>>
    /\ UNCHANGED <<int_pending, report, devh>>

usb_control_callback ==
    /\ "control" \in owned
    /\ owned' = owned \ {"control"}
    /\ control_pending' = FALSE
    /\ PartSent \/ (state' = "RESTART" /\ UNCHANGED report_offset)
    /\ UNCHANGED <<int_pending, report, devh>>

EventsFrame == pc = "events" /\ pc' = "switch" /\ UNCHANGED <<plugged, sent, failed>>

Callback == EventsFrame /\ (usb_interrupt_callback \/ usb_control_callback)

\* libusb returns after 100 ms.
NoEvent ==
    /\ EventsFrame
    /\ UNCHANGED <<state, devh, int_pending, control_pending, report_offset, report, owned>>

Unplug ==
    /\ plugged
    /\ plugged' = FALSE
    /\ devh' = IF devh # "open" THEN devh ELSE IF owned = {} THEN "unnoticed" ELSE "gone"
    /\ UNCHANGED <<pc, state, int_pending, control_pending, report_offset, report, owned, sent, failed>>

Plug ==
    /\ ~plugged
    /\ plugged' = TRUE
    /\ UNCHANGED <<pc, state, devh, int_pending, control_pending, report_offset, report,
                   owned, sent, failed>>

usb_process == Switch \/ Callback \/ NoEvent

Next == usb_process \/ Unplug \/ Plug

\* usb_process is called for ever; libusb ends every transfer, at the latest
\* with a time-out; opening a dongle that stays, submitting to it and sending it
\* a part succeed sooner or later.
Fairness ==
    /\ WF_vars(usb_process) /\ SF_vars(Callback)
    /\ SF_vars(Switch /\ OpenDevice) /\ SF_vars(Switch /\ Submit)
    /\ SF_vars(Callback /\ PartSent)

Spec == usb_init /\ [][Next]_vars /\ Fairness

-----------------------------------------------------------------------------
\* No transfer is in flight when the device is closed, although a restart waits
\* for the interrupt transfer only (main.c:375-395), and the flags that say so
\* agree with libusb.
NothingInFlight ==
    /\ devh = "NULL" => owned = {}
    /\ int_pending <=> "int" \in owned
    /\ control_pending <=> "control" \in owned

\* The two kinds of transfer take turns (main.c:333, 346), so that neither
\* callback meets the other's transfer.
TakeTurns == ~(int_pending /\ control_pending)

\* The three parts of a report are of one content and go out in order, although
\* the report is changed in place by a callback (main.c:184-216) and errors
\* interrupt the sequence.
PartsOfOneReport ==
    [][sent' # sent /\ sent'.offset # 0 =>
         /\ sent'.report = sent.report
         /\ sent'.offset = sent.offset + 7]_vars

\* The driver finds the dongle again after it has been unplugged, if a transfer was
\* in flight to notice it (main.c:159-165, 234-242, 375-395).
Recovers == <>[]plugged /\ [](devh # "unnoticed") => []<>(devh = "open" /\ int_pending)

\* main.c:338 and 367: "cleaning up device and starting anew"
StartsAnew == failed ~> devh = "NULL"
=============================================================================
