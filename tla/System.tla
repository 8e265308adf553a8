------------------------------- MODULE System -------------------------------
(***************************************************************************)
(* The host driver and the dongle at the two ends of the cable: the three   *)
(* parts of a report leave driver/main.c one by one and are assembled by    *)
(* usb.c, each side with a count of its own.  A transfer that fails may     *)
(* have reached the dongle or not; a dongle that is unplugged loses its     *)
(* count, a driver that starts anew keeps its own.                          *)
(***************************************************************************)
EXTENDS Driver

VARIABLES
    USB_HID_REPORT06, USB_HID_REPORT06_OFFSET, USB_HID_REPORT06_READY,
    onWire,              \* the part in flight has not reached the dongle yet
    shown                \* report the main loop took last: a content, "none" or "mixed"

dongleVars == <<USB_HID_REPORT06, USB_HID_REPORT06_OFFSET, USB_HID_REPORT06_READY, shown>>
systemVars == <<vars, dongleVars, onWire>>

Dongle == INSTANCE Report06

\* The report at power-up belongs to no content of the driver's.
DonglePowerUp(report06, offset, ready, display) ==
    /\ report06 = [o \in Dongle!Offsets |-> <<"none", o>>]
    /\ offset = 0 /\ ready = 0
    /\ display = "none"

SystemInit ==
    /\ usb_init
    /\ DonglePowerUp(USB_HID_REPORT06, USB_HID_REPORT06_OFFSET, USB_HID_REPORT06_READY, shown)
    /\ onWire = FALSE

Content(r) == IF \A o \in Dongle!Offsets : r[o] = <<r[0][1], o>> THEN r[0][1] ELSE "mixed"

-----------------------------------------------------------------------------
DriverSwitch ==
    /\ Switch
    /\ onWire' = (onWire \/ (control_pending' /\ ~control_pending))
    /\ UNCHANGED dongleVars

\* A part counts as sent only if the dongle has acknowledged it.
DriverCallback ==
    /\ Callback
    /\ PartSent => ~onWire
    /\ onWire' = (onWire /\ "control" \in owned')
    /\ UNCHANGED dongleVars

DriverNoEvent == NoEvent /\ UNCHANGED <<dongleVars, onWire>>

\* The dongle's handler gets the part.
Deliver ==
    /\ onWire /\ devh = "open"
    /\ Dongle!OutReport06(<<sent.report, sent.offset>>)
    /\ onWire' = FALSE
    /\ UNCHANGED <<vars, shown>>

\* usb_get_report06, called from the main loop
LoopTakes ==
    /\ USB_HID_REPORT06_READY = 1
    /\ shown' = Content(USB_HID_REPORT06)
    /\ USB_HID_REPORT06_READY' = 0
    /\ UNCHANGED <<vars, USB_HID_REPORT06, USB_HID_REPORT06_OFFSET, onWire>>

PowerLost ==
    /\ Unplug
    /\ DonglePowerUp(USB_HID_REPORT06', USB_HID_REPORT06_OFFSET', USB_HID_REPORT06_READY', shown')
    /\ onWire' = FALSE

PluggedIn == Plug /\ UNCHANGED <<dongleVars, onWire>>

driver_process == DriverSwitch \/ DriverCallback \/ DriverNoEvent

SystemNext == driver_process \/ Deliver \/ LoopTakes \/ PowerLost \/ PluggedIn

\* As for the driver alone; the dongle answers, and its main loop, which needs far less
\* time than the host between two reports, does not miss each of them for ever.
SystemFairness ==
    /\ WF_systemVars(driver_process) /\ SF_systemVars(DriverCallback)
    /\ SF_systemVars(DriverSwitch /\ OpenDevice) /\ SF_systemVars(DriverSwitch /\ Submit)
    /\ SF_systemVars(DriverCallback /\ PartSent)
    /\ SF_systemVars(Deliver) /\ SF_systemVars(LoopTakes)

SystemSpec == SystemInit /\ [][SystemNext]_systemVars /\ SystemFairness

-----------------------------------------------------------------------------
\* What may go wrong: the cable, or a control transfer that does not succeed
Disturbed == PowerLost \/ (DriverCallback /\ "control" \in owned \ owned' /\ ~PartSent)

NewData == DriverCallback /\ report_offset' = 0

\* If the disturbances end, the content settles and the dongle keeps sending data,
\* the display ends up with what the driver last had: whatever a failed transfer, a
\* restart of the driver or an unplugged dongle has done to the two counts
\* (driver/main.c:214-215, 244, 375-395 against usb.c:499-514), they come into step.
DisplayFollows ==
    \A r \in Reports :
        /\ <>[][~Disturbed]_systemVars /\ []<><<NewData>>_systemVars
        /\ <>[](report = r /\ devh = "open")
        => <>[](shown = r)
=============================================================================
