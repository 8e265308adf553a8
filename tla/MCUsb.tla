-------------------------------- MODULE MCUsb --------------------------------
(***************************************************************************)
(* Instances of Usb: what the host sends in each run.                       *)
(***************************************************************************)
EXTENDS UsbProperties

CONSTANTS r0, r1       \* two contents of report 04

Two == {r0, r1}
One == {r0}

\* Only the display data
ReportRequests == {SetConfiguration(1), SetReport(6)}

\* Only the idle setting: off, or two ticks
IdleRequests == {SetConfiguration(1), HidOut("SET_IDLE", 0), HidOut("SET_IDLE", 2)}

\* The idle setting stays as it is
ConfigureOnly == {SetConfiguration(1)}

\* Everything else: descriptors shorter and longer than a packet and than
\* what is asked for, requests the firmware stalls and some it ignores
ControlRequests ==
    {GetDescriptor("device", USB_DESCR_TYP_DEVICE, n) : n \in {8, 64}}
    \cup {GetDescriptor("device", USB_DESCR_TYP_CONFIG, 255),
          GetDescriptor("device", USB_DESCR_TYP_ENDP, 5),
          GetDescriptor("device", 3, 255),
          GetDescriptor("interf", USB_DESCR_TYP_HID, 9),
          Packet("standard", "in", "device", "GET_DESCRIPTOR", USB_DESCR_TYP_DEVICE, 1, 18),
          SetAddress(5), SetConfiguration(1), SetConfiguration(2),
          StandardIn("GET_STATUS", 2), StandardOut("CLEAR_FEATURE"),
          StandardIn("UNKNOWN", 1), StandardOut("SET_DESCRIPTOR"),
          HidOut("SET_IDLE", 0), HidOut("SET_PROTOCOL", 0),
          SetReport(255), VendorIn(4)}
=============================================================================
