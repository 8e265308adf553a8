------------------------------ MODULE Report06 ------------------------------
(***************************************************************************)
(* HID report 06, the display data, in firmware/dongle/usb.c: it arrives in *)
(* chunks of 7 bytes, one per SET_REPORT, which the interrupt handler       *)
(* assembles, and is handed to the main loop by a flag.                     *)
(*                                                                         *)
(* A chunk is <<report it was cut from, offset>>; the chunk at offset 0 is  *)
(* the one that starts with the magic bytes fe fd.                          *)
(***************************************************************************)
EXTENDS Naturals

VARIABLES
    USB_HID_REPORT06,    \* chunk stored at each offset
    USB_HID_REPORT06_OFFSET,
    USB_HID_REPORT06_READY

report06Vars == <<USB_HID_REPORT06, USB_HID_REPORT06_OFFSET, USB_HID_REPORT06_READY>>

Offsets == {0, 7, 14}

\* Mutated form: a report being overwritten is not withdrawn from the reader.
StoreChunk_no_retract(chunk) ==
    LET next == USB_HID_REPORT06_OFFSET + 7 IN
    /\ USB_HID_REPORT06' = [USB_HID_REPORT06 EXCEPT ![USB_HID_REPORT06_OFFSET] = chunk]
    /\ USB_HID_REPORT06_OFFSET' = IF next >= 21 THEN 0 ELSE next
    /\ USB_HID_REPORT06_READY' = IF next >= 21 THEN 1 ELSE USB_HID_REPORT06_READY

\* Mutated form: the end of the report is found one chunk late.
StoreChunk_late(chunk) ==
    LET next == USB_HID_REPORT06_OFFSET + 7 IN
    /\ next <= 24
    /\ USB_HID_REPORT06' = [USB_HID_REPORT06 EXCEPT ![USB_HID_REPORT06_OFFSET] = chunk]
    /\ USB_HID_REPORT06_OFFSET' = IF next > 21 THEN 0 ELSE next
    /\ USB_HID_REPORT06_READY' = IF next > 21 THEN 1
                                 ELSE IF USB_HID_REPORT06_OFFSET = 0 THEN 0
                                 ELSE USB_HID_REPORT06_READY

\* Lines 507-514; the first chunk has withdrawn the previous report (line 500)
StoreChunk(chunk) ==
    LET next == USB_HID_REPORT06_OFFSET + 7 IN
    /\ next <= 24
    /\ USB_HID_REPORT06' = [USB_HID_REPORT06 EXCEPT ![USB_HID_REPORT06_OFFSET] = chunk]
    /\ USB_HID_REPORT06_OFFSET' = IF next >= 21 THEN 0 ELSE next
    /\ USB_HID_REPORT06_READY' = IF next >= 21 THEN 1
                                 ELSE IF USB_HID_REPORT06_OFFSET = 0 THEN 0
                                 ELSE USB_HID_REPORT06_READY

\* Mutated form: any chunk may open a report.
HasMagic_any(chunk) == chunk[2] \in Offsets

HasMagic(chunk) == chunk[2] = 0

\* Mutated form: a chunk without the magic is skipped over.
DropChunk_count(chunk) ==
    /\ USB_HID_REPORT06_OFFSET = 0 /\ ~HasMagic(chunk)
    /\ USB_HID_REPORT06_READY' = 0
    /\ USB_HID_REPORT06_OFFSET' = 7
    /\ UNCHANGED USB_HID_REPORT06

\* Lines 499-504: a report must start with the magic
DropChunk(chunk) ==
    /\ USB_HID_REPORT06_OFFSET = 0 /\ ~HasMagic(chunk)
    /\ USB_HID_REPORT06_READY' = 0
    /\ UNCHANGED <<USB_HID_REPORT06, USB_HID_REPORT06_OFFSET>>

OutReport06(chunk) ==
    \/ DropChunk(chunk)
    \/ (USB_HID_REPORT06_OFFSET = 0 => HasMagic(chunk)) /\ StoreChunk(chunk)
=============================================================================
