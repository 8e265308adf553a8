------------------------------- MODULE UsbSie -------------------------------
(***************************************************************************)
(* What the CH554's serial interface engine (SIE), the interrupt handler    *)
(* and the main loop of firmware/dongle/usb.c share: the interrupt flags,   *)
(* the latched token and the interrupt mask.  Also the budget of things     *)
(* that may go wrong on the bus.                                            *)
(***************************************************************************)
EXTENDS Integers

CONSTANT MaxFaults       \* lost handshakes, aborts, bus resets and suspends in a run

ASSUME MaxFaultsAssumption == MaxFaults \in Nat

VARIABLES
    E_DIS,               \* 1 while the main loop masks all interrupts
    UIF_TRANSFER,        \* a transaction has completed
    UIF_SUSPEND,         \* the bus went idle, or woke up
    UIF_BUS_RST,         \* the host has reset the bus
    USB_INT_ST,          \* <<token, endpoint>> of the last transaction
    running,             \* FALSE once reset_to_bootloader has been called
    faults               \* faults the bus may still inject

sieVars == <<E_DIS, UIF_TRANSFER, UIF_SUSPEND, UIF_BUS_RST, USB_INT_ST, running, faults>>

Token == {<<"SETUP", 0>>, <<"IN", 0>>, <<"OUT", 0>>, <<"IN", 1>>}

SieTypeOK ==
    /\ E_DIS \in {0, 1}
    /\ UIF_TRANSFER \in BOOLEAN
    /\ UIF_SUSPEND \in BOOLEAN
    /\ UIF_BUS_RST \in BOOLEAN
    /\ USB_INT_ST \in Token
    /\ running \in BOOLEAN
    /\ faults \in 0 .. MaxFaults

\* usb_reset and usb_setup leave no flag pending (usb.c:157-161, 185-186)
SieInit ==
    /\ E_DIS = 0
    /\ UIF_TRANSFER = FALSE
    /\ UIF_SUSPEND = FALSE
    /\ UIF_BUS_RST = FALSE
    /\ USB_INT_ST = <<"OUT", 0>>
    /\ running = TRUE
    /\ faults = MaxFaults

\* bUC_INT_BUSY (usb.c:144): the SIE answers busy from the end of a transaction
\* until the handler clears UIF_TRANSFER.  Nothing is addressed to the device
\* while the host holds the bus in reset.
SieReady == running /\ ~UIF_TRANSFER /\ ~UIF_BUS_RST

InterruptPending == UIF_TRANSFER \/ UIF_SUSPEND \/ UIF_BUS_RST

\* Interrupts preempt the main loop at once unless it has masked them.
MainRuns == running /\ (E_DIS = 1 \/ ~InterruptPending)
IsrRuns == running /\ E_DIS = 0

\* A transaction reaches the firmware; when the handshake to an IN packet is
\* lost the SIE sees no acknowledge and raises no interrupt.
Transaction(token, ep, raised) ==
    /\ UIF_TRANSFER' = raised
    /\ USB_INT_ST' = IF raised THEN <<token, ep>> ELSE USB_INT_ST
    /\ UNCHANGED <<E_DIS, UIF_SUSPEND, UIF_BUS_RST, running>>

\* What a lost handshake costs
Fault(lost) ==
    /\ lost => faults > 0
    /\ faults' = IF lost THEN faults - 1 ELSE faults
=============================================================================
