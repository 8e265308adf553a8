--------------------------------- MODULE Usb ---------------------------------
(***************************************************************************)
(* firmware/dongle/usb.c as a whole: the interrupt handler, the functions   *)
(* the main loop calls, and the host on the other side of the bus.          *)
(*                                                                         *)
(* The main loop is cut into steps wherever an interrupt or a bus           *)
(* transaction in between could matter: each access to a variable shared    *)
(* with the handler is a step, and inside a section that masks interrupts   *)
(* (E_DIS = 1) each access to a register shared with the SIE is one.  The    *)
(* handler runs to completion.  The loop calls usb_get_report06, then       *)
(* usb_set_report04, then usb_process (main.c:75-79 through whb04b.c).       *)
(***************************************************************************)
EXTENDS UsbHost, UsbEp1, Timer

CONSTANTS
    POLL_TICKS,          \* how long usb_get_report06 waits: 10 ticks
    MAX_LAG,             \* most ticks between two readings of the clock by the loop
    BYTE                 \* values of a byte of USB_IDLE_SETTING: 256

ASSUME LoopAssumption ==
    /\ POLL_TICKS \in Nat /\ MAX_LAG \in Nat /\ BYTE \in Nat
    /\ 0 < POLL_TICKS /\ POLL_TICKS <= MAX_LAG /\ MAX_LAG < TICK_MOD
    /\ 1 < BYTE

VARIABLES
    pc,
    ticks,               \* timer 0
    now,                 \* local: start_ticks or ticks
    low,                 \* local: low byte of USB_IDLE_SETTING, already read
    USB_PROCESS_TICKS,
    buffer,              \* the caller's buffer, being filled
    taken                \* the report usb_get_report06 returned last

clockVars == <<ticks, now, USB_PROCESS_TICKS>>
reportVars == <<buffer, taken>>
loopVars == <<pc, clockVars, low, reportVars>>
vars == <<sieVars, ep0Vars, host0Vars, ep1Vars, loopVars>>

TypeOK ==
    /\ SieTypeOK /\ Ep0TypeOK /\ Host0TypeOK /\ Ep1TypeOK
    /\ pc \in {"get_start", "get_test", "get_check", "get_copy0", "get_copy7", "get_copy14",
               "set", "process", "idle_low", "idle_high", "cmp_low", "cmp_high",
               "send", "copy_1", "copy_2", "length", "arm"}
    /\ ticks \in Tick /\ now \in Tick /\ USB_PROCESS_TICKS \in Tick
    /\ low \in 0 .. BYTE - 1
    /\ buffer \in [Offsets -> Chunk]
    /\ taken \in [Offsets -> Chunk]

Init ==
    /\ SieInit /\ Ep0Init /\ Host0Init /\ Ep1Init
    /\ pc = "get_start"
    /\ ticks = 0 /\ now = 0 /\ USB_PROCESS_TICKS = 0
    /\ low = 0
    /\ buffer = ReportZero
    /\ taken = ReportZero

Goto(from, to) == pc = from /\ pc' = to /\ MainRuns

SetMask(m) ==
    /\ E_DIS' = m
    /\ UNCHANGED <<UIF_TRANSFER, UIF_SUSPEND, UIF_BUS_RST, USB_INT_ST, running, faults>>

-----------------------------------------------------------------------------
(* usb_get_report06 *)

\* The first test of the loop comes at once: less than POLL_TICKS later.
GetStart ==
    /\ Goto("get_start", "get_check")
    /\ now' = ticks
    /\ UNCHANGED <<sieVars, ep0Vars, host0Vars, ep1Vars, ticks, USB_PROCESS_TICKS, low, reportVars>>

GetTest ==
    /\ Goto("get_test", IF TickDiff(ticks, now) < POLL_TICKS THEN "get_check" ELSE "set")
    /\ UNCHANGED <<sieVars, ep0Vars, host0Vars, ep1Vars, clockVars, low, reportVars>>

GetNothing ==
    /\ USB_HID_REPORT06_READY # 1
    /\ Goto("get_check", "get_test")
    /\ UNCHANGED <<sieVars, ep0Vars, host0Vars, ep1Vars, clockVars, low, reportVars>>

\* Mutated form: the report is copied with interrupts enabled.
GetMask_off == 0

\* Line 237, left set when there is a report
GetMask == 1

GetReady ==
    /\ USB_HID_REPORT06_READY = 1
    /\ Goto("get_check", "get_copy0")
    /\ SetMask(GetMask)
    /\ UNCHANGED <<ep0Vars, host0Vars, ep1Vars, clockVars, low, reportVars>>

GetCopy(o, from, to) ==
    /\ Goto(from, to)
    /\ buffer' = [buffer EXCEPT ![o] = USB_HID_REPORT06[o]]
    /\ UNCHANGED <<sieVars, ep0Vars, host0Vars, ep1Vars, clockVars, low, taken>>

\* Mutated form: the report is left marked as unread.
GetReturn_keep ==
    /\ Goto("get_copy14", "set")
    /\ buffer' = [buffer EXCEPT ![14] = USB_HID_REPORT06[14]]
    /\ taken' = buffer'
    /\ SetMask(0)
    /\ UNCHANGED <<ep0Vars, host0Vars, ep1Vars, clockVars, low>>

GetReturn ==
    /\ Goto("get_copy14", "set")
    /\ buffer' = [buffer EXCEPT ![14] = USB_HID_REPORT06[14]]
    /\ taken' = buffer'
    /\ USB_HID_REPORT06_READY' = 0
    /\ SetMask(0)
    /\ UNCHANGED <<USB_HID_REPORT06, USB_HID_REPORT06_OFFSET, ep0RegVars, ep0FwVars>>
    /\ UNCHANGED <<host0Vars, ep1Vars, clockVars, low>>

-----------------------------------------------------------------------------
(* usb_set_report04, with whatever report the caller has built *)
SetReport04 ==
    /\ Goto("set", "process")
    /\ \E r \in Report04s : usb_set_report04(r)
    /\ UNCHANGED <<sieVars, ep0Vars, host0Vars, clockVars, low, reportVars>>

-----------------------------------------------------------------------------
(* usb_process.  The 16-bit idle setting is read a byte at a time, twice,    *)
(* with interrupts enabled.                                                 *)
Low(x) == x % BYTE
High(x) == x \div BYTE

ProcessStart ==
    /\ Goto("process", "idle_low")
    /\ now' = ticks
    /\ UNCHANGED <<sieVars, ep0Vars, host0Vars, ep1Vars, ticks, USB_PROCESS_TICKS, low, reportVars>>

ReadIdleLow(from, to) ==
    /\ Goto(from, to)
    /\ low' = Low(USB_IDLE_SETTING)
    /\ UNCHANGED <<sieVars, ep0Vars, host0Vars, ep1Vars, clockVars, reportVars>>

\* Mutated form: an idle setting of 0 is not special.
IdleOff_never == FALSE

\* Line 197, once the high byte is read as well
IdleOff == low = 0 /\ High(USB_IDLE_SETTING) = 0

TestIdle ==
    /\ Goto("idle_high", IF IdleOff THEN "send" ELSE "cmp_low")
    /\ UNCHANGED <<sieVars, ep0Vars, host0Vars, ep1Vars, clockVars, low, reportVars>>

\* Line 198
IdleOver == TickDiff(now, USB_PROCESS_TICKS) > High(USB_IDLE_SETTING) * BYTE + low

CompareIdle ==
    /\ Goto("cmp_high", "send")
    /\ USB_SEND_EP1' = IF IdleOver THEN 1 ELSE USB_SEND_EP1
    /\ UNCHANGED <<ep1RegVars, USB_HID_REPORT04, host1Vars, changed, repeats>>
    /\ UNCHANGED <<sieVars, ep0Vars, host0Vars, clockVars, low, reportVars>>

SendNot ==
    /\ ~Ep1MaySend
    /\ Goto("send", "get_start")
    /\ UNCHANGED <<sieVars, ep0Vars, host0Vars, ep1Vars, clockVars, low, reportVars>>

\* Mutated form: the packet is prepared with interrupts enabled.
SendMask_off == 0

\* Line 203
SendMask == 1

Send ==
    /\ Ep1MaySend
    /\ Goto("send", "copy_1")
    /\ SetMask(SendMask)
    /\ USB_PROCESS_TICKS' = now
    /\ UNCHANGED <<ep0Vars, host0Vars, ep1Vars, ticks, now, low, reportVars>>

CopyFirst ==
    /\ Goto("copy_1", "copy_2")
    /\ CopyReport04(1)
    /\ UNCHANGED <<sieVars, ep0Vars, host0Vars, USB_SEND_EP1, clockVars, low, reportVars>>

CopySecond ==
    /\ Goto("copy_2", "length")
    /\ CopyReport04(2)
    /\ USB_SEND_EP1' = 0
    /\ UNCHANGED <<sieVars, ep0Vars, host0Vars, clockVars, low, reportVars>>

Length ==
    /\ Goto("length", "arm")
    /\ SetLength
    /\ UNCHANGED <<sieVars, ep0Vars, host0Vars, clockVars, low, reportVars>>

EnableTransmitter ==
    /\ Goto("arm", "get_start")
    /\ Arm(USB_IDLE_SETTING)
    /\ SetMask(0)
    /\ UNCHANGED <<ep0Vars, host0Vars, clockVars, low, reportVars>>

MainLoop ==
    \/ GetStart \/ GetTest \/ GetNothing \/ GetReady
    \/ GetCopy(0, "get_copy0", "get_copy7")
    \/ GetCopy(7, "get_copy7", "get_copy14")
    \/ GetReturn
    \/ SetReport04
    \/ ProcessStart
    \/ ReadIdleLow("idle_low", "idle_high")
    \/ TestIdle
    \/ ReadIdleLow("cmp_low", "cmp_high")
    \/ CompareIdle
    \/ SendNot \/ Send \/ CopyFirst \/ CopySecond \/ Length \/ EnableTransmitter

-----------------------------------------------------------------------------
(* Interrupts *)

\* Between two readings of the clock the loop lets at most MAX_LAG ticks pass.
timer0_isr ==
    /\ IsrRuns
    /\ TickDiff(ticks, now) < MAX_LAG
    /\ ticks' = NextTick(ticks)
    /\ UNCHANGED <<sieVars, ep0Vars, host0Vars, ep1Vars, pc, now, USB_PROCESS_TICKS, low, reportVars>>

\* A suspend flagged by then is acknowledged in the same call.
ClearTransfer ==
    /\ UIF_TRANSFER' = FALSE
    /\ UIF_SUSPEND' = FALSE
    /\ UNCHANGED <<E_DIS, UIF_BUS_RST, USB_INT_ST, faults>>

\* Line 271 is folded into the SETUP cases of usb_handle_EP0.
IsrEp0 ==
    /\ IsrRuns /\ UIF_TRANSFER /\ USB_INT_ST[2] = 0
    /\ usb_handle_EP0
    /\ ClearTransfer
    /\ repeats' = IF USB_IDLE_SETTING' # 0 THEN 0 ELSE repeats
    /\ UNCHANGED <<host0Vars, ep1RegVars, ep1FwVars, host1Vars, changed, loopVars>>

IsrEp1 ==
    /\ IsrRuns /\ UIF_TRANSFER /\ USB_INT_ST[2] = 1
    /\ usb_handle_EP1
    /\ ClearTransfer
    /\ UNCHANGED <<running, ep0Vars, host0Vars, loopVars>>

\* Only a suspend interrupt: line 271 sees the token of the last transaction.
IsrSuspend ==
    /\ IsrRuns /\ ~UIF_TRANSFER /\ UIF_SUSPEND
    /\ UIF_SUSPEND' = FALSE
    /\ UEP0_CTRL' = IF USB_INT_ST[1] = "SETUP" THEN Nak0 ELSE UEP0_CTRL
    /\ UNCHANGED <<E_DIS, UIF_TRANSFER, UIF_BUS_RST, USB_INT_ST, running, faults>>
    /\ UNCHANGED <<report06Vars, ep0FwVars, USB_EP0_BUF, UEP0_T_LEN, USB_DEV_AD>>
    /\ UNCHANGED <<host0Vars, ep1Vars, loopVars>>

\* The last block of the handler, after the two others
IsrBusReset ==
    /\ IsrRuns /\ ~UIF_TRANSFER /\ ~UIF_SUSPEND /\ UIF_BUS_RST
    /\ Ep0BusReset
    /\ Ep1BusReset
    /\ UIF_BUS_RST' = FALSE
    /\ UNCHANGED <<E_DIS, UIF_TRANSFER, UIF_SUSPEND, USB_INT_ST, running, faults>>
    /\ UNCHANGED <<host0Vars, loopVars>>

usb_isr == IsrEp0 \/ IsrEp1 \/ IsrSuspend \/ IsrBusReset

-----------------------------------------------------------------------------
(* The bus *)
HostEp1(lost) ==
    /\ configured /\ USB_DEV_AD = hostAddr
    /\ HostPollsEp1(lost)
    /\ UNCHANGED <<ep0Vars, host0Vars, loopVars>>

\* A host that does not find the device at its new address resets the bus;
\* otherwise a reset is a fault.
BusReset ==
    /\ running /\ ~UIF_BUS_RST
    /\ Fault(~unconfirmed)
    /\ UIF_BUS_RST' = TRUE
    /\ Host0BusReset
    /\ hostTog1' = 0
    /\ UNCHANGED <<E_DIS, UIF_TRANSFER, UIF_SUSPEND, USB_INT_ST, running>>
    /\ UNCHANGED <<ep0Vars, ep1RegVars, ep1FwVars, view, fate, changed, repeats, loopVars>>

\* The bus is not left idle in the middle of a transfer.
Suspend ==
    /\ running /\ stage = "idle" /\ ~UIF_SUSPEND /\ faults > 0
    /\ faults' = faults - 1
    /\ UIF_SUSPEND' = TRUE
    /\ UNCHANGED <<E_DIS, UIF_TRANSFER, UIF_BUS_RST, USB_INT_ST, running>>
    /\ UNCHANGED <<ep0Vars, host0Vars, ep1Vars, loopVars>>

Bus ==
    \/ Host0Next /\ UNCHANGED <<ep1Vars, loopVars>>
    \/ \E lost \in BOOLEAN : HostEp1(lost)
    \/ BusReset
    \/ Suspend

Next == MainLoop \/ timer0_isr \/ usb_isr \/ Bus

\* Between two interrupts the processor has time for the main loop, a pending
\* interrupt is taken when the mask is lifted, and the host controller polls
\* endpoint 1 once per interval whatever else it transfers.
Spec ==
    /\ Init /\ [][Next]_vars
    /\ SF_vars(MainLoop) /\ WF_vars(usb_isr) /\ SF_vars(timer0_isr)
    /\ SF_vars(HostEp1(FALSE))
=============================================================================
