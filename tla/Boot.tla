-------------------------------- MODULE Boot --------------------------------
(***************************************************************************)
(* From reset to the main loop: firmware/dongle/main.c with misc.c, flash.c *)
(* and uart.c, and the ways back to reset.  The radio's calls, the writes   *)
(* to dataflash and the bytes of the banner all go through todo, one step   *)
(* after the other; interrupts come between.                                *)
(***************************************************************************)
EXTENDS Radio

CONSTANTS
    Identity,            \* what main programs from offset 10 on
    BANNER,              \* bytes of the banner: 5
    MaxLapses            \* bound: interrupts within an unlock sequence

ASSUME BootAssumption ==
    /\ Identity \in Seq(0 .. 254) /\ Identity # <<>> /\ BANNER \in Nat /\ MaxLapses \in Nat

VARIABLES
    phase,               \* how far main has come
    RESET_KEEP,
    dataflash,           \* bytes from offset 10 on, 0xff where nothing was written
    config,              \* the identity whb04b_setup has read
    safe,                \* protected registers may be written
    bDATA_WE,
    uart0_tx_done,
    uart                 \* the transmitter: "idle", "busy", or "TI" when it is done

VARIABLES
    requested,           \* history: the host has asked for the bootloader,
    programmed,          \* an earlier start got past the programming,
    spoiled,             \* a programming was cut short or lost a byte
    lapses

restVars == <<state, hw3000_channel, rx_buffer, chip, ticks, lag, waited, gaveUp>>
flashVars == <<dataflash, safe, bDATA_WE, spoiled, lapses>>
uartVars == <<uart0_tx_done, uart>>
mainVars == <<phase, RESET_KEEP, config, requested, programmed>>
bootVars == <<mainVars, flashVars, uartVars>>

Erased == [i \in DOMAIN Identity |-> 255]

\* Calls of w steps each, one after the other
InTurn(w, calls) ==
    [k \in 1 .. w * Len(calls) |-> calls[1 + ((k - 1) \div w)][1 + ((k - 1) % w)]]

-----------------------------------------------------------------------------
(* flash.c *)

dataflash_write(i) ==
    << <<"unlock">>, <<"enable">>, <<"program", i>>, <<"unlock">>, <<"disable">>, <<"lock">> >>

FlashFrame == Done /\ UNCHANGED <<restVars, mainVars, uartVars, lapses>>

Unlock == Step("unlock") /\ safe' = TRUE /\ UNCHANGED <<dataflash, bDATA_WE, spoiled>> /\ FlashFrame

EnableWrite ==
    /\ Step("enable")
    /\ bDATA_WE' = (bDATA_WE \/ safe)
    /\ UNCHANGED <<dataflash, safe, spoiled>> /\ FlashFrame

Program ==
    /\ Step("program")
    /\ dataflash' = IF bDATA_WE THEN [dataflash EXCEPT ![Arg(1)] = Identity[Arg(1)]] ELSE dataflash
    /\ spoiled' = (spoiled \/ ~bDATA_WE)
    /\ UNCHANGED <<safe, bDATA_WE>> /\ FlashFrame

DisableWrite ==
    /\ Step("disable")
    /\ bDATA_WE' = (bDATA_WE /\ ~safe)
    /\ UNCHANGED <<dataflash, safe, spoiled>> /\ FlashFrame

Lock == Step("lock") /\ safe' = FALSE /\ UNCHANGED <<dataflash, bDATA_WE, spoiled>> /\ FlashFrame

\* Outside the repository: an interrupt, the timer's at least, takes longer than
\* the chip leaves the protected registers open.
WindowLapses ==
    /\ safe /\ lapses < MaxLapses
    /\ safe' = FALSE
    /\ lapses' = lapses + 1
    /\ UNCHANGED <<todo, restVars, mainVars, uartVars, dataflash, bDATA_WE, spoiled>>

-----------------------------------------------------------------------------
(* uart.c *)

\* Mutated form: the flag is cleared after the byte has been sent off.
uart0_block_tx_byte_late == << <<"SBUF">>, <<"tx_done">>, <<"wait_tx">> >>

uart0_block_tx_byte == << <<"tx_done">>, <<"SBUF">>, <<"wait_tx">> >>

UartFrame == UNCHANGED <<restVars, mainVars, flashVars>>

ClearDone == Step("tx_done") /\ Done /\ uart0_tx_done' = FALSE /\ UNCHANGED uart /\ UartFrame

SendByte == Step("SBUF") /\ Done /\ uart' = "busy" /\ UNCHANGED uart0_tx_done /\ UartFrame

WaitDone == Step("wait_tx") /\ uart0_tx_done /\ Done /\ UNCHANGED uartVars /\ UartFrame

UartSent == uart = "busy" /\ uart' = "TI" /\ UNCHANGED <<todo, uart0_tx_done>> /\ UartFrame

uart0_isr ==
    /\ uart = "TI"
    /\ uart0_tx_done' = TRUE /\ uart' = "idle"
    /\ UNCHANGED todo /\ UartFrame

-----------------------------------------------------------------------------
(* main, up to the loop *)

Enter(from, to) == phase = from /\ todo = <<>> /\ phase' = to

\* Mutated form: the flag is left as it is.
bootloader_check_keep ==
    /\ phase = "check" /\ RESET_KEEP = 85
    /\ phase' = "bootloader"
    /\ requested' = FALSE
    /\ UNCHANGED <<RESET_KEEP, todo>>

bootloader_check ==
    /\ phase = "check" /\ RESET_KEEP = 85
    /\ RESET_KEEP' = 0
    /\ phase' = "bootloader"
    /\ requested' = FALSE
    /\ UNCHANGED todo

\* Clock, UART, USB and timer, the interrupts, then hw3000_setup
SetUp ==
    /\ Enter("check", "radio") /\ RESET_KEEP # 85
    /\ todo' = hw3000_setup(hw3000_channel)
    /\ UNCHANGED <<RESET_KEEP, requested>>

Start ==
    /\ bootloader_check \/ SetUp
    /\ UNCHANGED <<restVars, config, programmed, flashVars, uartVars>>

whb04b_setup ==
    /\ Enter("radio", "link")
    /\ config' = dataflash
    /\ hw3000_channel' = config'[1]
    /\ todo' = hw3000_channel_change(hw3000_channel')
    /\ UNCHANGED <<state, rx_buffer, chip, ticks, lag, waited, gaveUp>>
    /\ UNCHANGED <<RESET_KEEP, requested, programmed, flashVars, uartVars>>

\* Mutated form: the last byte is forgotten.
WriteIdentity_short == InTurn(6, [i \in 1 .. Len(Identity) - 1 |-> dataflash_write(i)])

WriteIdentity == InTurn(6, [i \in 1 .. Len(Identity) |-> dataflash_write(i)])

MainFrame ==
    UNCHANGED <<restVars, RESET_KEEP, config, requested, programmed, flashVars, uartVars>>

\* Whether to program is told by the first byte alone.
TestIdentity ==
    /\ Enter("link", "identity")
    /\ todo' = IF dataflash[1] = 255 THEN WriteIdentity ELSE <<>>
    /\ MainFrame

Banner ==
    /\ Enter("identity", "banner")
    /\ todo' = InTurn(3, [i \in 1 .. BANNER |-> uart0_block_tx_byte])
    /\ MainFrame

Loop == Enter("banner", "loop") /\ UNCHANGED todo /\ MainFrame

BootStep ==
    \/ Start \/ whb04b_setup \/ TestIdentity \/ Banner \/ Loop
    \/ Unlock \/ EnableWrite \/ Program \/ DisableWrite \/ Lock
    \/ ClearDone \/ SendByte \/ WaitDone

-----------------------------------------------------------------------------
(* Back to reset *)

Cut == \E i \in DOMAIN todo : todo[i][1] = "program"

\* Memory is as the C start-up code leaves it.
Reset ==
    /\ phase' = "check"
    /\ todo' = <<>>
    /\ state' = "POWER_DOWN" /\ hw3000_channel' = 0 /\ rx_buffer' = <<>>
    /\ ticks' = 0 /\ lag' = 0 /\ waited' = 0 /\ gaveUp' = FALSE
    /\ config' = Erased
    /\ safe' = FALSE /\ bDATA_WE' = FALSE
    /\ uart0_tx_done' = TRUE /\ uart' = "idle"
    /\ programmed' = (programmed \/ phase \in {"banner", "loop"})
    /\ spoiled' = (spoiled \/ Cut)
    /\ UNCHANGED <<dataflash, lapses>>

\* From the USB interrupt, which is enabled from SetUp on.  The radio stays on.
reset_to_bootloader ==
    /\ phase \notin {"check", "bootloader"}
    /\ RESET_KEEP' = 85
    /\ requested' = TRUE
    /\ UNCHANGED chip
    /\ Reset

\* Outside the repository: RESET_KEEP survives a reset but not the loss of power.
PowerFailure ==
    /\ RESET_KEEP' = 0
    /\ requested' = FALSE
    /\ chip' = PoweredOff
    /\ Reset

\* The bootloader starts the firmware by a reset.
BootloaderExits ==
    /\ phase = "bootloader"
    /\ UNCHANGED <<RESET_KEEP, requested, chip>>
    /\ Reset
=============================================================================
