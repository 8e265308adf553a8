--------------------------- MODULE FirmwareProofs ---------------------------
(*****************************************************************************)
(* What holds of one processor from reset through the main loop, for every   *)
(* identity, every clock, every patience of the three waits and every reset  *)
(* and power failure: when the bootloader is entered, how long a wait for a  *)
(* transmission lasts, which identity the dongle uses, and how the radio is  *)
(* set up between any two calls.                                             *)
(*****************************************************************************)
EXTENDS Firmware, RadioProofs

-----------------------------------------------------------------------------
(* Steps that have nothing to do with the radio *)

FlashKinds == {"unlock", "enable", "program", "disable", "lock"}
UartKinds == {"tx_done", "SBUF", "wait_tx"}

\* The banner is nothing but bytes sent.
LEMMA BannerSteps == Steps(InTurn(3, [i \in 1 .. BANNER |-> uart0_block_tx_byte]), UartKinds)
<1> DEFINE calls == [i \in 1 .. BANNER |-> uart0_block_tx_byte]
           s == InTurn(3, calls)
<1>1. Len(calls) = BANNER /\ BANNER \in Nat
  BY BootAssumption
<1>2. s = [k \in 1 .. 3 * BANNER |-> calls[1 + ((k - 1) \div 3)][1 + ((k - 1) % 3)]]
  BY <1>1 DEF InTurn
<1>3. \A k \in 1 .. 3 * BANNER : 1 + ((k - 1) \div 3) \in 1 .. BANNER /\ (k - 1) % 3 \in 0 .. 2
  BY <1>1
<1>4. \A j \in 0 .. 2 : uart0_block_tx_byte[1 + j][1] \in UartKinds
  BY DEF uart0_block_tx_byte, UartKinds
<1>5. \A k \in 1 .. 3 * BANNER : s[k][1] \in UartKinds
  <2>1. \A k \in 1 .. 3 * BANNER : s[k] = uart0_block_tx_byte[1 + ((k - 1) % 3)]
    BY <1>2, <1>3
  <2> HIDE DEF s
  <2> QED BY <2>1, <1>3, <1>4
<1>6. s \in Seq({s[k] : k \in 1 .. 3 * BANNER}) /\ DOMAIN s = 1 .. 3 * BANNER
  <2>1. 3 * BANNER \in Nat
    BY <1>1
  <2>2. DOMAIN s = 1 .. 3 * BANNER /\ s = [k \in 1 .. 3 * BANNER |-> s[k]]
    BY <1>2
  <2> HIDE DEF s
  <2> QED BY <2>1, <2>2
<1> QED BY <1>5, <1>6, StepsIn

\* Each byte of the identity is programmed, and nothing else.
LEMMA IdentitySteps ==
    /\ Steps(WriteIdentity, FlashKinds)
    /\ \A k \in DOMAIN WriteIdentity :
          WriteIdentity[k][1] = "program" => WriteIdentity[k][2] \in DOMAIN Identity
    /\ \A i \in DOMAIN Identity :
          \E k \in DOMAIN WriteIdentity : WriteIdentity[k] = <<"program", i>>
<1> DEFINE n == Len(Identity)
           calls == [i \in 1 .. n |-> dataflash_write(i)]
           s == WriteIdentity
<1>1. n \in Nat /\ DOMAIN Identity = 1 .. n /\ Len(calls) = n
  BY BootAssumption
<1>2. s = [k \in 1 .. 6 * n |-> calls[1 + ((k - 1) \div 6)][1 + ((k - 1) % 6)]]
  BY <1>1 DEF InTurn, WriteIdentity
<1> HIDE DEF n, s
<1>3. \A k \in 1 .. 6 * n : 1 + ((k - 1) \div 6) \in 1 .. n /\ (k - 1) % 6 \in 0 .. 5
  BY <1>1
<1>4. \A k \in 1 .. 6 * n : s[k] = dataflash_write(1 + ((k - 1) \div 6))[1 + ((k - 1) % 6)]
  BY <1>2, <1>3
<1>5. \A i : \A j \in 0 .. 5 : /\ dataflash_write(i)[1 + j][1] \in FlashKinds
                               /\ dataflash_write(i)[1 + j][1] = "program" <=> j = 2
                               /\ dataflash_write(i)[3] = <<"program", i>>
  BY DEF dataflash_write, FlashKinds
<1>6. \A k \in 1 .. 6 * n : s[k][1] \in FlashKinds
  BY <1>3, <1>4, <1>5
<1>7. s \in Seq({s[k] : k \in 1 .. 6 * n}) /\ DOMAIN s = 1 .. 6 * n
  <2>1. 6 * n \in Nat
    BY <1>1
  <2>2. DOMAIN s = 1 .. 6 * n /\ s = [k \in 1 .. 6 * n |-> s[k]]
    BY <1>2
  <2> QED BY <2>1, <2>2
<1>8. Steps(s, FlashKinds)
  BY <1>6, <1>7, StepsIn
<1>9. \A k \in 1 .. 6 * n : s[k][1] = "program" => s[k][2] \in 1 .. n
  <2> SUFFICES ASSUME NEW k \in 1 .. 6 * n, s[k][1] = "program" PROVE s[k][2] \in 1 .. n
      OBVIOUS
  <2>1. (k - 1) % 6 = 2
    BY <1>3, <1>4, <1>5
  <2>2. s[k] = <<"program", 1 + ((k - 1) \div 6)>>
    BY <2>1, <1>4, <1>5
  <2> QED BY <2>2, <1>3
<1>10. \A i \in 1 .. n : \E k \in 1 .. 6 * n : s[k] = <<"program", i>>
  <2> SUFFICES ASSUME NEW i \in 1 .. n PROVE \E k \in 1 .. 6 * n : s[k] = <<"program", i>>
      OBVIOUS
  <2> DEFINE k == 6 * (i - 1) + 3
  <2>1. k \in 1 .. 6 * n /\ (k - 1) \div 6 = i - 1 /\ (k - 1) % 6 = 2
    BY <1>1
  <2>2. s[k] = dataflash_write(1 + (i - 1))[1 + 2]
    BY <2>1, <1>4
  <2>3. 1 + (i - 1) = i
    BY <1>1
  <2> QED BY <2>1, <2>2, <2>3, <1>5
<1> QED BY <1>1, <1>7, <1>8, <1>9, <1>10 DEF s

-----------------------------------------------------------------------------
(* The invariants *)

\* The steps that can be left in each phase of main
Allowed(p) ==
    CASE p \in {"check", "bootloader"} -> {}
      [] p = "identity" -> FlashKinds
      [] p = "banner" -> UartKinds
      [] OTHER -> RadioKinds

\* Only the step being made can be the wait for a transmission.
CallInv ==
    /\ phase \in {"check", "bootloader", "radio", "link", "identity", "banner", "loop"}
    /\ Steps(todo, Allowed(phase) \cup {"sent"})
    /\ phase \in {"check", "bootloader"} => todo = <<>>
    /\ \A i \in DOMAIN todo : i # 1 => todo[i][1] # "sent"

\* The wait is as old as the difference on the clock shows, short of a lap.
WaitInv ==
    /\ ticks \in Tick /\ lag \in Nat /\ waited \in Nat
    /\ IF Step("sent")
         THEN /\ Arg(1) \in Tick
              /\ TickDiff(ticks, Arg(1)) = waited
              /\ lag <= waited /\ lag <= MAX_LAG /\ waited - lag <= TX_TICKS
         ELSE waited = 0

\* The byte in memory is the wish of the host.
RequestInv == requested \in BOOLEAN /\ (requested <=> RESET_KEEP = 85)

\* Byte i of the identity is still to be programmed.
Pending(i) == \E k \in DOMAIN todo : todo[k] = <<"program", i>>

Fresh == dataflash = Erased /\ ~programmed /\ phase \in {"check", "bootloader", "radio", "link"}

\* Unless it is spoiled, the dataflash is fresh, or what it lacks is still to come.
FlashInv ==
    /\ dataflash \in [DOMAIN Identity -> 0 .. 255]
    /\ spoiled \in BOOLEAN /\ programmed \in BOOLEAN
    /\ \A k \in DOMAIN todo : todo[k][1] = "program" => todo[k][2] \in DOMAIN Identity
    /\ ~spoiled => Fresh \/ \A i \in DOMAIN Identity : dataflash[i] = Identity[i] \/ Pending(i)
    /\ phase \in {"link", "identity", "banner", "loop"} /\ programmed /\ ~spoiled =>
         config = Identity

FirmwareInv == CallInv /\ WaitInv /\ RequestInv /\ FlashInv

-----------------------------------------------------------------------------
(* What a step does to the variables of the invariants *)

clockVars == <<ticks, lag, waited>>
memoryVars == <<RESET_KEEP, requested, dataflash, config, programmed, spoiled>>

Stays == UNCHANGED <<todo, phase, clockVars, memoryVars>>

\* Any step of a call but the two of the wait and the one that programs a byte
PlainStep ==
    /\ todo # <<>> /\ Head(todo)[1] \notin {"sent", "start", "program"}
    /\ Done \/ \E op : op[1] = Head(todo)[1] /\ Replace(op)
    /\ UNCHANGED <<phase, clockVars, memoryVars>>

\* The loop makes a call, main gets on by one, or the processor is reset.
NewCall ==
    /\ phase = "loop" /\ todo = <<>>
    /\ Steps(todo', RadioKinds)
    /\ UNCHANGED <<phase, clockVars, memoryVars>>

LEMMA RadioStepCases ==
    ASSUME RadioStep /\ UNCHANGED bootVars
    PROVE  \/ PlainStep
           \/ StartWait /\ UNCHANGED bootVars
           \/ WaitSent /\ UNCHANGED bootVars
<1> USE DEF bootVars, mainVars, flashVars, PlainStep, clockVars, memoryVars, Step, Done
<1>1. CASE WriteStep
  BY <1>1 DEF WriteStep
<1>2. CASE WriteBytes
  BY <1>2 DEF WriteBytes
<1>3. CASE AssignState
  BY <1>3 DEF AssignState
<1>4. CASE hw3000_power
  BY <1>4 DEF hw3000_power
<1>5. CASE WaitReady
  <2>1. /\ Step("ready") /\ (Done \/ Replace(<<"ready", Arg(1) - 1>>))
        /\ UNCHANGED <<ticks, lag, waited>>
    BY <1>5 DEF WaitReady
  <2>2. <<"ready", Arg(1) - 1>>[1] = "ready"
    OBVIOUS
  <2> QED BY <2>1, <2>2
<1>6. CASE WaitCalibrated
  <2>1. /\ Step("calibrated") /\ (Done \/ Replace(<<"calibrated", Arg(1) - 1>>))
        /\ UNCHANGED <<ticks, lag, waited>>
    BY <1>6 DEF WaitCalibrated
  <2>2. <<"calibrated", Arg(1) - 1>>[1] = "calibrated"
    OBVIOUS
  <2> QED BY <2>1, <2>2
<1> QED BY <1>1, <1>2, <1>3, <1>4, <1>5, <1>6 DEF RadioStep

LEMMA LoopCallCases ==
    ASSUME CallInv, LoopCall /\ UNCHANGED bootVars
    PROVE  NewCall
<1> USE DEF bootVars, mainVars, flashVars, NewCall, clockVars, memoryVars
<1>1. phase = "loop" /\ todo = <<>> => Steps(todo, RadioKinds)
  BY NoSteps
<1>2. CASE hw3000_rxdata_get
  BY <1>1, <1>2 DEF hw3000_rxdata_get, LoopCall
<1>3. CASE \E c \in LinkChannels : ChangeChannel(c)
  BY <1>3, ChangeSteps DEF ChangeChannel, LoopCall
<1>4. CASE hw3000_txdata_send
  <2>1. Steps(hw3000_fifo_tx(state, Reply) \o hw3000_channel_change(hw3000_channel), RadioKinds)
    BY SendSteps, ChangeSteps, Chained, SMTT(30)
  <2> QED BY <2>1, <1>4 DEF hw3000_txdata_send, LoopCall
<1>5. CASE hw3000_process
  BY <1>1, <1>5 DEF hw3000_process, LoopCall
<1> QED BY <1>2, <1>3, <1>4, <1>5 DEF LoopCall

\* main gets on: what each of its steps leaves to be done
MainStep ==
    \/ bootloader_check /\ UNCHANGED <<clockVars, dataflash, config, programmed, spoiled>>
    \/ SetUp /\ UNCHANGED <<clockVars, dataflash, config, programmed, spoiled>>
    \/ /\ Enter("radio", "link") /\ config' = dataflash /\ Steps(todo', RadioKinds)
       /\ UNCHANGED <<clockVars, RESET_KEEP, requested, dataflash, programmed, spoiled>>
    \/ TestIdentity /\ UNCHANGED <<clockVars, memoryVars>>
    \/ Banner /\ UNCHANGED <<clockVars, memoryVars>>
    \/ Loop /\ UNCHANGED <<clockVars, memoryVars>>

LEMMA BootStepCases ==
    ASSUME BootStep
    PROVE  \/ PlainStep \/ MainStep
           \/ Program /\ UNCHANGED <<phase, clockVars>>
<1> USE DEF restVars, mainVars, flashVars, uartVars, clockVars, memoryVars, MainStep
<1>1. CASE Start
  BY <1>1 DEF Start
<1>2. CASE whb04b_setup
  <2>1. Steps(todo', RadioKinds)
    BY <1>2, ChangeSteps DEF whb04b_setup
  <2> QED BY <1>2, <2>1 DEF whb04b_setup
<1>3. CASE TestIdentity \/ Banner \/ Loop
  BY <1>3 DEF TestIdentity, Banner, Loop, MainFrame
<1>4. CASE Unlock \/ EnableWrite \/ DisableWrite \/ Lock
  BY <1>4 DEF Unlock, EnableWrite, DisableWrite, Lock, FlashFrame, PlainStep, Step
<1>5. CASE Program
  BY <1>5 DEF Program, FlashFrame
<1>6. CASE ClearDone \/ SendByte \/ WaitDone
  BY <1>6 DEF ClearDone, SendByte, WaitDone, UartFrame, PlainStep, Step
<1> QED BY <1>1, <1>2, <1>3, <1>4, <1>5, <1>6 DEF BootStep

\* A reset, however it comes about
AnyReset ==
    /\ Reset /\ UNCHANGED dataflash
    /\ \/ RESET_KEEP' = 85 /\ requested' = TRUE
       \/ RESET_KEEP' = 0 /\ requested' = FALSE
       \/ UNCHANGED <<RESET_KEEP, requested>>

LEMMA NextCases ==
    ASSUME CallInv, [Next]_vars
    PROVE  \/ Stays \/ PlainStep \/ NewCall \/ MainStep \/ AnyReset
           \/ StartWait /\ UNCHANGED bootVars
           \/ WaitSent /\ UNCHANGED bootVars
           \/ timer0_isr /\ UNCHANGED bootVars
           \/ Program /\ UNCHANGED <<phase, clockVars>>
<1> USE DEF restVars, bootVars, mainVars, flashVars, clockVars, memoryVars
<1>1. CASE Processor
  BY <1>1, RadioStepCases, LoopCallCases, BootStepCases DEF Processor
<1>2. CASE Hardware
  BY <1>2 DEF Hardware, UartSent, uart0_isr, UartFrame, Stays
<1>3. CASE Surroundings
  BY <1>3 DEF Surroundings, RadioEnvironment, ChipReady, ChipSent, ChipReceives, Stays
<1>4. CASE Disturbance \/ BootloaderExits
  <2>1. CASE WindowLapses
    BY <2>1 DEF WindowLapses, Stays
  <2>2. CASE reset_to_bootloader
    BY <2>2 DEF reset_to_bootloader, Reset, AnyReset
  <2>3. CASE PowerFailure
    BY <2>3 DEF PowerFailure, Reset, AnyReset
  <2>4. CASE BootloaderExits
    BY <2>4 DEF BootloaderExits, Reset, AnyReset
  <2> QED BY <1>4, <2>1, <2>2, <2>3, <2>4 DEF Disturbance
<1>5. CASE UNCHANGED vars
  BY <1>5 DEF vars, radioVars, Stays
<1> QED BY <1>1, <1>2, <1>3, <1>4, <1>5 DEF Next

-----------------------------------------------------------------------------
(* The steps of a call keep their order *)

LEMMA NothingSent == \A p : "sent" \notin Allowed(p)
BY DEF Allowed, FlashKinds, UartKinds, RadioKinds

LEMMA Remaining ==
    ASSUME CallInv, todo # <<>>
    PROVE  /\ Head(todo) = todo[1] /\ 1 \in DOMAIN todo
           /\ Head(todo)[1] \in Allowed(phase) \cup {"sent"}
           /\ Steps(Tail(todo), Allowed(phase))
           /\ \A k \in DOMAIN Tail(todo) : k + 1 \in DOMAIN todo /\ Tail(todo)[k] = todo[k + 1]
           /\ \A k \in DOMAIN todo : k # 1 =>
                k - 1 \in DOMAIN Tail(todo) /\ Tail(todo)[k - 1] = todo[k]
<1> DEFINE K == Allowed(phase) \cup {"sent"}
<1>1. Steps(todo, K) /\ \A i \in DOMAIN todo : i # 1 => todo[i][1] # "sent"
  BY DEF CallInv
<1> HIDE DEF K
<1>2. /\ Steps(Tail(todo), K) /\ Head(todo) = todo[1] /\ 1 \in DOMAIN todo
      /\ DOMAIN Tail(todo) = 1 .. Len(todo) - 1
      /\ \A i \in 1 .. Len(todo) - 1 : Tail(todo)[i] = todo[i + 1]
  BY <1>1, StepsTail
<1>3. Len(todo) \in Nat /\ DOMAIN todo = 1 .. Len(todo) /\ \A i \in 1 .. Len(todo) : todo[i][1] \in K
  BY <1>1, StepsBasic
<1>4. \A k \in DOMAIN Tail(todo) :
        k + 1 \in DOMAIN todo /\ k + 1 # 1 /\ Tail(todo)[k] = todo[k + 1]
  BY <1>2, <1>3
<1>5. \A k \in DOMAIN todo : k # 1 => k - 1 \in DOMAIN Tail(todo) /\ Tail(todo)[k - 1] = todo[k]
  <2> SUFFICES ASSUME NEW k \in DOMAIN todo, k # 1
               PROVE  k - 1 \in DOMAIN Tail(todo) /\ Tail(todo)[k - 1] = todo[k]
      OBVIOUS
  <2>1. k - 1 \in 1 .. Len(todo) - 1 /\ (k - 1) + 1 = k
    BY <1>3
  <2> QED BY <2>1, <1>2
<1>6. Steps(Tail(todo), Allowed(phase))
  <2>1. \A k \in DOMAIN Tail(todo) : Tail(todo)[k][1] \in Allowed(phase)
    BY <1>1, <1>3, <1>4 DEF K
  <2> QED BY <1>2, <2>1 DEF Steps
<1> QED BY <1>2, <1>3, <1>4, <1>5, <1>6 DEF K

LEMMA Replaced ==
    ASSUME CallInv, todo # <<>>, NEW op, op[1] \in Allowed(phase) \cup {"sent"}
    PROVE  LET s == <<op>> \o Tail(todo)
           IN  /\ Steps(s, Allowed(phase) \cup {"sent"})
               /\ DOMAIN s = DOMAIN todo /\ s[1] = op
               /\ \A k \in DOMAIN todo : k # 1 => s[k] = todo[k]
<1> DEFINE K == Allowed(phase) \cup {"sent"}
           s == <<op>> \o Tail(todo)
<1>1. Steps(todo, K)
  BY DEF CallInv
<1>2. op[1] \in K
  OBVIOUS
<1> HIDE DEF K
<1>3. /\ Steps(Tail(todo), K) /\ DOMAIN Tail(todo) = 1 .. Len(todo) - 1
      /\ \A i \in 1 .. Len(todo) - 1 : Tail(todo)[i] = todo[i + 1]
  BY <1>1, StepsTail
<1>4. Len(todo) \in Nat /\ DOMAIN todo = 1 .. Len(todo) /\ Len(todo) # 0
  BY <1>1, StepsBasic
<1>5. Steps(<<op>>, K) /\ Len(<<op>>) = 1 /\ <<op>>[1] = op
  BY <1>2, StepsOne
<1> HIDE DEF s
<1>6. /\ Steps(s, K) /\ Len(s) = Len(<<op>>) + Len(Tail(todo))
      /\ \A i \in 1 .. Len(<<op>>) : s[i] = <<op>>[i]
      /\ \A i \in 1 .. Len(Tail(todo)) : s[Len(<<op>>) + i] = Tail(todo)[i]
  BY <1>3, <1>5, StepsConcat DEF s
<1>7. Len(Tail(todo)) = Len(todo) - 1
  <2>1. Len(Tail(todo)) \in Nat /\ DOMAIN Tail(todo) = 1 .. Len(Tail(todo))
    BY <1>3, StepsBasic
  <2> QED BY <2>1, <1>3, <1>4
<1>8. DOMAIN s = 1 .. Len(s) /\ Len(s) = Len(todo) /\ s[1] = op
  BY <1>4, <1>5, <1>6, <1>7, StepsBasic
<1>9. \A k \in DOMAIN todo : k # 1 => s[k] = todo[k]
  <2> SUFFICES ASSUME NEW k \in DOMAIN todo, k # 1 PROVE s[k] = todo[k]
      OBVIOUS
  <2>1. k - 1 \in 1 .. Len(todo) - 1 /\ 1 + (k - 1) = k /\ (k - 1) + 1 = k
    BY <1>4
  <2> QED BY <2>1, <1>3, <1>5, <1>6, <1>7
<1> QED BY <1>4, <1>6, <1>8, <1>9 DEF K, s

\* What is left after a step of a call
LEMMA Left ==
    ASSUME CallInv, todo # <<>>,
           Done \/ \E op : op[1] \in {Head(todo)[1], "sent"} /\ Replace(op)
    PROVE  /\ Steps(todo', Allowed(phase) \cup {"sent"})
           /\ \A i \in DOMAIN todo' : i # 1 => todo'[i][1] # "sent"
<1>1. CASE Done
  <2>1. todo' = Tail(todo) /\ Steps(todo', Allowed(phase))
    BY <1>1, Remaining DEF Done
  <2>2. \A i \in DOMAIN todo' : todo'[i][1] # "sent"
    BY <2>1, NothingSent DEF Steps
  <2> QED BY <2>1, <2>2, StepsMore
<1>2. CASE \E op : op[1] \in {Head(todo)[1], "sent"} /\ Replace(op)
  <2>1. PICK op : op[1] \in {Head(todo)[1], "sent"} /\ Replace(op)
    BY <1>2
  <2>2. todo' = <<op>> \o Tail(todo) /\ op[1] \in Allowed(phase) \cup {"sent"}
    BY <2>1, Remaining DEF Replace
  <2>3. /\ Steps(todo', Allowed(phase) \cup {"sent"}) /\ DOMAIN todo' = DOMAIN todo
        /\ \A k \in DOMAIN todo : k # 1 => todo'[k] = todo[k]
    BY <2>2, Replaced
  <2>4. \A k \in DOMAIN todo : k # 1 => todo[k][1] # "sent"
    BY DEF CallInv
  <2> QED BY <2>3, <2>4
<1> QED BY <1>1, <1>2

\* In each phase of main only the steps of its own calls are left to be done, and
\* nothing when the next phase begins (main.c:36-80).
THEOREM FirmwareCalls == Init /\ [][Next]_vars => []CallInv
<1>1. Init => CallInv
  BY NoSteps DEF Init, CallInv
<1>2. CallInv /\ [Next]_vars => CallInv'
  <2> SUFFICES ASSUME CallInv, [Next]_vars PROVE CallInv'
      OBVIOUS
  <2>1. CASE Stays
    BY <2>1 DEF Stays, CallInv
  <2>2. CASE PlainStep
    <3>1. /\ Steps(todo', Allowed(phase) \cup {"sent"})
          /\ \A i \in DOMAIN todo' : i # 1 => todo'[i][1] # "sent"
      BY <2>2, Left DEF PlainStep
    <3>2. phase' = phase /\ phase \notin {"check", "bootloader"}
      BY <2>2 DEF PlainStep, CallInv
    <3> QED BY <3>1, <3>2 DEF CallInv
  <2>3. ASSUME Steps(todo', RadioKinds), phase' \in {"radio", "link", "loop"} PROVE CallInv'
    <3>1. Allowed(phase') = RadioKinds
      BY <2>3 DEF Allowed
    <3>2. \A i \in DOMAIN todo' : todo'[i][1] # "sent"
      BY <2>3 DEF Steps, RadioKinds
    <3>3. Steps(todo', Allowed(phase') \cup {"sent"})
      BY <3>1, <2>3, StepsMore
    <3> QED BY <2>3, <3>2, <3>3 DEF CallInv
  <2>4. CASE NewCall
    BY <2>3, <2>4 DEF NewCall
  <2>5. ASSUME todo' = <<>>,
               phase' \in {"check", "bootloader", "radio", "link", "identity", "banner", "loop"}
        PROVE  CallInv'
    BY <2>5, NoSteps DEF CallInv
  <2>6. CASE AnyReset
    BY <2>5, <2>6 DEF AnyReset, Reset
  <2>7. CASE MainStep
    <3>1. CASE bootloader_check
      BY <3>1, <2>5 DEF bootloader_check, CallInv
    <3>2. CASE SetUp
      BY <3>2, <2>3, SetupSteps DEF SetUp, Enter
    <3>3. CASE Enter("radio", "link") /\ Steps(todo', RadioKinds)
      BY <3>3, <2>3 DEF Enter
    <3>4. CASE TestIdentity
      <4>1. phase' = "identity" /\ (todo' = WriteIdentity \/ todo' = <<>>)
        BY <3>4 DEF TestIdentity, Enter
      <4>2. Steps(WriteIdentity, Allowed("identity"))
        BY IdentitySteps DEF Allowed
      <4>3. CASE todo' = WriteIdentity
        <5>1. \A i \in DOMAIN todo' : todo'[i][1] # "sent"
          BY <4>3, <4>2, NothingSent DEF Steps
        <5>2. Steps(todo', Allowed(phase') \cup {"sent"})
          BY <4>1, <4>2, <4>3, StepsMore
        <5> QED BY <4>1, <5>1, <5>2 DEF CallInv
      <4> QED BY <4>1, <4>3, <2>5
    <3>5. CASE Banner
      <4>1. phase' = "banner" /\ todo' = InTurn(3, [i \in 1 .. BANNER |-> uart0_block_tx_byte])
        BY <3>5 DEF Banner, Enter
      <4>2. Steps(todo', Allowed("banner"))
        BY <4>1, BannerSteps DEF Allowed
      <4>3. \A i \in DOMAIN todo' : todo'[i][1] # "sent"
        BY <4>2, NothingSent DEF Steps
      <4>4. Steps(todo', Allowed(phase') \cup {"sent"})
        BY <4>1, <4>2, StepsMore
      <4> QED BY <4>1, <4>3, <4>4 DEF CallInv
    <3>6. CASE Loop
      BY <3>6, <2>5 DEF Loop, Enter
    <3> QED BY <2>7, <3>1, <3>2, <3>3, <3>4, <3>5, <3>6 DEF MainStep
  <2>8. ASSUME todo # <<>>, phase' = phase,
               Done \/ (\E op : op[1] \in {Head(todo)[1], "sent"} /\ Replace(op)) \/ todo' = todo
        PROVE  CallInv'
    <3>1. CASE todo' = todo
      BY <2>8, <3>1 DEF CallInv
    <3>2. CASE todo' # todo
      <4>1. /\ Steps(todo', Allowed(phase) \cup {"sent"})
            /\ \A i \in DOMAIN todo' : i # 1 => todo'[i][1] # "sent"
        BY <2>8, <3>2, Left
      <4> QED BY <2>8, <4>1 DEF CallInv
    <3> QED BY <3>1, <3>2
  <2>9. CASE StartWait /\ UNCHANGED bootVars
    <3>1. Replace(<<"sent", ticks>>) /\ <<"sent", ticks>>[1] = "sent"
      BY <2>9 DEF StartWait
    <3> QED BY <2>8, <2>9, <3>1 DEF StartWait, Step, bootVars, mainVars
  <2>10. CASE WaitSent /\ UNCHANGED bootVars
    BY <2>8, <2>10 DEF WaitSent, Step, bootVars, mainVars
  <2>11. CASE timer0_isr /\ UNCHANGED bootVars
    BY <2>8, <2>11 DEF timer0_isr, Step, bootVars, mainVars
  <2>12. CASE Program /\ UNCHANGED <<phase, clockVars>>
    BY <2>8, <2>12 DEF Program, Step, FlashFrame
  <2> QED BY <2>1, <2>2, <2>4, <2>6, <2>7, <2>9, <2>10, <2>11, <2>12, NextCases
<1> QED BY <1>1, <1>2, PTL

-----------------------------------------------------------------------------
(* The bootloader *)

LEMMA NotEightyFive == 0 # 85
OBVIOUS

LEMMA RequestKept == CallInv /\ RequestInv /\ [Next]_vars => RequestInv'
<1> SUFFICES ASSUME CallInv, RequestInv, [Next]_vars PROVE RequestInv'
    OBVIOUS
<1>1. CASE UNCHANGED <<RESET_KEEP, requested>>
  BY <1>1 DEF RequestInv
<1>2. CASE RESET_KEEP' = 0 /\ requested' = FALSE
  BY <1>2, NotEightyFive, Zenon DEF RequestInv
<1>3. CASE RESET_KEEP' = 85 /\ requested' = TRUE
  BY <1>3, Zenon DEF RequestInv
<1>4. CASE MainStep
  <2>1. \/ RESET_KEEP' = 0 /\ requested' = FALSE
        \/ UNCHANGED <<RESET_KEEP, requested>>
    BY <1>4 DEF MainStep, bootloader_check, SetUp, memoryVars
  <2> QED BY <1>1, <1>2, <2>1
<1>5. CASE AnyReset
  BY <1>1, <1>2, <1>3, <1>5 DEF AnyReset
<1>6. \/ MainStep \/ AnyReset \/ UNCHANGED <<RESET_KEEP, requested>>
  BY NextCases DEF Stays, PlainStep, NewCall, memoryVars, bootVars, mainVars, Program,
                   FlashFrame
<1> QED BY <1>1, <1>4, <1>5, <1>6

\* A start ends in the bootloader exactly if the host's wish stands (misc.c:11-39).
THEOREM BootloaderHonestHolds == Spec => BootloaderHonest
<1>1. Init => RequestInv
  BY NotEightyFive, Zenon DEF Init, RequestInv
<1>2. CallInv /\ RequestInv /\ [Next]_vars =>
        [phase = "check" /\ phase' # "check" => (phase' = "bootloader" <=> requested)]_vars
  <2> SUFFICES ASSUME CallInv, RequestInv, [Next]_vars, phase = "check", phase' # "check"
               PROVE  phase' = "bootloader" <=> requested
      OBVIOUS
  <2>1. MainStep
    BY NextCases DEF Stays, PlainStep, NewCall, AnyReset, Reset, bootVars, mainVars
  <2>2. bootloader_check \/ SetUp
    BY <2>1 DEF MainStep, Enter, TestIdentity, Banner, Loop
  <2> QED BY <2>2 DEF bootloader_check, SetUp, Enter, RequestInv
<1> QED BY <1>1, <1>2, FirmwareCalls, RequestKept, PTL DEF Spec, BootloaderHonest

-----------------------------------------------------------------------------
(* The wait for a transmission *)

LEMMA NextTickDiff ==
    ASSUME NEW t \in Tick, NEW now \in Tick, TickDiff(now, t) + 1 < TICK_MOD
    PROVE  NextTick(now) \in Tick /\ TickDiff(NextTick(now), t) = TickDiff(now, t) + 1
BY TickModAssumption DEF Tick, TickDiff, NextTick, USHRT_MAX

LEMMA SameTickDiff == \A t \in Tick : TickDiff(t, t) = 0
BY TickModAssumption DEF Tick, TickDiff

\* Without a wait the clock of the wait stands at 0.
LEMMA NotWaiting ==
    ASSUME WaitInv, ~Step("sent"), UNCHANGED clockVars,
           todo' = <<>> \/ Head(todo')[1] # "sent"
    PROVE  WaitInv'
<1>1. ticks \in Tick /\ lag \in Nat /\ waited \in Nat /\ waited = 0
  BY DEF WaitInv
<1>2. ~Step("sent")'
  BY DEF Step
<1> QED BY <1>1, <1>2 DEF WaitInv, clockVars

LEMMA NoSentHead ==
    \A s, K : Steps(s, K) /\ "sent" \notin K => s = <<>> \/ Head(s)[1] # "sent"
<1> SUFFICES ASSUME NEW s, NEW K, Steps(s, K), "sent" \notin K, s # <<>>
             PROVE  Head(s)[1] # "sent"
    OBVIOUS
<1>1. Head(s) = s[1] /\ 1 \in DOMAIN s
  BY StepsTail
<1> QED BY <1>1, StepsBasic

LEMMA WaitKept == CallInv /\ WaitInv /\ [Next]_vars => WaitInv'
<1> SUFFICES ASSUME CallInv, WaitInv, [Next]_vars PROVE WaitInv'
    OBVIOUS
<1>1. CASE Stays
  BY <1>1 DEF Stays, clockVars, WaitInv, Step, Arg
<1>2. CASE PlainStep
  <2>1. ~Step("sent") /\ UNCHANGED clockVars /\ todo # <<>>
    BY <1>2 DEF PlainStep, Step
  <2>2. CASE Done
    <3>1. Steps(todo', Allowed(phase))
      BY <2>1, <2>2, Remaining DEF Done
    <3>2. todo' = <<>> \/ Head(todo')[1] # "sent"
      BY <3>1, NothingSent, NoSentHead
    <3> QED BY <2>1, <3>2, NotWaiting
  <2>3. CASE \E op : op[1] = Head(todo)[1] /\ Replace(op)
    <3>1. PICK op : op[1] = Head(todo)[1] /\ Replace(op)
      BY <2>3
    <3>2. todo' = <<op>> \o Tail(todo) /\ op[1] \in Allowed(phase) \cup {"sent"} /\ op[1] # "sent"
      BY <3>1, <1>2, Remaining DEF Replace, PlainStep
    <3>3. Steps(todo', Allowed(phase) \cup {"sent"}) /\ todo'[1] = op /\ DOMAIN todo' = DOMAIN todo
      BY <2>1, <3>2, Replaced
    <3>4. todo' # <<>> => Head(todo') = todo'[1]
      BY <3>3, StepsTail
    <3>5. todo' = <<>> \/ Head(todo')[1] # "sent"
      BY <3>2, <3>3, <3>4
    <3> QED BY <2>1, <3>5, NotWaiting
  <2> QED BY <1>2, <2>2, <2>3 DEF PlainStep
<1>3. CASE NewCall
  <2>1. todo' = <<>> \/ Head(todo')[1] # "sent"
    BY <1>3, NoSentHead DEF NewCall, RadioKinds
  <2> QED BY <1>3, <2>1, NotWaiting DEF NewCall, Step
<1>4. CASE MainStep
  <2>1. todo = <<>> /\ UNCHANGED clockVars
    BY <1>4 DEF MainStep, bootloader_check, SetUp, Enter, TestIdentity, Banner, Loop, CallInv
  <2>2. \/ todo' = <<>> \/ Steps(todo', RadioKinds) \/ Steps(todo', FlashKinds)
        \/ Steps(todo', UartKinds)
    BY <1>4, <2>1, SetupSteps, IdentitySteps, BannerSteps
       DEF MainStep, bootloader_check, SetUp, TestIdentity, Banner, Loop
  <2>3. todo' = <<>> \/ Head(todo')[1] # "sent"
    BY <2>2, NoSentHead DEF RadioKinds, FlashKinds, UartKinds
  <2> QED BY <2>1, <2>3, NotWaiting DEF Step
<1>5. CASE AnyReset
  <2>1. 0 \in Tick
    BY TickModAssumption DEF Tick
  <2>2. todo' = <<>> /\ ticks' = 0 /\ lag' = 0 /\ waited' = 0
    BY <1>5 DEF AnyReset, Reset
  <2>3. ~Step("sent")'
    BY <2>2 DEF Step
  <2> QED BY <2>1, <2>2, <2>3 DEF WaitInv
<1>6. CASE StartWait
  <2>1. /\ todo # <<>> /\ todo' = <<<<"sent", ticks>>>> \o Tail(todo)
        /\ ticks' = ticks /\ lag' = 0 /\ waited' = 0
    BY <1>6 DEF StartWait, Step, Replace
  <2>2. <<"sent", ticks>>[1] = "sent" /\ <<"sent", ticks>>[2] = ticks
    OBVIOUS
  <2>3. Steps(todo', Allowed(phase) \cup {"sent"}) /\ todo'[1] = <<"sent", ticks>>
        /\ DOMAIN todo' = DOMAIN todo
    BY <2>1, <2>2, Replaced
  <2>4. todo' # <<>>
    BY <2>1, <2>3, Remaining
  <2>5. Head(todo') = <<"sent", ticks>>
    BY <2>3, <2>4, StepsTail
  <2>6. Step("sent")' /\ Arg(1)' = ticks
    BY <2>2, <2>4, <2>5 DEF Step, Arg
  <2>7. ticks \in Tick /\ TickDiff(ticks, ticks) = 0
    BY SameTickDiff DEF WaitInv
  <2> QED BY <2>1, <2>6, <2>7, RadioAssumption DEF WaitInv
<1>7. CASE WaitSent
  <2>1. /\ todo # <<>> /\ Step("sent") /\ ticks' = ticks /\ lag' = 0
        /\ ticks \in Tick /\ waited \in Nat
        /\ Arg(1) \in Tick /\ TickDiff(ticks, Arg(1)) = waited
    BY <1>7 DEF WaitSent, Step, WaitInv
  <2>2. CASE Done /\ waited' = 0
    <3>1. Steps(todo', Allowed(phase))
      BY <2>1, <2>2, Remaining DEF Done
    <3>2. todo' = <<>> \/ Head(todo')[1] # "sent"
      BY <3>1, NothingSent, NoSentHead
    <3>3. ~Step("sent")'
      BY <3>2 DEF Step
    <3> QED BY <2>1, <2>2, <3>3 DEF WaitInv
  <2>3. CASE ~TxTimeout(Arg(1)) /\ UNCHANGED <<todo, waited>>
    <3>1. waited <= TX_TICKS
      BY <2>1, <2>3, RadioAssumption DEF TxTimeout
    <3>2. Step("sent")' /\ Arg(1)' = Arg(1)
      BY <2>1, <2>3 DEF Step, Arg
    <3> QED BY <2>1, <2>3, <3>1, <3>2, RadioAssumption DEF WaitInv
  <2> QED BY <1>7, <2>2, <2>3 DEF WaitSent
<1>8. CASE timer0_isr
  <2>1. /\ Step("sent") /\ lag < MAX_LAG /\ UNCHANGED todo
        /\ ticks' = NextTick(ticks) /\ lag' = lag + 1 /\ waited' = waited + 1
    BY <1>8 DEF timer0_isr
  <2>2. /\ ticks \in Tick /\ lag \in Nat /\ waited \in Nat /\ Arg(1) \in Tick
        /\ TickDiff(ticks, Arg(1)) = waited
        /\ lag <= waited /\ waited - lag <= TX_TICKS
    BY <2>1 DEF WaitInv
  <2>3. waited + 1 < TICK_MOD
    BY <2>1, <2>2, RadioAssumption, TickModAssumption
  <2>4. ticks' \in Tick /\ TickDiff(ticks', Arg(1)) = waited + 1
    BY <2>1, <2>2, <2>3, NextTickDiff
  <2>5. Step("sent")' /\ Arg(1)' = Arg(1)
    BY <2>1 DEF Step, Arg
  <2>6. TickDiff(ticks, Arg(1))' = waited'
    BY <2>1, <2>4, <2>5
  <2>7. lag' <= waited' /\ lag' <= MAX_LAG /\ waited' - lag' <= TX_TICKS
        /\ lag' \in Nat /\ waited' \in Nat
    BY <2>1, <2>2, RadioAssumption
  <2> QED BY <2>2, <2>4, <2>5, <2>6, <2>7 DEF WaitInv
<1>9. CASE Program /\ UNCHANGED <<phase, clockVars>>
  <2>1. /\ todo # <<>> /\ Done /\ ~Step("sent") /\ UNCHANGED clockVars
    BY <1>9 DEF Program, FlashFrame, Step
  <2>2. Steps(todo', Allowed(phase))
    BY <2>1, Remaining DEF Done
  <2>3. todo' = <<>> \/ Head(todo')[1] # "sent"
    BY <2>2, NothingSent, NoSentHead
  <2> QED BY <2>1, <2>3, NotWaiting
<1> QED BY <1>1, <1>2, <1>3, <1>4, <1>5, <1>6, <1>7, <1>8, <1>9, NextCases

\* Waiting for a transmission stops the main loop for TX_TICKS and one look at the
\* clock at most, for every width of the clock (hw3000.c:292-300).
THEOREM WaitBoundedHolds == Spec => []WaitBounded
<1>1. Init => WaitInv
  BY TickModAssumption DEF Init, WaitInv, Step, Tick
<1>2. WaitInv => WaitBounded
  BY RadioAssumption DEF WaitInv, WaitBounded
<1> QED BY <1>1, <1>2, FirmwareCalls, WaitKept, PTL DEF Spec

-----------------------------------------------------------------------------
(* The identity *)

Settled == \A i \in DOMAIN Identity : dataflash[i] = Identity[i]

LEMMA IdentityType ==
    /\ Identity \in [DOMAIN Identity -> 0 .. 254] /\ 1 \in DOMAIN Identity
    /\ Erased \in [DOMAIN Identity -> 0 .. 255] /\ Erased[1] = 255
<1>1. Len(Identity) \in Nat /\ DOMAIN Identity = 1 .. Len(Identity) /\ Len(Identity) # 0
  BY BootAssumption
<1>2. 1 \in DOMAIN Identity /\ Identity \in [DOMAIN Identity -> 0 .. 254]
  <2>1. /\ Identity = [i \in 1 .. Len(Identity) |-> Identity[i]]
        /\ \A i \in 1 .. Len(Identity) : Identity[i] \in 0 .. 254
    <3>1. \A T : \A s \in Seq(T) : /\ s = [i \in 1 .. Len(s) |-> s[i]]
                                  /\ \A i \in 1 .. Len(s) : s[i] \in T
      OBVIOUS
    <3> QED BY <3>1, BootAssumption
  <2> QED BY <1>1, <2>1
<1> QED BY <1>2 DEF Erased

LEMMA SettledIsIdentity ==
    ASSUME dataflash \in [DOMAIN Identity -> 0 .. 255], Settled
    PROVE  dataflash = Identity
BY IdentityType DEF Settled

\* A step that programs nothing takes no byte off the list, and puts none on it.
LEMMA PendingKept ==
    ASSUME CallInv, PlainStep
    PROVE  /\ \A i : Pending(i) => Pending(i)'
           /\ \A k \in DOMAIN todo' :
                todo'[k][1] = "program" => \E j \in DOMAIN todo : todo[j] = todo'[k]
<1>1. /\ todo # <<>> /\ todo[1][1] # "program" /\ Head(todo) = todo[1]
      /\ Head(todo)[1] \in Allowed(phase) \cup {"sent"}
  BY Remaining DEF PlainStep
<1>2. \A i : <<"program", i>>[1] = "program"
  OBVIOUS
<1>3. CASE Done
  <2>1. todo' = Tail(todo)
    BY <1>3 DEF Done
  <2>2. \A i : Pending(i) => Pending(i)'
    BY <1>1, <1>2, <2>1, Remaining, SMTT(30) DEF Pending
  <2>3. \A k \in DOMAIN todo' : \E j \in DOMAIN todo : todo[j] = todo'[k]
    BY <1>1, <2>1, Remaining
  <2> QED BY <2>2, <2>3
<1>4. CASE \E op : op[1] = Head(todo)[1] /\ Replace(op)
  <2>1. PICK op : op[1] = Head(todo)[1] /\ todo' = <<op>> \o Tail(todo)
    BY <1>4 DEF Replace
  <2>2. op[1] \in Allowed(phase) \cup {"sent"} /\ op[1] # "program"
    BY <1>1, <2>1
  <2>3. /\ DOMAIN todo' = DOMAIN todo /\ todo'[1] = op
        /\ \A k \in DOMAIN todo : k # 1 => todo'[k] = todo[k]
    BY <1>1, <2>1, <2>2, Replaced
  <2>4. \A i : Pending(i) => Pending(i)'
    <3> SUFFICES ASSUME NEW i, Pending(i) PROVE Pending(i)'
        OBVIOUS
    <3>1. PICK k \in DOMAIN todo : todo[k] = <<"program", i>>
      BY DEF Pending
    <3>2. k # 1
      BY <1>1, <1>2, <3>1
    <3> QED BY <2>3, <3>1, <3>2 DEF Pending
  <2> QED BY <2>2, <2>3, <2>4
<1> QED BY <1>3, <1>4 DEF PlainStep

LEMMA NoProgram ==
    ASSUME NEW K, "program" \notin K, Steps(todo', K)
    PROVE  \A k \in DOMAIN todo' : todo'[k][1] # "program"
BY DEF Steps

\* While nothing is left to be done, nothing is pending.
LEMMA NothingPending == todo = <<>> => \A i : ~Pending(i)
BY DEF Pending

LEMMA FlashStays ==
    ASSUME FlashInv, UNCHANGED <<dataflash, programmed, spoiled>>, phase' = phase,
           config' = config,
           \A i : Pending(i) => Pending(i)',
           \A k \in DOMAIN todo' :
             todo'[k][1] = "program" => \E j \in DOMAIN todo : todo[j] = todo'[k]
    PROVE  FlashInv'
<1>1. ~spoiled' => Fresh' \/ \A i \in DOMAIN Identity : dataflash'[i] = Identity[i] \/ Pending(i)'
  BY DEF FlashInv, Fresh
<1>2. spoiled' \in BOOLEAN /\ programmed' \in BOOLEAN
  BY Zenon DEF FlashInv
<1>3. \A k \in DOMAIN todo' : todo'[k][1] = "program" => todo'[k][2] \in DOMAIN Identity
  BY DEF FlashInv
<1> QED BY <1>1, <1>2, <1>3 DEF FlashInv

\* main gets on, or the loop makes a call, with nothing to be programmed
LEMMA FlashGetsOn ==
    ASSUME FlashInv, todo = <<>>, UNCHANGED <<dataflash, programmed, spoiled>>,
           \A k \in DOMAIN todo' : todo'[k][1] # "program",
           ~spoiled => Settled \/ Fresh',
           phase' \in {"link", "identity", "banner", "loop"} /\ programmed /\ ~spoiled =>
             config' = Identity
    PROVE  FlashInv'
<1>1. ~spoiled' => Fresh' \/ \A i \in DOMAIN Identity : dataflash'[i] = Identity[i] \/ Pending(i)'
  BY DEF Settled
<1>2. spoiled' \in BOOLEAN /\ programmed' \in BOOLEAN
  BY Zenon DEF FlashInv
<1> QED BY <1>1, <1>2 DEF FlashInv

LEMMA FlashKept == CallInv /\ FlashInv /\ [Next]_vars => FlashInv'
<1> SUFFICES ASSUME CallInv, FlashInv, [Next]_vars PROVE FlashInv'
    OBVIOUS
<1>0. todo = <<>> /\ ~spoiled => Settled \/ Fresh
  BY NothingPending DEF FlashInv, Settled
<1>1. CASE UNCHANGED <<todo, phase, dataflash, config, programmed, spoiled>>
  <2>1. \A i : Pending(i) => Pending(i)'
    BY <1>1 DEF Pending
  <2> QED BY <1>1, <2>1, FlashStays
<1>2. CASE PlainStep
  BY <1>2, PendingKept, FlashStays DEF PlainStep, memoryVars
<1>3. CASE NewCall
  <2>1. /\ todo = <<>> /\ phase = "loop" /\ phase' = phase
        /\ UNCHANGED <<dataflash, programmed, spoiled, config>>
    BY <1>3 DEF NewCall, memoryVars
  <2>2. \A k \in DOMAIN todo' : todo'[k][1] # "program"
    BY <1>3, NoProgram DEF NewCall, RadioKinds
  <2>3. ~spoiled => Settled
    BY <1>0, <2>1 DEF Fresh
  <2>4. programmed /\ ~spoiled => config = Identity
    BY <2>1 DEF FlashInv
  <2> QED BY <2>1, <2>2, <2>3, <2>4, FlashGetsOn
<1>4. CASE MainStep
  <2>1. CASE bootloader_check \/ SetUp
    <3>1. /\ todo = <<>> /\ phase' \in {"bootloader", "radio"} /\ phase = "check"
          /\ UNCHANGED <<dataflash, programmed, spoiled, config>>
      <4>1. phase = "check" /\ phase' \in {"bootloader", "radio"}
        BY <2>1 DEF bootloader_check, SetUp, Enter
      <4>2. UNCHANGED <<dataflash, programmed, spoiled, config>>
        BY <1>4, <4>1 DEF MainStep, Enter, TestIdentity, Banner, Loop
      <4> QED BY <4>1, <4>2 DEF CallInv
    <3>2. todo' = <<>> \/ Steps(todo', RadioKinds)
      BY <2>1, <3>1, SetupSteps DEF bootloader_check, SetUp
    <3>3. \A k \in DOMAIN todo' : todo'[k][1] # "program"
      BY <3>2, NoProgram DEF RadioKinds
    <3>4. Fresh => Fresh'
      BY <3>1 DEF Fresh
    <3> QED BY <1>0, <3>1, <3>3, <3>4, FlashGetsOn
  <2>2. CASE /\ Enter("radio", "link") /\ config' = dataflash /\ Steps(todo', RadioKinds)
             /\ UNCHANGED <<clockVars, RESET_KEEP, requested, dataflash, programmed, spoiled>>
    <3>1. /\ todo = <<>> /\ phase' = "link" /\ config' = dataflash
          /\ UNCHANGED <<dataflash, programmed, spoiled>>
      BY <2>2 DEF Enter
    <3>2. \A k \in DOMAIN todo' : todo'[k][1] # "program"
      BY <2>2, NoProgram DEF RadioKinds
    <3>3. Fresh => Fresh'
      BY <3>1 DEF Fresh
    <3>4. programmed /\ ~spoiled => config' = Identity
      BY <1>0, <3>1, SettledIsIdentity DEF Fresh, FlashInv
    <3> QED BY <1>0, <3>1, <3>2, <3>3, <3>4, FlashGetsOn
  <2>3. CASE TestIdentity /\ UNCHANGED <<clockVars, memoryVars>>
    <3>1. /\ todo = <<>> /\ phase = "link" /\ phase' = "identity"
          /\ UNCHANGED <<dataflash, programmed, spoiled, config>>
          /\ todo' = IF dataflash[1] = 255 THEN WriteIdentity ELSE <<>>
      BY <2>3 DEF TestIdentity, Enter, memoryVars
    <3>2. programmed /\ ~spoiled => config = Identity
      BY <3>1 DEF FlashInv
    <3>3. CASE dataflash[1] = 255
      <4>1. \A i \in DOMAIN Identity : Pending(i)'
        BY <3>1, <3>3, IdentitySteps DEF Pending
      <4>2. \A k \in DOMAIN todo' : todo'[k][1] = "program" => todo'[k][2] \in DOMAIN Identity
        BY <3>1, <3>3, IdentitySteps
      <4>3. spoiled' \in BOOLEAN /\ programmed' \in BOOLEAN
        BY <3>1, Zenon DEF FlashInv
      <4>4. dataflash' \in [DOMAIN Identity -> 0 .. 255]
        BY <3>1 DEF FlashInv
      <4> QED BY <3>1, <3>2, <4>1, <4>2, <4>3, <4>4 DEF FlashInv
    <3>4. CASE dataflash[1] # 255
      <4>1. ~Fresh
        BY <3>4, IdentityType DEF Fresh
      <4>2. \A k \in DOMAIN todo' : todo'[k][1] # "program"
        BY <3>1, <3>4
      <4> QED BY <1>0, <3>1, <3>2, <4>1, <4>2, FlashGetsOn
    <3> QED BY <3>3, <3>4
  <2>4. CASE Banner /\ UNCHANGED <<clockVars, memoryVars>>
    <3>1. /\ todo = <<>> /\ phase = "identity" /\ phase' = "banner"
          /\ UNCHANGED <<dataflash, programmed, spoiled, config>> /\ Steps(todo', UartKinds)
      BY <2>4, BannerSteps DEF Banner, Enter, memoryVars
    <3>2. \A k \in DOMAIN todo' : todo'[k][1] # "program"
      BY <3>1, NoProgram DEF UartKinds
    <3>3. programmed /\ ~spoiled => config = Identity
      BY <3>1 DEF FlashInv
    <3>4. ~Fresh
      BY <3>1 DEF Fresh
    <3> QED BY <1>0, <3>1, <3>2, <3>3, <3>4, FlashGetsOn
  <2>5. CASE Loop /\ UNCHANGED <<clockVars, memoryVars>>
    <3>1. /\ todo = <<>> /\ todo' = <<>> /\ phase = "banner" /\ phase' = "loop"
          /\ UNCHANGED <<dataflash, programmed, spoiled, config>>
      BY <2>5 DEF Loop, Enter, memoryVars
    <3>2. \A k \in DOMAIN todo' : todo'[k][1] # "program"
      BY <3>1
    <3>3. programmed /\ ~spoiled => config = Identity
      BY <3>1 DEF FlashInv
    <3>4. ~Fresh
      BY <3>1 DEF Fresh
    <3> QED BY <1>0, <3>1, <3>2, <3>3, <3>4, FlashGetsOn
  <2> QED BY <1>4, <2>1, <2>2, <2>3, <2>4, <2>5 DEF MainStep
<1>5. CASE AnyReset
  <2>1. /\ phase' = "check" /\ todo' = <<>> /\ dataflash' = dataflash
        /\ programmed' = (programmed \/ phase \in {"banner", "loop"})
        /\ spoiled' = (spoiled \/ Cut)
    BY <1>5 DEF AnyReset, Reset
  <2>2. ~Cut => \A i : ~Pending(i)
    <3>1. \A i : <<"program", i>>[1] = "program"
      OBVIOUS
    <3> QED BY <3>1 DEF Cut, Pending
  <2>3. ~spoiled' => ~spoiled /\ ~Cut
    BY <2>1, Zenon
  <2>4. Fresh => ~(phase \in {"banner", "loop"})
    BY DEF Fresh
  <2>5. Fresh => ~programmed'
    BY <2>1, <2>4, Zenon DEF Fresh
  <2>6. Fresh => Fresh'
    BY <2>1, <2>5 DEF Fresh
  <2>7. ~spoiled' => Fresh' \/ Settled
    BY <2>2, <2>3, <2>6 DEF FlashInv, Settled
  <2>8. spoiled' \in BOOLEAN /\ programmed' \in BOOLEAN
    BY <2>1, Zenon
  <2>9. dataflash' \in [DOMAIN Identity -> 0 .. 255]
    BY <2>1 DEF FlashInv
  <2>10. ~spoiled' =>
           Fresh' \/ \A i \in DOMAIN Identity : dataflash'[i] = Identity[i] \/ Pending(i)'
    BY <2>1, <2>7 DEF Settled
  <2> QED BY <2>1, <2>8, <2>9, <2>10 DEF FlashInv
<1>6. CASE StartWait /\ UNCHANGED bootVars
  <2>1. /\ todo # <<>> /\ todo[1][1] = "start" /\ todo' = <<<<"sent", ticks>>>> \o Tail(todo)
    BY <1>6, Remaining DEF StartWait, Step, Replace
  <2>2. <<"sent", ticks>>[1] = "sent" /\ \A i : <<"program", i>>[1] = "program"
    OBVIOUS
  <2>3. /\ DOMAIN todo' = DOMAIN todo /\ todo'[1] = <<"sent", ticks>>
        /\ \A k \in DOMAIN todo : k # 1 => todo'[k] = todo[k]
    BY <2>1, <2>2, Replaced
  <2>4. \A i : Pending(i) => Pending(i)'
    <3> SUFFICES ASSUME NEW i, Pending(i) PROVE Pending(i)'
        OBVIOUS
    <3>1. PICK k \in DOMAIN todo : todo[k] = <<"program", i>>
      BY DEF Pending
    <3>2. k # 1
      BY <2>1, <2>2, <3>1
    <3> QED BY <2>3, <3>1, <3>2 DEF Pending
  <2>5. \A k \in DOMAIN todo' :
          todo'[k][1] = "program" => \E j \in DOMAIN todo : todo[j] = todo'[k]
    BY <2>2, <2>3
  <2> QED BY <1>6, <2>4, <2>5, FlashStays DEF bootVars, mainVars, flashVars
<1>7. CASE WaitSent /\ UNCHANGED bootVars
  <2>1. UNCHANGED <<phase, dataflash, config, programmed, spoiled>>
    BY <1>7 DEF bootVars, mainVars, flashVars
  <2>2. CASE Done
    <3>1. todo # <<>> /\ todo' = Tail(todo) /\ todo[1][1] # "program"
      BY <1>7, <2>2, Remaining DEF WaitSent, Step, Done
    <3>2. \A i : <<"program", i>>[1] = "program"
      OBVIOUS
    <3>3. \A i : Pending(i) => Pending(i)'
      BY <3>1, <3>2, Remaining DEF Pending
    <3>4. \A k \in DOMAIN todo' :
            todo'[k][1] = "program" => \E j \in DOMAIN todo : todo[j] = todo'[k]
      BY <3>1, Remaining
    <3> QED BY <2>1, <3>3, <3>4, FlashStays
  <2>3. CASE UNCHANGED todo
    BY <1>1, <2>1, <2>3
  <2> QED BY <1>7, <2>2, <2>3 DEF WaitSent
<1>8. CASE Program /\ UNCHANGED <<phase, clockVars>>
  <2>1. /\ todo # <<>> /\ todo' = Tail(todo)
        /\ todo[1][1] = "program" /\ Arg(1) = todo[1][2] /\ 1 \in DOMAIN todo
        /\ spoiled' = (spoiled \/ ~bDATA_WE)
        /\ dataflash' = IF bDATA_WE THEN [dataflash EXCEPT ![Arg(1)] = Identity[Arg(1)]] ELSE dataflash
        /\ UNCHANGED <<phase, config, programmed>>
    BY <1>8, Remaining DEF Program, Step, Done, Arg, FlashFrame, mainVars
  <2>2. Arg(1) \in DOMAIN Identity /\ Identity[Arg(1)] \in 0 .. 255
    BY <2>1, IdentityType DEF FlashInv
  <2>3. dataflash' \in [DOMAIN Identity -> 0 .. 255]
    BY <2>1, <2>2 DEF FlashInv
  <2>4. spoiled' \in BOOLEAN /\ programmed' \in BOOLEAN
    BY <2>1, Zenon DEF FlashInv
  <2>5. \A k \in DOMAIN todo' : todo'[k][1] = "program" => todo'[k][2] \in DOMAIN Identity
    BY <2>1, Remaining DEF FlashInv
  <2>6. phase = "identity"
    <3>1. todo[1][1] \in Allowed(phase) \cup {"sent"}
      BY <2>1, Remaining
    <3> QED BY <2>1, <3>1 DEF Allowed, RadioKinds, UartKinds, CallInv
  <2>7. ~spoiled' => ~spoiled /\ bDATA_WE
    BY <2>1, Zenon
  <2>8. ~spoiled' => \A i \in DOMAIN Identity : dataflash'[i] = Identity[i] \/ Pending(i)'
    <3> SUFFICES ASSUME ~spoiled', NEW i \in DOMAIN Identity
                 PROVE  dataflash'[i] = Identity[i] \/ Pending(i)'
        OBVIOUS
    <3>1. dataflash' = [dataflash EXCEPT ![Arg(1)] = Identity[Arg(1)]]
      BY <2>1, <2>7
    <3>2. dataflash[i] = Identity[i] \/ Pending(i)
      BY <2>6, <2>7 DEF FlashInv, Fresh
    <3>3. CASE i = Arg(1) \/ dataflash[i] = Identity[i]
      BY <2>2, <3>1, <3>3 DEF FlashInv
    <3>4. CASE i # Arg(1) /\ Pending(i)
      <4>1. PICK k \in DOMAIN todo : todo[k] = <<"program", i>>
        BY <3>4 DEF Pending
      <4>2. k # 1
        BY <2>1, <3>4, <4>1
      <4> QED BY <2>1, <4>1, <4>2, Remaining DEF Pending
    <3> QED BY <3>2, <3>3, <3>4
  <2>9. programmed' /\ ~spoiled' => config' = Identity
    BY <2>1, <2>6, <2>7 DEF FlashInv
  <2> QED BY <2>3, <2>4, <2>5, <2>8, <2>9 DEF FlashInv
<1>9. CASE Stays
  BY <1>1, <1>9 DEF Stays, memoryVars
<1>10. CASE timer0_isr /\ UNCHANGED bootVars
  BY <1>1, <1>10 DEF timer0_isr, bootVars, mainVars, flashVars
<1> QED BY <1>2, <1>3, <1>4, <1>5, <1>6, <1>7, <1>8, <1>9, <1>10, NextCases

\* The conjunction the three results rest on
THEOREM FirmwareInvariant == Spec => []FirmwareInv
<1>1. Init => WaitInv
  BY TickModAssumption DEF Init, WaitInv, Step, Tick
<1>2. Init => RequestInv
  BY NotEightyFive, Zenon DEF Init, RequestInv
<1>3. Init => FlashInv
  <2> SUFFICES ASSUME Init PROVE FlashInv
      OBVIOUS
  <2>1. Fresh /\ todo = <<>> /\ phase = "check"
    BY DEF Init, Fresh
  <2>2. spoiled \in BOOLEAN /\ programmed \in BOOLEAN
    BY Zenon DEF Init
  <2> QED BY <2>1, <2>2, IdentityType DEF FlashInv, Fresh
<1> QED BY <1>1, <1>2, <1>3, FirmwareCalls, WaitKept, RequestKept, FlashKept, PTL
        DEF Spec, FirmwareInv

\* From the second start on the dongle uses the whole identity, for every identity,
\* unless the programming was cut short or lost a byte (main.c:56-67, flash.c:29-47).
THEOREM IdentityHonestHolds == Spec => []IdentityHonest
<1>1. FirmwareInv => IdentityHonest
  BY DEF FirmwareInv, FlashInv, IdentityHonest
<1> QED BY <1>1, FirmwareInvariant, PTL

-----------------------------------------------------------------------------
(* The radio *)

\* The chip was not ready in time: what is written to it is lost.
Gone == gaveUp /\ ~chip.ready /\ NoWake(todo)

Running == Runs(todo, chip, state, hw3000_channel)

BeingSetUp == ~gaveUp /\ \E k \in 1 .. 30 : SettingUp(k, todo, chip, hw3000_channel)

ChipInv == IsChip /\ (chip.sending => chip.ready)

RadioInv ==
    /\ ChipInv
    /\ hw3000_channel \in 0 .. 255 /\ config \in [DOMAIN Identity -> 0 .. 255]
    /\ phase \in {"check", "bootloader"} => ~gaveUp /\ Sound(chip)
    /\ phase = "radio" => BeingSetUp \/ Gone \/ Running
    /\ phase \in {"link", "identity", "banner", "loop"} => Gone \/ Running

\* A step within a phase of main
LEMMA RadioGoesOn ==
    ASSUME RadioInv, UNCHANGED <<phase, hw3000_channel, config>>, ChipInv',
           phase \notin {"check", "bootloader"},
           Gone' \/ Running' \/ (phase = "radio" /\ BeingSetUp')
    PROVE  RadioInv'
<1>1. phase' = phase /\ hw3000_channel' = hw3000_channel /\ config' = config
  OBVIOUS
<1>2. hw3000_channel' \in 0 .. 255 /\ config' \in [DOMAIN Identity -> 0 .. 255]
  BY <1>1 DEF RadioInv
<1>3. phase' \notin {"check", "bootloader"}
  BY <1>1
<1>4. phase' \in {"link", "identity", "banner", "loop"} => Gone' \/ Running'
  BY <1>1
<1>5. phase' = "radio" => BeingSetUp' \/ Gone' \/ Running'
  OBVIOUS
<1> QED BY <1>2, <1>3, <1>4, <1>5, Zenon DEF RadioInv

\* The step that has been made is taken off the list.
LEMMA TailIs ==
    ASSUME CallInv, todo # <<>>
    PROVE  /\ Advances(todo, Tail(todo)) /\ Head(todo) = todo[1]
           /\ phase \notin {"check", "bootloader"}
<1>1. /\ Head(todo) = todo[1] /\ 1 \in DOMAIN todo /\ Steps(Tail(todo), Allowed(phase))
      /\ \A k \in DOMAIN Tail(todo) : k + 1 \in DOMAIN todo /\ Tail(todo)[k] = todo[k + 1]
      /\ \A k \in DOMAIN todo : k # 1 =>
           k - 1 \in DOMAIN Tail(todo) /\ Tail(todo)[k - 1] = todo[k]
  BY Remaining
<1>2. DOMAIN todo = 1 .. Len(todo) /\ DOMAIN Tail(todo) = 1 .. Len(Tail(todo))
  BY <1>1, StepsBasic DEF CallInv
<1>3. DOMAIN todo \subseteq Nat \ {0} /\ DOMAIN Tail(todo) \subseteq Nat \ {0}
  <2>1. Len(todo) \in Nat /\ Len(Tail(todo)) \in Nat
    BY <1>1, StepsBasic DEF CallInv
  <2> QED BY <1>2, <2>1
<1> QED BY <1>1, <1>3 DEF Advances, CallInv

\* Nothing wakes the chip later.
LEMMA GoneFollows ==
    ASSUME NEW s, NEW s2, Advances(s, s2), NoWake(s)
    PROVE  NoWake(s2)
BY SMTT(30) DEF Advances, NoWake

\* What the step that comes next can be
LEMMA RadioHead ==
    ASSUME CallInv, RadioInv, todo # <<>>
    PROVE  \/ Gone /\ todo[1][1] \notin {"power", "ready"}
           \/ Running /\ Fine(todo[1])
           \/ /\ phase = "radio" /\ ~gaveUp
              /\ \E k \in 1 .. 30 :
                   /\ SettingUp(k, todo, chip, hw3000_channel)
                   /\ DOMAIN Tail(todo) = 1 .. 41 + Len(ModemSettings) - k
                   /\ k \in {1, 2} => todo[1][1] = "power"
                   /\ k = 4 => todo[1][1] = "ready"
                   /\ k \notin {1, 2, 4} => /\ todo[1][1] = "write"
                                            /\ todo[1][2] \in 0 .. 127 /\ todo[1][3] \in Words
<1>1. 1 \in DOMAIN todo /\ phase \notin {"check", "bootloader"}
  BY TailIs DEF Advances
<1>2. CASE Gone
  BY <1>1, <1>2 DEF Gone, NoWake
<1>3. CASE Running
  BY <1>1, <1>3, SMTT(30) DEF Running, Runs, Configured, AllFine
<1>4. CASE phase = "radio" /\ BeingSetUp
  <2>1. PICK k \in 1 .. 30 : SettingUp(k, todo, chip, hw3000_channel)
    BY <1>4 DEF BeingSetUp
  <2>2. DOMAIN Tail(todo) = 1 .. 41 + Len(ModemSettings) - k
    BY <2>1, SettingUpLeft DEF CallInv
  <2>3. /\ k \in {1, 2} => todo[1][1] = "power"
        /\ k = 4 => todo[1][1] = "ready"
        /\ k \notin {1, 2, 4} =>
             todo[1][1] = "write" /\ todo[1][2] \in 0 .. 127 /\ todo[1][3] \in Words
    BY <1>1, <2>1, SettingUpHead, SMTT(30)
  <2> QED BY <1>4, <2>1, <2>2, <2>3 DEF BeingSetUp
<1> QED BY <1>1, <1>2, <1>3, <1>4 DEF RadioInv, CallInv

RadioFrame == UNCHANGED <<phase, hw3000_channel, config>>

\* A register is written.
LEMMA WriteKeeps ==
    ASSUME CallInv, RadioInv, WriteStep, RadioFrame
    PROVE  RadioInv'
<1> DEFINE op == todo[1]
<1>1. /\ todo # <<>> /\ op[1] = "write" /\ ChipWrite(spi_write16(op[2], op[3]))
      /\ todo' = Tail(todo) /\ state' = state /\ gaveUp' = gaveUp
      /\ Advances(todo, todo') /\ phase \notin {"check", "bootloader"}
  <2>1. todo # <<>> /\ Head(todo)[1] = "write" /\ todo' = Tail(todo)
    BY DEF WriteStep, Step, Done
  <2>2. ChipWrite(spi_write16(Head(todo)[1 + 1], Head(todo)[2 + 1]))
    BY DEF WriteStep, Arg
  <2>3. Advances(todo, Tail(todo)) /\ Head(todo) = todo[1] /\ phase \notin {"check", "bootloader"}
    BY <2>1, TailIs
  <2>4. 1 + 1 = 2 /\ 2 + 1 = 3
    OBVIOUS
  <2>5. ChipWrite(spi_write16(op[2], op[3]))
    BY <2>2, <2>3, <2>4
  <2>6. state' = state /\ gaveUp' = gaveUp
    BY DEF WriteStep
  <2> QED BY <2>1, <2>3, <2>5, <2>6
<1>2. ChipInv
  BY DEF RadioInv
<1>3. CASE Gone
  <2>1. chip' = chip
    BY <1>1, <1>3 DEF ChipWrite, Gone
  <2>2. ChipInv'
    BY <1>2, <2>1 DEF ChipInv, IsChip
  <2>3. Gone'
    BY <1>1, <1>3, <2>1, GoneFollows DEF Gone
  <2> QED BY <1>1, <2>2, <2>3, RadioGoesOn DEF RadioFrame
<1>4. ASSUME op[2] \in 0 .. 127, op[3] \in Words
      PROVE  Written(chip, chip', op[2], op[3]) /\ ChipInv'
  <2>1. Written(chip, chip', op[2], op[3])
    BY <1>1, <1>2, <1>4, ChipWritten DEF ChipInv
  <2>2. IsChip' /\ (chip.ready => chip'.ready) /\ (~chip.ready => chip' = chip)
    BY <2>1 DEF Written, IsChip
  <2>3. ChipInv'
    <3>1. CASE chip.ready
      BY <2>2, <3>1 DEF ChipInv
    <3>2. CASE ~chip.ready
      BY <1>2, <2>2, <3>2 DEF ChipInv
    <3> QED BY <3>1, <3>2
  <2> QED BY <2>1, <2>3
<1>5. CASE Running /\ Fine(op)
  <2>1. Written(chip, chip', op[2], op[3]) /\ ChipInv'
    BY <1>1, <1>4, <1>5 DEF Fine
  <2>2. Effect(op, chip, chip')
    BY <1>1, <2>1 DEF Effect
  <2>3. Runs(todo', chip', state', hw3000_channel)
    BY <1>1, <1>5, <2>2, RunsOn DEF Running
  <2>4. Running'
    BY <2>3 DEF Running, RadioFrame
  <2> QED BY <1>1, <2>1, <2>4, RadioGoesOn DEF RadioFrame
<1>6. ASSUME NEW k \in 1 .. 30, phase = "radio", ~gaveUp,
             SettingUp(k, todo, chip, hw3000_channel),
             DOMAIN Tail(todo) = 1 .. 41 + Len(ModemSettings) - k, k \notin {1, 2, 4},
             op[2] \in 0 .. 127, op[3] \in Words
      PROVE  RadioInv'
  <2>1. Written(chip, chip', op[2], op[3]) /\ ChipInv'
    BY <1>4, <1>6
  <2>2. CASE k = 30
    <3>1. DOMAIN todo' = 1 .. 11 + Len(ModemSettings)
      <4>1. 41 + Len(ModemSettings) - 30 = 11 + Len(ModemSettings)
        BY TableIs
      <4> QED BY <1>1, <1>6, <2>2, <4>1
    <3>2. hw3000_channel \in 0 .. 255
      BY DEF RadioInv
    <3>3. SettingUp(30, todo, chip, hw3000_channel)
      BY <1>6, <2>2, SMTT(30)
    <3>4. Configured(todo', chip', state', hw3000_channel) /\ Quiet(todo', chip')
      BY <1>1, <2>1, <3>1, <3>2, <3>3, SetUpDone
    <3>5. Running'
      BY <3>4 DEF Running, Runs, RadioFrame
    <3> QED BY <1>1, <2>1, <3>5, RadioGoesOn DEF RadioFrame
  <2>3. CASE k # 30
    <3>0. k \in 1 .. 29 /\ k # 4 /\ op[1] # "power"
      BY <1>1, <1>6, <2>3
    <3>1. SettingUp(k + 1, todo', chip', hw3000_channel)
      BY <1>1, <1>6, <2>1, <3>0, SettingUpGoesOn
    <3>2. k + 1 \in 1 .. 30
      BY <2>3
    <3>3. BeingSetUp'
      BY <1>1, <1>6, <3>1, <3>2 DEF BeingSetUp, RadioFrame
    <3> QED BY <1>1, <1>6, <2>1, <3>3, RadioGoesOn DEF RadioFrame
  <2> QED BY <2>2, <2>3
<1> QED BY <1>1, <1>3, <1>5, <1>6, RadioHead

\* A step that leaves the chip's registers alone and is not one of hw3000_setup's
LEMMA LoopStepKeeps ==
    ASSUME CallInv, RadioInv, RadioFrame, todo # <<>>, gaveUp' = gaveUp, ChipInv',
           todo[1][1] \notin {"write", "power", "ready"},
           Gone => chip'.ready = chip.ready,
           NoWake(todo) => NoWake(todo'),
           \/ Waits(todo, todo') /\ SameChip(chip, chip') /\ state' = state
           \/ /\ Advances(todo, todo') /\ Fine(todo[1]) => Effect(todo[1], chip, chip')
              /\ Advances(todo, todo')
              /\ IF todo[1][1] = "state" THEN chip' = chip /\ state' = todo[1][2]
                   ELSE state' = state
    PROVE  RadioInv'
<1>1. phase \notin {"check", "bootloader"}
  BY TailIs
<1>2. CASE Gone
  <2>1. Gone'
    BY <1>2 DEF Gone
  <2> QED BY <1>1, <2>1, RadioGoesOn DEF RadioFrame
<1>3. CASE Running /\ Fine(todo[1])
  <2>1. Runs(todo', chip', state', hw3000_channel)
    BY <1>3, RunsOn DEF Running
  <2>2. Running'
    BY <2>1 DEF Running, RadioFrame
  <2> QED BY <1>1, <2>2, RadioGoesOn DEF RadioFrame
<1> QED BY <1>2, <1>3, RadioHead

\* The reply is written to the chip's FIFO.
LEMMA BytesKeep ==
    ASSUME CallInv, RadioInv, WriteBytes, RadioFrame
    PROVE  RadioInv'
<1> DEFINE op == todo[1]
<1>1. /\ todo # <<>> /\ op[1] = "bytes" /\ ChipFifo(spi_writebytes(op[2], op[3]))
      /\ state' = state /\ gaveUp' = gaveUp /\ Advances(todo, todo')
  <2>1. todo # <<>> /\ Head(todo)[1] = "bytes" /\ todo' = Tail(todo)
    BY DEF WriteBytes, Step, Done
  <2>2. ChipFifo(spi_writebytes(Head(todo)[1 + 1], Head(todo)[2 + 1]))
    BY DEF WriteBytes, Arg
  <2>3. Advances(todo, Tail(todo)) /\ Head(todo) = todo[1]
    BY <2>1, TailIs
  <2>4. 1 + 1 = 2 /\ 2 + 1 = 3
    OBVIOUS
  <2>5. ChipFifo(spi_writebytes(op[2], op[3]))
    BY <2>2, <2>3, <2>4
  <2>6. state' = state /\ gaveUp' = gaveUp
    BY DEF WriteBytes
  <2> QED BY <2>1, <2>3, <2>5, <2>6
<1>2. ChipInv
  BY DEF RadioInv
<1>3. chip' = chip \/ chip' = [chip EXCEPT !.out = Bytes(spi_writebytes(op[2], op[3]))]
  BY <1>1 DEF ChipFifo
<1>4. ChipInv' /\ chip'.ready = chip.ready
  <2>1. CASE chip' = chip
    BY <1>2, <2>1 DEF ChipInv, IsChip
  <2>2. CASE chip' = [chip EXCEPT !.out = Bytes(spi_writebytes(op[2], op[3]))]
    <3> DEFINE b == Bytes(spi_writebytes(op[2], op[3]))
    <3>1. chip' = [chip EXCEPT !.out = b]
      BY <2>2
    <3> HIDE DEF b
    <3>2. /\ DOMAIN chip' = ChipFields /\ chip'.ready = chip.ready
          /\ chip'.sending = chip.sending
      BY <1>2, <3>1 DEF ChipInv, IsChip, ChipFields
    <3> QED BY <1>2, <3>2 DEF ChipInv, IsChip
  <2> QED BY <1>3, <2>1, <2>2
<1>5. Fine(op) => Effect(op, chip, chip')
  <2> SUFFICES ASSUME Fine(op) PROVE Effect(op, chip, chip')
      OBVIOUS
  <2>1. op[2] = HW3000_REG_FIFODATA /\ op[3] = Reply
    BY <1>1 DEF Fine
  <2>2. IF chip.ready THEN chip' = [chip EXCEPT !.out = Reply] ELSE chip' = chip
    BY <1>1, <1>2, <2>1, BytesWritten DEF ChipInv
  <2>3. /\ chip'.ready = chip.ready /\ chip'.bank = chip.bank /\ chip'.sending = chip.sending
        /\ chip'.regs = chip.regs /\ (chip.ready => chip'.out = Reply)
    BY <1>2, <2>2 DEF ChipInv, IsChip, ChipFields
  <2>4. SameRegisters(chip, chip')
    BY <2>3 DEF SameRegisters, RegisterOf
  <2> QED BY <1>1, <2>1, <2>3, <2>4 DEF Effect
<1>6. NoWake(todo) => NoWake(todo')
  BY <1>1, GoneFollows
<1>7. op[1] \notin {"write", "power", "ready"} /\ op[1] # "state"
  BY <1>1
<1> QED BY <1>1, <1>4, <1>5, <1>6, <1>7, LoopStepKeeps

\* A step that leaves the chip alone
LEMMA ChipStays ==
    ASSUME chip' = chip, ChipInv
    PROVE  ChipInv' /\ SameChip(chip, chip')
BY DEF ChipInv, IsChip, SameChip, SameRegisters

\* The state of the driver is assigned.
LEMMA AssignKeeps ==
    ASSUME CallInv, RadioInv, AssignState, RadioFrame
    PROVE  RadioInv'
<1>1. /\ todo # <<>> /\ todo[1][1] = "state" /\ state' = todo[1][2]
      /\ chip' = chip /\ gaveUp' = gaveUp /\ Advances(todo, todo')
  <2>1. todo # <<>> /\ Head(todo)[1] = "state" /\ todo' = Tail(todo)
    BY DEF AssignState, Step, Done
  <2>2. state' = Head(todo)[1 + 1]
    BY DEF AssignState, Arg
  <2>3. Advances(todo, Tail(todo)) /\ Head(todo) = todo[1]
    BY <2>1, TailIs
  <2>4. 1 + 1 = 2
    OBVIOUS
  <2>5. chip' = chip /\ gaveUp' = gaveUp
    BY DEF AssignState
  <2> QED BY <2>1, <2>2, <2>3, <2>4, <2>5
<1>2. ChipInv' /\ SameChip(chip, chip')
  BY <1>1, ChipStays DEF RadioInv
<1>3. Effect(todo[1], chip, chip')
  BY <1>1, <1>2 DEF Effect
<1>4. NoWake(todo) => NoWake(todo')
  BY <1>1, GoneFollows
<1>5. todo[1][1] \notin {"write", "power", "ready"}
  BY <1>1
<1> QED BY <1>1, <1>2, <1>3, <1>4, <1>5, LoopStepKeeps

\* The waits, and the steps that have nothing to do with the chip
LEMMA OtherKeeps ==
    ASSUME CallInv, RadioInv, RadioFrame, todo # <<>>,
           UNCHANGED <<chip, state, gaveUp>>,
           todo[1][1] \notin {"write", "bytes", "state", "power", "ready"},
           Done \/ Waits(todo, todo')
    PROVE  RadioInv'
<1>1. ChipInv' /\ SameChip(chip, chip')
  BY ChipStays DEF RadioInv
<1>2. Advances(todo, todo') \/ Waits(todo, todo')
  BY TailIs DEF Done
<1>3. NoWake(todo) => NoWake(todo')
  <2>1. CASE Waits(todo, todo')
    <3>1. todo'[1][1] \notin {"power", "ready"}
      BY <2>1 DEF Waits
    <3> QED BY <2>1, <3>1 DEF Waits, NoWake
  <2> QED BY <1>2, <2>1, GoneFollows
<1>4. Effect(todo[1], chip, chip')
  BY <1>1 DEF Effect
<1>5. todo[1][1] \notin {"write", "power", "ready"} /\ todo[1][1] # "state"
  OBVIOUS
<1>6. chip' = chip /\ state' = state /\ gaveUp' = gaveUp
  OBVIOUS
<1> QED BY <1>1, <1>2, <1>3, <1>4, <1>5, <1>6, LoopStepKeeps

\* The chip loses its power, or gets it back.
LEMMA PowerKeeps ==
    ASSUME CallInv, RadioInv, hw3000_power, RadioFrame
    PROVE  RadioInv'
<1>1. /\ todo # <<>> /\ todo[1][1] = "power" /\ todo' = Tail(todo)
      /\ Advances(todo, todo') /\ gaveUp' = gaveUp
      /\ phase \notin {"check", "bootloader"}
  BY TailIs DEF hw3000_power, Step, Done
<1>2. chip' = [PoweredOff EXCEPT !.powered = (Arg(1) = 1)]
  BY DEF hw3000_power
<1>3. DOMAIN chip' = ChipFields /\ chip'.sending = FALSE
  <2> DEFINE p == (Arg(1) = 1)
  <2>1. chip' = [PoweredOff EXCEPT !.powered = p]
    BY <1>2
  <2> HIDE DEF p
  <2> QED BY <2>1, Zenon DEF PoweredOff, ChipFields
<1>4. ChipInv' /\ ~chip'.sending
  BY <1>3 DEF ChipInv, IsChip
<1>5. PICK k \in 1 .. 30 :
         /\ phase = "radio" /\ ~gaveUp
         /\ SettingUp(k, todo, chip, hw3000_channel)
         /\ DOMAIN Tail(todo) = 1 .. 41 + Len(ModemSettings) - k
         /\ k \notin {1, 2, 4} => todo[1][1] = "write"
         /\ k = 4 => todo[1][1] = "ready"
  BY <1>1, RadioHead DEF Fine
<1>6. k \in 1 .. 29 /\ k # 4 /\ k + 1 \in 1 .. 30
  <2>1. k \in {1, 2}
    BY <1>1, <1>5
  <2> QED BY <2>1
<1>7. SettingUp(k + 1, todo', chip', hw3000_channel)
  <2>1. todo[1][1] # "write"
    BY <1>1
  <2> QED BY <1>1, <1>4, <1>5, <1>6, <2>1, SettingUpGoesOn
<1>8. BeingSetUp'
  BY <1>1, <1>5, <1>6, <1>7 DEF BeingSetUp, RadioFrame
<1> QED BY <1>1, <1>4, <1>5, <1>8, RadioGoesOn DEF RadioFrame

\* The chip is found ready, or waited for once more, or given up.
LEMMA ReadyKeeps ==
    ASSUME CallInv, RadioInv, WaitReady, RadioFrame
    PROVE  RadioInv'
<1>1. /\ Step("ready")
      /\ IF chip.ready \/ Arg(1) <= 1 THEN Done ELSE Replace(<<"ready", Arg(1) - 1>>)
      /\ gaveUp' = (~chip.ready /\ Arg(1) <= 1)
  BY ReadyRead
<1>2. /\ todo # <<>> /\ todo[1][1] = "ready" /\ Advances(todo, Tail(todo))
      /\ phase \notin {"check", "bootloader"}
  BY <1>1, TailIs DEF Step
<1>3. chip' = chip /\ state' = state
  BY DEF WaitReady
<1>4. ChipInv'
  BY <1>3, ChipStays DEF RadioInv
<1>5. PICK k \in 1 .. 30 :
         /\ phase = "radio" /\ ~gaveUp
         /\ SettingUp(k, todo, chip, hw3000_channel)
         /\ DOMAIN Tail(todo) = 1 .. 41 + Len(ModemSettings) - k
         /\ k \in {1, 2} => todo[1][1] = "power"
         /\ k \notin {1, 2, 4} => todo[1][1] = "write"
  BY <1>2, RadioHead DEF Fine
<1>6. k = 4
  BY <1>2, <1>5
<1>7. SettingUp(4, todo, chip, hw3000_channel) /\ DOMAIN Tail(todo) = 1 .. 41 + Len(ModemSettings) - 4
  BY <1>5, <1>6
<1>8. CASE chip.ready
  <2>1. todo' = Tail(todo)
    BY <1>1, <1>8 DEF Done
  <2>2. ~gaveUp'
    BY <1>1, <1>8, Zenon
  <2>3. SettingUp(5, todo', chip', hw3000_channel)
    BY <1>2, <1>3, <1>7, <1>8, <2>1, SettingUpAwake
  <2>4. BeingSetUp'
    BY <2>2, <2>3 DEF BeingSetUp, RadioFrame
  <2> QED BY <1>2, <1>4, <1>5, <2>4, RadioGoesOn DEF RadioFrame
<1>9. CASE ~chip.ready /\ Arg(1) <= 1
  <2>1. todo' = Tail(todo)
    BY <1>1, <1>9 DEF Done
  <2>2. gaveUp'
    BY <1>1, <1>9, Zenon
  <2>3. hw3000_channel \in 0 .. 255
    BY DEF RadioInv
  <2>4. NoWake(todo')
    BY <1>2, <1>7, <2>1, <2>3, SettingUpGivenUp
  <2>5. Gone'
    BY <1>3, <1>9, <2>2, <2>4 DEF Gone
  <2> QED BY <1>2, <1>4, <2>5, RadioGoesOn DEF RadioFrame
<1>10. CASE ~chip.ready /\ ~(Arg(1) <= 1)
  <2> DEFINE op == <<"ready", Arg(1) - 1>>
  <2>1. todo' = <<op>> \o Tail(todo) /\ op[1] = "ready"
    BY <1>1, <1>10 DEF Replace
  <2>2. op[1] \in Allowed(phase) \cup {"sent"}
    <3>1. todo[1][1] \in Allowed(phase) \cup {"sent"}
      BY <1>2, Remaining
    <3> QED BY <1>2, <2>1, <3>1
  <2> HIDE DEF op
  <2>3. /\ DOMAIN todo' = DOMAIN todo /\ todo'[1] = op
        /\ \A j \in DOMAIN todo : j # 1 => todo'[j] = todo[j]
    BY <1>2, <2>1, <2>2, Replaced
  <2>4. ~gaveUp'
    BY <1>1, <1>10, Zenon
  <2>5. 1 \in DOMAIN todo
    BY <1>2 DEF Advances
  <2>6. SettingUp(4, todo', chip', hw3000_channel)
    BY <1>3, <1>7, <2>1, <2>3, <2>5, SettingUpWaits
  <2>7. BeingSetUp'
    BY <2>4, <2>6 DEF BeingSetUp, RadioFrame
  <2> QED BY <1>2, <1>4, <1>5, <2>7, RadioGoesOn DEF RadioFrame
<1> QED BY <1>8, <1>9, <1>10

\* The chip, the air, the clock and the UART
LEMMA AirKeeps ==
    ASSUME RadioInv, UNCHANGED <<todo, phase, state, hw3000_channel, config, gaveUp>>,
           ChipInv', SameChip(chip, chip')
    PROVE  RadioInv'
<1>1. /\ todo' = todo /\ phase' = phase /\ state' = state /\ gaveUp' = gaveUp
      /\ hw3000_channel' = hw3000_channel /\ config' = config
  OBVIOUS
<1>2. Gone => Gone'
  BY <1>1 DEF Gone, SameChip
<1>3. Running => Running'
  BY <1>1, RunsSame DEF Running
<1>4. BeingSetUp => BeingSetUp'
  BY <1>1, SettingUpSame DEF BeingSetUp
<1>5. Sound(chip) => Sound(chip')
  BY DEF Sound, SameChip, SameRegisters
<1>6. hw3000_channel' \in 0 .. 255 /\ config' \in [DOMAIN Identity -> 0 .. 255]
  BY <1>1 DEF RadioInv
<1>7. phase \in {"check", "bootloader"} => ~gaveUp' /\ Sound(chip')
  BY <1>1, <1>5 DEF RadioInv
<1>8. phase = "radio" => BeingSetUp' \/ Gone' \/ Running'
  BY <1>2, <1>3, <1>4 DEF RadioInv
<1>9. phase \in {"link", "identity", "banner", "loop"} => Gone' \/ Running'
  BY <1>2, <1>3 DEF RadioInv
<1> QED BY <1>1, <1>6, <1>7, <1>8, <1>9, Zenon DEF RadioInv

\* The chip gets ready before it is given up, thus before its registers are written.
LEMMA ReadyWakes ==
    ASSUME RadioInv, ChipReady, UNCHANGED <<phase, config>>
    PROVE  RadioInv'
<1>1. /\ todo' = todo /\ phase' = phase /\ state' = state /\ gaveUp' = gaveUp
      /\ hw3000_channel' = hw3000_channel /\ config' = config
      /\ ~chip.ready /\ ~gaveUp /\ chip' = [chip EXCEPT !.ready = TRUE]
  BY DEF ChipReady
<1>2. IsChip /\ ~chip.sending
  BY <1>1 DEF RadioInv, ChipInv
<1>3. IsChip' /\ ~chip'.sending /\ chip'.ready
  BY <1>1, <1>2 DEF IsChip, ChipFields
<1>4. ~Gone /\ ~Running
  BY <1>1 DEF Gone, Running, Runs, Configured
<1>5. BeingSetUp => BeingSetUp'
  <2> SUFFICES ASSUME BeingSetUp PROVE BeingSetUp'
      OBVIOUS
  <2>1. PICK k \in 1 .. 30 : SettingUp(k, todo, chip, hw3000_channel)
    BY DEF BeingSetUp
  <2>2. SettingUp(k, todo, chip', hw3000_channel)
    BY <1>1, <1>3, <2>1, SettingUpWakes
  <2> QED BY <1>1, <2>2 DEF BeingSetUp
<1>6. ChipInv'
  BY <1>3 DEF ChipInv
<1>7. phase \in {"check", "bootloader"} => ~gaveUp' /\ Sound(chip')
  BY <1>1, <1>3 DEF Sound
<1>8. hw3000_channel' \in 0 .. 255 /\ config' \in [DOMAIN Identity -> 0 .. 255]
  BY <1>1 DEF RadioInv
<1>9. phase = "radio" => BeingSetUp' \/ Gone' \/ Running'
  BY <1>4, <1>5 DEF RadioInv
<1>10. phase \notin {"link", "identity", "banner", "loop"}
  BY <1>4 DEF RadioInv
<1> QED BY <1>1, <1>6, <1>7, <1>8, <1>9, <1>10, Zenon DEF RadioInv

\* A field that nothing but the air and hw3000_process looks at
LEMMA AirChip ==
    ASSUME ChipInv, NEW f, NEW i,
           \/ chip' = [chip EXCEPT !.irq = i]
           \/ chip' = [chip EXCEPT !.fifo = f, !.irq = i]
    PROVE  ChipInv' /\ SameChip(chip, chip')
<1>1. /\ DOMAIN chip' = ChipFields /\ chip'.ready = chip.ready /\ chip'.bank = chip.bank
      /\ chip'.sending = chip.sending /\ chip'.out = chip.out /\ chip'.regs = chip.regs
  BY DEF ChipInv, IsChip, ChipFields
<1>2. SameRegisters(chip, chip')
  BY <1>1 DEF SameRegisters, RegisterOf
<1> QED BY <1>1, <1>2 DEF ChipInv, IsChip, SameChip

\* A step of hw3000.c
LEMMA RadioStepKeeps ==
    ASSUME CallInv, RadioInv, RadioStep /\ UNCHANGED bootVars
    PROVE  RadioInv'
<1>1. phase' = phase /\ config' = config
  BY DEF bootVars, mainVars
<1>2. CASE WriteStep
  BY <1>1, <1>2, WriteKeeps DEF WriteStep, RadioFrame
<1>3. CASE WriteBytes
  BY <1>1, <1>3, BytesKeep DEF WriteBytes, RadioFrame
<1>4. CASE AssignState
  BY <1>1, <1>4, AssignKeeps DEF AssignState, RadioFrame
<1>5. CASE hw3000_power
  BY <1>1, <1>5, PowerKeeps DEF hw3000_power, RadioFrame
<1>6. CASE WaitReady
  BY <1>1, <1>6, ReadyKeeps DEF WaitReady, RadioFrame
<1>7. ASSUME NEW op, todo # <<>>, Replace(op), op[1] \in {"calibrated", "sent"},
             \/ todo[1][1] = "calibrated" /\ op[1] = "calibrated"
             \/ todo[1][1] = "start" /\ op[1] = "sent"
      PROVE  Waits(todo, todo')
  <2>1. op[1] \in Allowed(phase) \cup {"sent"}
    <3>1. Head(todo) = todo[1] /\ Head(todo)[1] \in Allowed(phase) \cup {"sent"}
      BY <1>7, Remaining
    <3> QED BY <1>7, <3>1
  <2>2. /\ DOMAIN todo' = DOMAIN todo /\ todo'[1] = op
        /\ \A k \in DOMAIN todo : k # 1 => todo'[k] = todo[k]
    BY <1>7, <2>1, Replaced DEF Replace
  <2>3. 1 \in DOMAIN todo
    BY <1>7, Remaining
  <2> QED BY <1>7, <2>2, <2>3 DEF Waits, Waiting
<1>8. CASE WaitCalibrated
  <2>1. /\ todo # <<>> /\ todo[1][1] = "calibrated"
        /\ UNCHANGED <<chip, state, gaveUp, hw3000_channel>>
    BY <1>8, TailIs DEF WaitCalibrated, Step
  <2>2. Done \/ Replace(<<"calibrated", Arg(1) - 1>>)
    BY <1>8 DEF WaitCalibrated
  <2>3. <<"calibrated", Arg(1) - 1>>[1] = "calibrated"
    OBVIOUS
  <2>4. Done \/ Waits(todo, todo')
    BY <1>7, <2>1, <2>2, <2>3
  <2> QED BY <1>1, <2>1, <2>4, OtherKeeps DEF RadioFrame
<1>9. CASE StartWait
  <2>1. /\ todo # <<>> /\ todo[1][1] = "start"
        /\ UNCHANGED <<chip, state, gaveUp, hw3000_channel>>
    BY <1>9, TailIs DEF StartWait, Step
  <2>2. Replace(<<"sent", ticks>>)
    BY <1>9 DEF StartWait
  <2>3. <<"sent", ticks>>[1] = "sent"
    OBVIOUS
  <2>4. Waits(todo, todo')
    BY <1>7, <2>1, <2>2, <2>3
  <2> QED BY <1>1, <2>1, <2>4, OtherKeeps DEF RadioFrame
<1>10. CASE WaitSent
  <2>1. /\ todo # <<>> /\ todo[1][1] = "sent"
        /\ UNCHANGED <<chip, state, gaveUp, hw3000_channel>>
    BY <1>10, TailIs DEF WaitSent, Step
  <2>2. CASE Done
    BY <1>1, <2>1, <2>2, OtherKeeps DEF RadioFrame
  <2>3. CASE todo' = todo
    <3>1. ChipInv' /\ SameChip(chip, chip')
      BY <2>1, ChipStays DEF RadioInv
    <3> QED BY <1>1, <2>1, <2>3, <3>1, AirKeeps
  <2>4. Done \/ todo' = todo
    BY <1>10 DEF WaitSent
  <2> QED BY <2>2, <2>3, <2>4
<1> QED BY <1>2, <1>3, <1>4, <1>5, <1>6, <1>8, <1>9, <1>10 DEF RadioStep

\* The next call, whatever phase of main it is made in
LEMMA CallKeeps ==
    ASSUME RadioInv, UNCHANGED <<chip, state, gaveUp>>, ChipInv,
           phase' \in {"link", "identity", "banner", "loop"},
           hw3000_channel' \in 0 .. 255, config' \in [DOMAIN Identity -> 0 .. 255],
           Gone' \/ Running'
    PROVE  RadioInv'
<1>1. ChipInv'
  BY ChipStays
<1>2. phase' \notin {"check", "bootloader", "radio"}
  OBVIOUS
<1> QED BY <1>1, <1>2, Zenon DEF RadioInv

\* Between two calls, the chip is set up or gone.
LEMMA Between ==
    ASSUME CallInv, RadioInv, todo = <<>>, phase \notin {"check", "bootloader"}
    PROVE  \/ Gone
           \/ Runs(<<>>, chip, state, hw3000_channel)
<1>1. ASSUME BeingSetUp PROVE FALSE
  <2>1. PICK k \in 1 .. 30 : SettingUp(k, todo, chip, hw3000_channel)
    BY <1>1 DEF BeingSetUp
  <2> QED BY <2>1, SettingUpLeft DEF CallInv
<1> QED BY <1>1 DEF RadioInv, CallInv, Running

\* The channel of the loop fits into a byte.
LEMMA NextChannel ==
    ASSUME RadioInv, NEW c \in LinkChannels
    PROVE  c \in 0 .. 255
<1>1. config[1] \in 0 .. 255
  BY IdentityType DEF RadioInv
<1>2. \A b \in 0 .. 255 : ((b \div 64) % 2) * 64 + 8 \in 0 .. 255
  OBVIOUS
<1> QED BY <1>1, <1>2 DEF LinkChannels, ChannelsOf

\* A call of the loop begins.
LEMMA LoopCallKeeps ==
    ASSUME CallInv, RadioInv, LoopCall /\ UNCHANGED bootVars
    PROVE  RadioInv'
<1>1. phase' = phase /\ config' = config /\ phase = "loop"
  BY DEF bootVars, mainVars, LoopCall
<1>2. ChipInv /\ config' \in [DOMAIN Identity -> 0 .. 255] /\ hw3000_channel \in 0 .. 255
  BY <1>1 DEF RadioInv
<1>3. CASE hw3000_rxdata_get
  <2>1. UNCHANGED <<todo, state, hw3000_channel, gaveUp, chip>>
    BY <1>3 DEF hw3000_rxdata_get
  <2> QED BY <1>1, <1>2, <2>1, ChipStays, AirKeeps
<1>4. CASE hw3000_process
  <2>1. UNCHANGED <<todo, state, hw3000_channel, gaveUp>>
    BY <1>4 DEF hw3000_process
  <2>2. chip' = chip \/ \E i : chip' = [chip EXCEPT !.fifo = <<>>, !.irq = i]
    BY <1>4 DEF hw3000_process
  <2>3. ChipInv' /\ SameChip(chip, chip')
    BY <1>2, <2>2, ChipStays, AirChip
  <2> QED BY <1>1, <2>1, <2>3, AirKeeps
<1>5. ASSUME NEW c \in LinkChannels, ChangeChannel(c) PROVE RadioInv'
  <2>1. /\ todo = <<>> /\ hw3000_channel' = c /\ todo' = hw3000_channel_change(c)
        /\ UNCHANGED <<chip, state, gaveUp>>
    BY <1>5 DEF ChangeChannel
  <2>2. c \in 0 .. 255
    BY NextChannel
  <2>3. Gone => Gone'
    BY <2>1, LoopSteps, LoopAwake DEF Gone
  <2>4. Runs(<<>>, chip, state, hw3000_channel) => Running'
    <3>1. Runs(<<>>, chip, state, hw3000_channel) => Runs(todo', chip, state, c)
      BY <2>1, <2>2, RunsChange
    <3> QED BY <2>1, <3>1 DEF Running
  <2>5. Gone' \/ Running'
    BY <1>1, <2>1, <2>3, <2>4, Between
  <2> QED BY <1>1, <1>2, <2>1, <2>2, <2>5, CallKeeps
<1>6. CASE hw3000_txdata_send
  <2> DEFINE s == hw3000_fifo_tx(state, Reply) \o hw3000_channel_change(hw3000_channel)
  <2>1. /\ todo = <<>> /\ hw3000_channel' = hw3000_channel /\ todo' = s
        /\ UNCHANGED <<chip, state, gaveUp>>
    BY <1>6 DEF hw3000_txdata_send
  <2>2. NoWake(s)
    BY LoopSteps, Chained, LoopAwake
  <2>3. Runs(<<>>, chip, state, hw3000_channel) => Runs(s, chip, state, hw3000_channel)
    BY <1>2, RunsSend
  <2> HIDE DEF s
  <2>4. Gone => Gone'
    BY <2>1, <2>2 DEF Gone
  <2>5. Runs(<<>>, chip, state, hw3000_channel) => Running'
    BY <2>1, <2>3 DEF Running
  <2>6. Gone' \/ Running'
    BY <1>1, <2>1, <2>4, <2>5, Between
  <2> QED BY <1>1, <1>2, <2>1, <2>6, CallKeeps
<1> QED BY <1>3, <1>4, <1>5, <1>6 DEF LoopCall

\* main, and the steps that have nothing to do with the radio
LEMMA BootStepKeeps ==
    ASSUME CallInv, FlashInv, RadioInv, BootStep
    PROVE  RadioInv'
<1>1. ChipInv /\ config \in [DOMAIN Identity -> 0 .. 255] /\ hw3000_channel \in 0 .. 255
  BY DEF RadioInv
<1>2. CASE Start
  <2>1. UNCHANGED <<chip, state, gaveUp, hw3000_channel, config>>
    BY <1>2 DEF Start, restVars
  <2>2. phase = "check" /\ phase' \in {"bootloader", "radio"}
    BY <1>2 DEF Start, bootloader_check, SetUp, Enter
  <2>3. ~gaveUp' /\ Sound(chip')
    BY <2>1, <2>2 DEF RadioInv
  <2>4. ChipInv'
    BY <1>1, <2>1, ChipStays
  <2>5. phase' = "radio" => BeingSetUp'
    <3>1. phase' = "radio" => todo' = hw3000_setup(hw3000_channel)
      BY <1>2 DEF Start, bootloader_check, SetUp
    <3>2. SettingUp(1, hw3000_setup(hw3000_channel), chip', hw3000_channel)
      BY <1>1, <2>3, SettingUpStarts
    <3> QED BY <2>1, <2>3, <3>1, <3>2 DEF BeingSetUp
  <2>6. hw3000_channel' \in 0 .. 255 /\ config' \in [DOMAIN Identity -> 0 .. 255]
    BY <1>1, <2>1
  <2>7. phase' \notin {"link", "identity", "banner", "loop"}
    BY <2>2
  <2> QED BY <2>3, <2>4, <2>5, <2>6, <2>7, Zenon DEF RadioInv
<1>3. CASE whb04b_setup
  <2>1. /\ todo = <<>> /\ phase = "radio" /\ phase' = "link" /\ config' = dataflash
        /\ hw3000_channel' = config'[1]
        /\ todo' = hw3000_channel_change(hw3000_channel')
        /\ UNCHANGED <<chip, state, gaveUp>>
    BY <1>3 DEF whb04b_setup, Enter
  <2>2. config' \in [DOMAIN Identity -> 0 .. 255] /\ hw3000_channel' \in 0 .. 255
    BY <2>1, IdentityType DEF FlashInv
  <2>3. Gone => Gone'
    BY <2>1, LoopSteps, LoopAwake DEF Gone
  <2>4. Runs(<<>>, chip, state, hw3000_channel) => Running'
    <3>1. Runs(<<>>, chip, state, hw3000_channel) => Runs(todo', chip, state, hw3000_channel')
      BY <2>1, <2>2, RunsChange
    <3> QED BY <2>1, <3>1 DEF Running
  <2>5. Gone' \/ Running'
    BY <2>1, <2>3, <2>4, Between
  <2> QED BY <1>1, <2>1, <2>2, <2>5, CallKeeps
<1>4. CASE TestIdentity \/ Banner \/ Loop
  <2>1. /\ todo = <<>> /\ phase \in {"link", "identity", "banner"}
        /\ phase' \in {"identity", "banner", "loop"}
        /\ UNCHANGED <<chip, state, gaveUp, hw3000_channel, config>>
    BY <1>4 DEF TestIdentity, Banner, Loop, Enter, MainFrame, restVars
  <2>2. todo' = <<>> \/ Steps(todo', FlashKinds) \/ Steps(todo', UartKinds)
    BY <1>4, <2>1, IdentitySteps, BannerSteps DEF TestIdentity, Banner, Loop
  <2>3. \A k \in DOMAIN todo' :
           todo'[k][1] \notin {"write", "bytes", "power", "ready", "state"}
    <3>1. CASE todo' = <<>>
      BY <3>1
    <3>2. CASE Steps(todo', FlashKinds)
      BY <3>2 DEF Steps, FlashKinds
    <3>3. CASE Steps(todo', UartKinds)
      BY <3>3 DEF Steps, UartKinds
    <3> QED BY <2>2, <3>1, <3>2, <3>3
  <2>4. NoWake(todo')
    BY <2>3 DEF NoWake
  <2>5. Gone => Gone'
    BY <2>1, <2>4 DEF Gone
  <2>6. Runs(<<>>, chip, state, hw3000_channel) => Running'
    <3>1. Runs(<<>>, chip, state, hw3000_channel) => Runs(todo', chip, state, hw3000_channel)
      BY <2>3, RunsOther
    <3> QED BY <2>1, <3>1 DEF Running
  <2>7. Gone' \/ Running'
    BY <2>1, <2>5, <2>6, Between
  <2> QED BY <1>1, <2>1, <2>7, CallKeeps
<1>5. ASSUME todo # <<>>,
             Head(todo)[1] \notin {"write", "bytes", "state", "power", "ready"}, Done,
             UNCHANGED <<restVars, mainVars>>
      PROVE  RadioInv'
  <2>1. RadioFrame /\ UNCHANGED <<chip, state, gaveUp>>
    BY <1>5 DEF RadioFrame, restVars, mainVars
  <2>2. Head(todo) = todo[1]
    BY <1>5, TailIs
  <2>3. todo[1][1] \notin {"write", "bytes", "state", "power", "ready"}
    BY <1>5, <2>2
  <2> QED BY <1>5, <2>1, <2>3, OtherKeeps
<1>6. CASE Unlock \/ EnableWrite \/ Program \/ DisableWrite \/ Lock
  BY <1>5, <1>6 DEF Unlock, EnableWrite, Program, DisableWrite, Lock, Step, FlashFrame
<1>7. CASE ClearDone \/ SendByte \/ WaitDone
  BY <1>5, <1>7 DEF ClearDone, SendByte, WaitDone, Step, UartFrame
<1> QED BY <1>2, <1>3, <1>4, <1>6, <1>7 DEF BootStep

\* The radio stays as it is, or loses its power.  What it was sending, if anything,
\* was the reply.
LEMMA SoundAlways ==
    ASSUME CallInv, RadioInv
    PROVE  Sound(chip)
<1>1. BeingSetUp => Sound(chip)
  BY DEF BeingSetUp, SettingUp, Sound
<1>2. Gone => Sound(chip)
  BY DEF Gone, Sound, RadioInv, ChipInv
<1>3. Running => Sound(chip)
  <2>1. Quiet(todo, chip) => Sound(chip)
    BY DEF Quiet, Sound
  <2>2. \A k \in 1 .. 10 : Sending(k, todo, chip) => Sound(chip)
    BY DEF Sending, Sound
  <2> QED BY <2>1, <2>2 DEF Running, Runs
<1> QED BY <1>1, <1>2, <1>3 DEF RadioInv, CallInv

\* A reset leaves the chip to itself, and hw3000_setup is to come.
LEMMA ResetKeeps ==
    ASSUME CallInv, RadioInv, Reset, chip' = chip \/ chip' = PoweredOff
    PROVE  RadioInv'
<1>1. phase' = "check" /\ ~gaveUp' /\ hw3000_channel' = 0 /\ config' = Erased
  BY DEF Reset
<1>2. ChipInv' /\ Sound(chip')
  <2>1. CASE chip' = chip
    <3>1. ChipInv' /\ Sound(chip)
      BY <2>1, SoundAlways, ChipStays DEF RadioInv
    <3> QED BY <2>1, <3>1
  <2>2. CASE chip' = PoweredOff
    <3>1. DOMAIN PoweredOff = ChipFields /\ ~PoweredOff.sending
      BY DEF PoweredOff, ChipFields
    <3> QED BY <2>2, <3>1 DEF ChipInv, IsChip, Sound
  <2> QED BY <2>1, <2>2
<1>3. hw3000_channel' \in 0 .. 255 /\ config' \in [DOMAIN Identity -> 0 .. 255]
  BY <1>1, IdentityType
<1>4. phase' \notin {"radio", "link", "identity", "banner", "loop"}
  BY <1>1
<1> QED BY <1>1, <1>2, <1>3, <1>4, Zenon DEF RadioInv

\* Each step of the processor, the chip, the air and the clock preserves the invariant.
LEMMA RadioKept == CallInv /\ FlashInv /\ RadioInv /\ [Next]_vars => RadioInv'
<1> SUFFICES ASSUME CallInv, FlashInv, RadioInv, [Next]_vars PROVE RadioInv'
    OBVIOUS
<1>1. ASSUME UNCHANGED <<todo, phase, state, hw3000_channel, config, gaveUp, chip>>
      PROVE  RadioInv'
  BY <1>1, ChipStays, AirKeeps DEF RadioInv
<1>2. CASE Processor
  BY <1>2, RadioStepKeeps, LoopCallKeeps, BootStepKeeps DEF Processor
<1>3. CASE Hardware
  <2>1. CASE timer0_isr /\ UNCHANGED bootVars
    BY <1>1, <2>1 DEF timer0_isr, bootVars, mainVars
  <2>2. CASE UartSent \/ uart0_isr
    BY <1>1, <2>2 DEF UartSent, uart0_isr, UartFrame, restVars, mainVars
  <2> QED BY <1>3, <2>1, <2>2 DEF Hardware
<1>4. CASE Surroundings
  <2>1. phase' = phase /\ config' = config
    BY <1>4 DEF Surroundings, bootVars, mainVars
  <2>2. CASE ChipReady
    BY <2>1, <2>2, ReadyWakes
  <2>3. CASE ChipSent
    <3>1. /\ UNCHANGED <<todo, state, hw3000_channel, gaveUp>>
          /\ chip' = [chip EXCEPT !.irq = TRUE]
      BY <2>3 DEF ChipSent
    <3>2. ChipInv' /\ SameChip(chip, chip')
      BY <3>1, AirChip DEF RadioInv
    <3> QED BY <2>1, <3>1, <3>2, AirKeeps
  <2>4. ASSUME NEW f, NEW c, ChipReceives(f, c) PROVE RadioInv'
    <3>1. /\ UNCHANGED <<todo, state, hw3000_channel, gaveUp>>
          /\ chip' = [chip EXCEPT !.fifo = f, !.irq = TRUE]
      BY <2>4 DEF ChipReceives
    <3>2. ChipInv' /\ SameChip(chip, chip')
      BY <3>1, AirChip DEF RadioInv
    <3> QED BY <2>1, <3>1, <3>2, AirKeeps
  <2> QED BY <1>4, <2>2, <2>3, <2>4 DEF Surroundings, RadioEnvironment
<1>5. CASE Disturbance \/ BootloaderExits
  <2>1. CASE WindowLapses
    BY <1>1, <2>1 DEF WindowLapses, restVars, mainVars
  <2>2. CASE reset_to_bootloader \/ PowerFailure \/ BootloaderExits
    BY <2>2, ResetKeeps DEF reset_to_bootloader, PowerFailure, BootloaderExits
  <2> QED BY <1>5, <2>1, <2>2 DEF Disturbance
<1>6. CASE UNCHANGED vars
  BY <1>1, <1>6 DEF vars, radioVars, bootVars, mainVars
<1> QED BY <1>2, <1>3, <1>4, <1>5, <1>6 DEF Next

\* The chip has no power at first.
LEMMA RadioStarts == Init => RadioInv
<1> SUFFICES ASSUME Init PROVE RadioInv
    OBVIOUS
<1>1. phase = "check" /\ ~gaveUp /\ hw3000_channel = 0 /\ config = Erased /\ chip = PoweredOff
  BY DEF Init
<1>2. DOMAIN PoweredOff = ChipFields /\ ~PoweredOff.sending
  BY DEF PoweredOff, ChipFields
<1>3. ChipInv /\ Sound(chip)
  BY <1>1, <1>2 DEF ChipInv, IsChip, Sound
<1>4. hw3000_channel \in 0 .. 255 /\ config \in [DOMAIN Identity -> 0 .. 255]
  BY <1>1, IdentityType
<1>5. phase \notin {"radio", "link", "identity", "banner", "loop"}
  BY <1>1
<1> QED BY <1>1, <1>3, <1>4, <1>5, Zenon DEF RadioInv

\* What the invariant says between two calls
LEMMA RadioIsRight == CallInv /\ RadioInv => RightSettings
<1> SUFFICES ASSUME CallInv, RadioInv PROVE RightSettings
    OBVIOUS
<1>1. ASSUME phase = "loop", todo = <<>>, ~gaveUp
      PROVE  /\ Holds(BANK1, Bank1Constants) /\ Holds(BANK0, ModemSettings)
             /\ chip.bank = BANK0
             /\ state = "RX" /\ Receiving /\ Length = 13
             /\ ChannelSet
  <2>1. Runs(<<>>, chip, state, hw3000_channel)
    BY <1>1, Between DEF Gone
  <2>2. Configured(<<>>, chip, state, hw3000_channel)
    BY <2>1, RunsIdle
  <2>3. /\ chip.ready /\ chip.bank = BANK0 /\ Bank1Holds(chip)
        /\ \A i \in DOMAIN ModemSettings :
             ModemSettings[i][2] # HW3000_REG_FIFOSTA =>
               RegisterOf(chip, BANK0, ModemSettings[i][2]) = ModemSettings[i][3]
        /\ RegisterOf(chip, BANK0, HW3000_REG_TRCTRL) = \h0080
        /\ RegisterOf(chip, BANK0, HW3000_REG_LEN0PKLEN) = \h000d
        /\ RegisterOf(chip, BANK0, HW3000_REG_CHCFG0) = (hw3000_channel % 64) * 256
        /\ state = "RX"
    BY <2>2, NothingLeft
  <2>4. Holds(BANK0, ModemSettings)
    BY <2>3, RegisterIs, SMTT(30) DEF Holds
  <2>5. Holds(BANK1, Bank1Constants)
    BY <2>3, Bank1Is, RegisterIs DEF Holds, Bank1Holds
  <2>6. TRCTRL = \h0080
    BY <2>3, RegisterIs DEF TRCTRL
  <2>7. Length = \h000d
    BY <2>3, RegisterIs DEF Length
  <2>8. Length = 13
    BY <2>7
  <2>9. ChannelSet
    BY <2>3, RegisterIs DEF ChannelSet
  <2> QED BY <2>3, <2>4, <2>5, <2>6, <2>8, <2>9 DEF Receiving
<1>2. ASSUME chip.sending
      PROVE  TRCTRL = \h0100 /\ Length = 22 /\ chip.out = Reply
  <2>1. /\ RegisterOf(chip, BANK0, HW3000_REG_TRCTRL) = \h0100
        /\ RegisterOf(chip, BANK0, HW3000_REG_LEN0PKLEN) = \h0016
        /\ chip.out = Reply
    BY <1>2, SoundAlways DEF Sound
  <2>2. TRCTRL = \h0100
    BY <2>1, RegisterIs DEF TRCTRL
  <2>3. Length = \h0016
    BY <2>1, RegisterIs DEF Length
  <2>4. Length = 22
    BY <2>3
  <2> QED BY <2>1, <2>2, <2>4
<1> QED BY <1>1, <1>2 DEF RightSettings

\* Between two calls every constant and every setting is in its register and its bank,
\* the receiver is on for frames of 13 bytes on the channel in use, and what is sent is
\* the whole reply at its length, for every reply, every identity, every patience and
\* every order of the loop's calls (hw3000.c:55-320).
THEOREM RightSettingsHolds == Spec => []RightSettings
<1>1. FirmwareInv => CallInv /\ FlashInv
  BY DEF FirmwareInv
<1> QED BY <1>1, FirmwareInvariant, RadioStarts, RadioKept, RadioIsRight, PTL DEF Spec

-----------------------------------------------------------------------------
(* Reception begins anew *)

\* The writes that disturb reception, or clear what has been received
Disturbs(op) ==
    op[1] = "write" /\ op[2] \in {HW3000_REG_TRCTRL, HW3000_REG_CHCFG0, HW3000_REG_FIFOSTA}

\* The FIFO is still to be flushed.
Flushes(s) == \E i \in DOMAIN s : s[i] = Flush

\* Whatever disturbs reception, the FIFO is flushed after it.
FlushedLater(s) ==
    \A i \in DOMAIN s : Disturbs(s[i]) => \E j \in DOMAIN s : j >= i /\ s[j] = Flush

\* The driver's state will be RX in the end.
StateWillBe(s, st) == Ends(s, Assign("RX")) \/ (Without(s, Assign("RX")) /\ st = "RX")

\* A flush writes 0x0200 to FIFOSTA.
LEMMA FlushIs == Flush[1] = "write" /\ Flush[2] = HW3000_REG_FIFOSTA /\ Flush[3] = \h0200
BY DEF Flush, Write

\* A step that is done is a flush, or leaves the flush still to come.
LEMMA FlushStep ==
    ASSUME NEW s, NEW s2, Advances(s, s2), FlushedLater(s)
    PROVE  FlushedLater(s2) /\ (s[1] # Flush => (Flushes(s2) <=> Flushes(s)))
           /\ (Flushes(s2) => Flushes(s))
<1>1. FlushedLater(s2)
  <2> SUFFICES ASSUME NEW i \in DOMAIN s2, Disturbs(s2[i])
               PROVE  \E j \in DOMAIN s2 : j >= i /\ s2[j] = Flush
      BY DEF FlushedLater
  <2>1. i + 1 \in DOMAIN s /\ Disturbs(s[i + 1]) /\ i \in Nat \ {0}
    BY DEF Advances
  <2>2. PICK j \in DOMAIN s : j >= i + 1 /\ s[j] = Flush
    BY <2>1 DEF FlushedLater
  <2>3. j # 1 /\ j - 1 >= i
    <3>1. j \in Nat
      BY DEF Advances
    <3> QED BY <2>1, <2>2, <3>1
  <2>4. j - 1 \in DOMAIN s2 /\ s2[j - 1] = Flush
    BY <2>2, <2>3 DEF Advances
  <2> QED BY <2>3, <2>4
<1>2. Flushes(s2) => Flushes(s)
  BY DEF Flushes, Advances
<1>3. s[1] # Flush /\ Flushes(s) => Flushes(s2)
  BY DEF Flushes, Advances
<1> QED BY <1>1, <1>2, <1>3

\* A wait that goes on is no flush.
LEMMA FlushWaits ==
    ASSUME NEW s, NEW s2, Waits(s, s2), FlushedLater(s)
    PROVE  FlushedLater(s2) /\ (Flushes(s2) <=> Flushes(s))
<1>1. /\ s[1] # Flush /\ s2[1] # Flush /\ ~Disturbs(s[1]) /\ ~Disturbs(s2[1])
      /\ DOMAIN s2 = DOMAIN s /\ \A k \in DOMAIN s : k # 1 => s2[k] = s[k]
  <2>1. s[1][1] # "write" /\ s2[1][1] # "write"
    BY DEF Waits, Waiting
  <2> QED BY <2>1, FlushIs DEF Disturbs, Waits
<1>2. Flushes(s2) <=> Flushes(s)
  BY <1>1 DEF Flushes
<1>3. FlushedLater(s2)
  <2> SUFFICES ASSUME NEW i \in DOMAIN s2, Disturbs(s2[i])
               PROVE  \E j \in DOMAIN s2 : j >= i /\ s2[j] = Flush
      BY DEF FlushedLater
  <2>1. i # 1 /\ Disturbs(s[i]) /\ i \in DOMAIN s
    BY <1>1
  <2>2. PICK j \in DOMAIN s : j >= i /\ s[j] = Flush
    BY <2>1 DEF FlushedLater
  <2>3. j # 1
    BY <1>1, <2>2
  <2> QED BY <1>1, <2>2, <2>3
<1> QED BY <1>2, <1>3

\* What is not flushed any more is not disturbed any more.
LEMMA NotDisturbed ==
    ASSUME NEW s, FlushedLater(s), ~Flushes(s)
    PROVE  \A i \in DOMAIN s : ~Disturbs(s[i])
BY DEF FlushedLater, Flushes

\* A call that ends in a change of channel
LEMMA ChangeFlushes ==
    ASSUME NEW s, NEW n \in Nat, NEW c, DOMAIN s = 1 .. n + 10, Holding(s, n, Change(c))
    PROVE  FlushedLater(s) /\ Flushes(s)
<1>1. s[n + 7] = Flush /\ n + 7 \in DOMAIN s
  <2>1. DOMAIN Change(c) = 1 .. 10 /\ Change(c)[7] = Flush
    BY DEF Change, Flush
  <2> QED BY <2>1 DEF Holding
<1>2. \A i \in DOMAIN s : i > n + 7 => ~Disturbs(s[i])
  <2> SUFFICES ASSUME NEW i \in 1 .. n + 10, i > n + 7 PROVE ~Disturbs(s[i])
      OBVIOUS
  <2>1. i - n \in {8, 9, 10} /\ n + (i - n) = i
    OBVIOUS
  <2>2. DOMAIN Change(c) = 1 .. 10
    BY DEF Change
  <2>3. s[i] = Change(c)[i - n]
    <3>1. i - n \in 1 .. 10
      BY <2>1
    <3>2. s[n + (i - n)] = Change(c)[i - n]
      BY <2>2, <3>1 DEF Holding
    <3> QED BY <2>1, <3>2
  <2>4. ~Disturbs(Change(c)[8]) /\ ~Disturbs(Change(c)[9]) /\ ~Disturbs(Change(c)[10])
    BY DEF Disturbs, Change, Assign, Write, HW3000_REG_TRCTRL, HW3000_REG_CHCFG0,
           HW3000_REG_FIFOSTA, HW3000_REG_RCCFG1
  <2> QED BY <2>1, <2>3, <2>4
<1>3. FlushedLater(s)
  <2> SUFFICES ASSUME NEW i \in DOMAIN s, Disturbs(s[i])
               PROVE  \E j \in DOMAIN s : j >= i /\ s[j] = Flush
      BY DEF FlushedLater
  <2>1. n + 7 >= i
    BY <1>2
  <2> QED BY <1>1, <2>1
<1> QED BY <1>1, <1>3 DEF Flushes

\* A call that has nothing to do with the radio
LEMMA OtherFlushes ==
    ASSUME NEW s, \A k \in DOMAIN s : s[k][1] \notin {"write", "state"}
    PROVE  FlushedLater(s) /\ ~Flushes(s) /\ Without(s, Assign("RX"))
BY FlushIs DEF FlushedLater, Flushes, Disturbs, Without, Concerns, Assign

\* The state after a step
LEMMA StateStep ==
    ASSUME NEW s, NEW s2, NEW st, NEW st2, StateWillBe(s, st),
           \/ Advances(s, s2) /\ IF s[1][1] = "state" THEN st2 = s[1][2] ELSE st2 = st
           \/ Waits(s, s2) /\ st2 = st
    PROVE  StateWillBe(s2, st2)
<1> DEFINE t == Assign("RX")
<1>1. t[1] = "state" /\ t[2] = "RX" /\ \A op : Concerns(op, t) <=> op[1] = "state"
  BY DEF Assign, Concerns
<1>2. t[1] \notin Waiting
  BY <1>1 DEF Waiting
<1> HIDE DEF t
<1>3. Ends(s, t) \/ (Without(s, t) /\ st = "RX")
  BY DEF StateWillBe, t
<1>4. Ends(s2, t) \/ (Without(s2, t) /\ st2 = "RX")
  <2>1. CASE Waits(s, s2) /\ st2 = st
    BY <1>2, <1>3, <2>1, WaitGoesOn
  <2>2. CASE Advances(s, s2) /\ IF s[1][1] = "state" THEN st2 = s[1][2] ELSE st2 = st
    <3>1. CASE Ends(s, t)
      BY <1>1, <2>2, <3>1, StepDone
    <3>2. CASE Without(s, t) /\ st = "RX"
      BY <1>1, <2>2, <3>2, StepDone
    <3> QED BY <1>3, <3>1, <3>2
  <2> QED BY <2>1, <2>2
<1> QED BY <1>4 DEF StateWillBe, t

-----------------------------------------------------------------------------
(* What a write does to the chip's FIFO and to IRQN *)

\* What is read of the chip stays as it is.
SameAir(c, d) == d.fifo = c.fifo /\ d.irq = c.irq /\ d.ready = c.ready

\* The frame and the interrupt stay, or go.
Cleared(c, d) == d.fifo \in {c.fifo, <<>>} /\ d.irq \in {c.irq, FALSE} /\ d.ready = c.ready

\* Whatever is on the wire, a write brings no frame.
LEMMA WriteClears ==
    ASSUME IsChip, NEW wire, ChipWrite(wire)
    PROVE  Cleared(chip, chip')
<1> DEFINE a == Address(wire)
           v == Word(wire)
<1>1. \/ chip' = chip
      \/ chip' = [chip EXCEPT !.bank = v]
      \/ \E c \in IF chip.bank = BANK0 THEN ChipEffect(a, v) ELSE {chip} :
           chip' = [c EXCEPT !.regs = Set(@, <<chip.bank, a>>, v)]
  BY DEF ChipWrite
<1>2. CASE chip' = chip
  BY <1>2 DEF Cleared
<1>3. CASE chip' = [chip EXCEPT !.bank = v]
  BY <1>3 DEF Cleared, IsChip, ChipFields
<1>4. ASSUME NEW c \in IF chip.bank = BANK0 THEN ChipEffect(a, v) ELSE {chip},
             chip' = [c EXCEPT !.regs = Set(@, <<chip.bank, a>>, v)]
      PROVE  Cleared(chip, chip')
  <2>1. DOMAIN c = ChipFields /\ Cleared(chip, c)
    <3>1. CASE c = chip
      BY <3>1 DEF Cleared, IsChip
    <3>2. CASE c \in ChipEffect(a, v)
      <4> HIDE DEF a, v
      <4>1. CASE ChipEffect(a, v) = {chip}
        BY <3>1, <3>2, <4>1
      <4>2. CASE ChipEffect(a, v) = {[chip EXCEPT !.sending = (v = 1)]}
        <5>1. c = [chip EXCEPT !.sending = (v = 1)]
          BY <3>2, <4>2, Zenon
        <5> QED BY <5>1 DEF Cleared, IsChip, ChipFields
      <4>3. CASE ChipEffect(a, v) = {[chip EXCEPT !.fifo = <<>>, !.irq = FALSE]}
        <5>1. c = [chip EXCEPT !.fifo = <<>>, !.irq = FALSE]
          BY <3>2, <4>3, Zenon
        <5> QED BY <5>1 DEF Cleared, IsChip, ChipFields
      <4>4. CASE ChipEffect(a, v) = {[chip EXCEPT !.out = <<>>, !.irq = i] : i \in {chip.irq, FALSE}}
        <5>1. PICK i \in {chip.irq, FALSE} : c = [chip EXCEPT !.out = <<>>, !.irq = i]
          BY <3>2, <4>4, Zenon
        <5> QED BY <5>1 DEF Cleared, IsChip, ChipFields
      <4> QED BY <4>1, <4>2, <4>3, <4>4, Effects, Zenon
    <3> QED BY <1>4, <3>1, <3>2
  <2>2. chip'.fifo = c.fifo /\ chip'.irq = c.irq /\ chip'.ready = c.ready
    BY <1>4, <2>1 DEF ChipFields
  <2> QED BY <2>1, <2>2 DEF Cleared
<1> QED BY <1>1, <1>2, <1>3, <1>4

\* The driver's writes, once the chip is set up
LEMMA WriteFlushes ==
    ASSUME IsChip, chip.ready, chip.bank = BANK0, NEW a \in 0 .. 127, NEW v \in Words,
           ChipWrite(spi_write16(a, v))
    PROVE  /\ a = HW3000_REG_FIFOSTA /\ v = \h0200 => chip'.fifo = <<>> /\ chip'.irq = FALSE
           /\ a # HW3000_REG_FIFOSTA => SameAir(chip, chip')
<1> DEFINE wire == spi_write16(a, v)
<1>1. IsWrite(wire) /\ Address(wire) = a /\ Word(wire) = v
  BY WriteThrough
<1>2. ChipWrite(wire)
  OBVIOUS
<1> HIDE DEF wire
<1>3. CASE a = HW3000_REG_BANKSEL
  <2>1. chip' = [chip EXCEPT !.bank = v]
    BY <1>1, <1>2, <1>3 DEF ChipWrite
  <2>2. SameAir(chip, chip')
    BY <2>1 DEF SameAir, IsChip, ChipFields
  <2> QED BY <1>3, <2>2, RegistersDiffer
<1>4. CASE a # HW3000_REG_BANKSEL
  <2>1. PICK c \in ChipEffect(a, v) : chip' = [c EXCEPT !.regs = Set(@, <<chip.bank, a>>, v)]
    BY <1>1, <1>2, <1>4 DEF ChipWrite
  <2>2. ASSUME DOMAIN c = ChipFields PROVE SameAir(c, chip')
    BY <2>1, <2>2 DEF SameAir, ChipFields
  <2>3. CASE a = HW3000_REG_FIFOSTA /\ v = \h0200
    <3>1. c = [chip EXCEPT !.fifo = <<>>, !.irq = FALSE]
      <4>1. ChipEffect(a, v) = {[chip EXCEPT !.fifo = <<>>, !.irq = FALSE]}
        BY <2>3, Effects
      <4> QED BY <2>1, <4>1, Zenon
    <3>2. DOMAIN c = ChipFields /\ c.fifo = <<>> /\ c.irq = FALSE
      BY <3>1 DEF IsChip, ChipFields
    <3> QED BY <2>2, <2>3, <3>2 DEF SameAir
  <2>4. CASE a # HW3000_REG_FIFOSTA
    <3>1. DOMAIN c = ChipFields /\ SameAir(chip, c)
      <4>1. CASE ChipEffect(a, v) = {chip}
        BY <2>1, <4>1 DEF SameAir, IsChip
      <4>2. CASE a = HW3000_REG_FIFOCTRL
        <5>1. ChipEffect(a, v) = {[chip EXCEPT !.sending = (v = 1)]}
          BY <4>2, Effects
        <5>2. c = [chip EXCEPT !.sending = (v = 1)]
          BY <2>1, <5>1, Zenon
        <5> QED BY <5>2 DEF SameAir, IsChip, ChipFields
      <4> QED BY <2>4, <4>1, <4>2, Effects, Zenon
    <3> QED BY <2>2, <2>4, <3>1 DEF SameAir
  <2>5. CASE a = HW3000_REG_FIFOSTA /\ v # \h0200
    BY <2>5
  <2> QED BY <2>3, <2>4, <2>5
<1> QED BY <1>3, <1>4

-----------------------------------------------------------------------------
(* The steps of a call, once hw3000_setup is over *)

\* hw3000_setup is over.
Linked == phase \in {"link", "identity", "banner", "loop"}

\* A step of a call, or something that happens meanwhile
CallStep ==
    /\ UNCHANGED <<phase, hw3000_channel, rx_buffer, gaveUp, config>>
    /\ \/ /\ Advances(todo, todo') /\ todo[1][1] = "write" /\ state' = state
          /\ ChipWrite(spi_write16(todo[1][2], todo[1][3]))
       \/ /\ Advances(todo, todo') /\ todo[1][1] # "write" /\ SameAir(chip, chip')
          /\ IF todo[1][1] = "state" THEN state' = todo[1][2] ELSE state' = state
       \/ /\ Waits(todo, todo') \/ todo' = todo
          /\ SameAir(chip, chip') /\ state' = state

\* The next step, if it leaves the chip alone
LEMMA PlainCallStep ==
    ASSUME CallInv, todo # <<>>, Done, Head(todo)[1] \notin {"write", "state"},
           UNCHANGED <<phase, hw3000_channel, rx_buffer, gaveUp, config, state>>,
           SameAir(chip, chip')
    PROVE  CallStep
<1>1. Advances(todo, todo') /\ Head(todo) = todo[1]
  BY TailIs DEF Done
<1> QED BY <1>1 DEF CallStep

\* A wait goes on.
LEMMA Waited ==
    ASSUME CallInv, NEW op, todo # <<>>, Replace(op), op[1] \in {"calibrated", "sent"},
           \/ Head(todo)[1] = "calibrated" /\ op[1] = "calibrated"
           \/ Head(todo)[1] = "start" /\ op[1] = "sent"
    PROVE  Waits(todo, todo')
<1>1. Head(todo) = todo[1] /\ Head(todo)[1] \in Allowed(phase) \cup {"sent"} /\ 1 \in DOMAIN todo
  BY Remaining
<1>2. op[1] \in Allowed(phase) \cup {"sent"}
  BY <1>1
<1>3. /\ DOMAIN todo' = DOMAIN todo /\ todo'[1] = op
      /\ \A k \in DOMAIN todo : k # 1 => todo'[k] = todo[k]
  BY <1>2, Replaced DEF Replace
<1> QED BY <1>1, <1>3, SMTT(30) DEF Waits, Waiting

\* Once the radio is set up, nothing is left that turns power off or waits for it.
LEMMA LinkedHead ==
    ASSUME CallInv, RadioInv, Linked, todo # <<>>
    PROVE  todo[1][1] \notin {"power", "ready"}
BY RadioHead DEF Linked, Fine

\* Each step of a call is one of CallStep's.
LEMMA LinkedRadioStep ==
    ASSUME CallInv, RadioInv, Linked, RadioStep /\ UNCHANGED bootVars
    PROVE  CallStep
<1>1. phase' = phase /\ config' = config
  BY DEF bootVars, mainVars
<1>2. \A c, d : d = c => SameAir(c, d)
  BY DEF SameAir
<1>3. CASE WriteStep
  <2>1. todo # <<>> /\ Head(todo)[1] = "write" /\ Done
        /\ UNCHANGED <<state, hw3000_channel, rx_buffer, gaveUp>>
    BY <1>3 DEF WriteStep, Step
  <2>2. ChipWrite(spi_write16(Head(todo)[1 + 1], Head(todo)[2 + 1]))
    BY <1>3 DEF WriteStep, Arg
  <2>3. Advances(todo, todo') /\ Head(todo) = todo[1]
    BY <2>1, TailIs DEF Done
  <2>4. 1 + 1 = 2 /\ 2 + 1 = 3
    OBVIOUS
  <2>5. ChipWrite(spi_write16(todo[1][2], todo[1][3]))
    BY <2>2, <2>3, <2>4
  <2> QED BY <1>1, <2>1, <2>3, <2>5 DEF CallStep
<1>4. CASE WriteBytes
  <2>1. todo # <<>> /\ Head(todo)[1] = "bytes" /\ Done
        /\ UNCHANGED <<state, hw3000_channel, rx_buffer, gaveUp>>
    BY <1>4 DEF WriteBytes, Step
  <2>2. SameAir(chip, chip')
    <3>1. chip' = chip \/ \E b : chip' = [chip EXCEPT !.out = b]
      BY <1>4 DEF WriteBytes, ChipFifo
    <3>2. IsChip
      BY DEF RadioInv, ChipInv
    <3> QED BY <3>1, <3>2 DEF SameAir, IsChip, ChipFields
  <2> QED BY <1>1, <2>1, <2>2, PlainCallStep
<1>5. CASE AssignState
  <2>1. todo # <<>> /\ Head(todo)[1] = "state" /\ Done /\ chip' = chip
        /\ UNCHANGED <<hw3000_channel, rx_buffer, gaveUp>>
    BY <1>5 DEF AssignState, Step
  <2>2. state' = Head(todo)[1 + 1] /\ 1 + 1 = 2
    BY <1>5 DEF AssignState, Arg
  <2>3. Advances(todo, todo') /\ Head(todo) = todo[1]
    BY <2>1, TailIs DEF Done
  <2> QED BY <1>1, <1>2, <2>1, <2>2, <2>3 DEF CallStep
<1>6. ASSUME hw3000_power \/ WaitReady PROVE FALSE
  <2>1. todo # <<>> /\ Head(todo)[1] \in {"power", "ready"}
    BY <1>6 DEF hw3000_power, WaitReady, Step
  <2> QED BY <2>1, TailIs, LinkedHead
<1>7. CASE WaitCalibrated
  <2>1. /\ todo # <<>> /\ Head(todo)[1] = "calibrated"
        /\ UNCHANGED <<chip, state, gaveUp, hw3000_channel, rx_buffer>>
    BY <1>7 DEF WaitCalibrated, Step
  <2>2. Done \/ Replace(<<"calibrated", Arg(1) - 1>>)
    BY <1>7 DEF WaitCalibrated
  <2>3. <<"calibrated", Arg(1) - 1>>[1] = "calibrated"
    OBVIOUS
  <2>4. Done \/ Waits(todo, todo')
    BY <2>1, <2>2, <2>3, Waited
  <2>5. SameAir(chip, chip')
    BY <1>2, <2>1
  <2> QED BY <1>1, <2>1, <2>4, <2>5, PlainCallStep DEF CallStep
<1>8. CASE StartWait
  <2>1. /\ todo # <<>> /\ Head(todo)[1] = "start"
        /\ UNCHANGED <<chip, state, gaveUp, hw3000_channel, rx_buffer>>
    BY <1>8 DEF StartWait, Step
  <2>2. Replace(<<"sent", ticks>>)
    BY <1>8 DEF StartWait
  <2>3. <<"sent", ticks>>[1] = "sent"
    OBVIOUS
  <2>4. Waits(todo, todo')
    BY <2>1, <2>2, <2>3, Waited
  <2> QED BY <1>1, <1>2, <2>1, <2>4 DEF CallStep
<1>9. CASE WaitSent
  <2>1. /\ todo # <<>> /\ Head(todo)[1] = "sent"
        /\ UNCHANGED <<chip, state, gaveUp, hw3000_channel, rx_buffer>>
        /\ Done \/ todo' = todo
    BY <1>9 DEF WaitSent, Step
  <2>2. SameAir(chip, chip')
    BY <1>2, <2>1
  <2> QED BY <1>1, <2>1, <2>2, PlainCallStep DEF CallStep
<1> QED BY <1>3, <1>4, <1>5, <1>6, <1>7, <1>8, <1>9 DEF RadioStep

\* What can happen once the radio is set up
LEMMA LinkedCases ==
    ASSUME CallInv, RadioInv, Linked, [Next]_vars
    PROVE  \/ CallStep
           \/ LoopCall /\ UNCHANGED bootVars
           \/ TestIdentity \/ Banner \/ Loop
           \/ Surroundings
           \/ Reset /\ (chip' = chip \/ chip' = PoweredOff)
<1>1. \A c, d : d = c => SameAir(c, d)
  BY DEF SameAir
<1>2. ASSUME UNCHANGED <<todo, phase, state, hw3000_channel, rx_buffer, config, gaveUp, chip>>
      PROVE  CallStep
  BY <1>1, <1>2 DEF CallStep
<1>3. CASE Processor
  <2>1. CASE RadioStep /\ UNCHANGED bootVars
    BY <2>1, LinkedRadioStep
  <2>2. ASSUME todo # <<>>, Head(todo)[1] \notin {"write", "state"}, Done,
               UNCHANGED <<restVars, mainVars>>
        PROVE  CallStep
    <3>1. UNCHANGED <<phase, hw3000_channel, rx_buffer, gaveUp, config, state, chip>>
      BY <2>2 DEF restVars, mainVars
    <3>2. SameAir(chip, chip')
      BY <1>1, <3>1
    <3> QED BY <2>2, <3>1, <3>2, PlainCallStep
  <2>3. CASE Unlock \/ EnableWrite \/ Program \/ DisableWrite \/ Lock
    BY <2>2, <2>3 DEF Unlock, EnableWrite, Program, DisableWrite, Lock, Step, FlashFrame
  <2>4. CASE ClearDone \/ SendByte \/ WaitDone
    BY <2>2, <2>4 DEF ClearDone, SendByte, WaitDone, Step, UartFrame
  <2>5. ASSUME Start \/ whb04b_setup PROVE FALSE
    BY <2>5 DEF Start, bootloader_check, SetUp, whb04b_setup, Enter, Linked
  <2> QED BY <1>3, <2>1, <2>3, <2>4, <2>5 DEF Processor, BootStep
<1>4. CASE Hardware
  <2>1. CASE timer0_isr /\ UNCHANGED bootVars
    BY <1>2, <2>1 DEF timer0_isr, bootVars, mainVars
  <2>2. CASE UartSent \/ uart0_isr
    BY <1>2, <2>2 DEF UartSent, uart0_isr, UartFrame, restVars, mainVars
  <2> QED BY <1>4, <2>1, <2>2 DEF Hardware
<1>5. CASE Disturbance \/ BootloaderExits
  <2>1. CASE WindowLapses
    BY <1>2, <2>1 DEF WindowLapses, restVars, mainVars
  <2>2. CASE reset_to_bootloader \/ PowerFailure \/ BootloaderExits
    BY <2>2 DEF reset_to_bootloader, PowerFailure, BootloaderExits
  <2> QED BY <1>5, <2>1, <2>2 DEF Disturbance
<1>6. CASE UNCHANGED vars
  BY <1>2, <1>6 DEF vars, radioVars, bootVars, mainVars
<1> QED BY <1>3, <1>4, <1>5, <1>6 DEF Next

\* whb04b_setup is the way to the loop.
LEMMA OnlyLink ==
    ASSUME CallInv, [Next]_vars, ~Linked, Linked'
    PROVE  whb04b_setup
<1>1. phase' # phase
  BY DEF Linked
<1>2. CASE Processor
  <2>1. CASE RadioStep /\ UNCHANGED bootVars
    BY <1>1, <2>1 DEF bootVars, mainVars
  <2>2. CASE LoopCall /\ UNCHANGED bootVars
    BY <1>1, <2>2 DEF bootVars, mainVars
  <2>3. CASE BootStep
    <3>1. CASE Start
      BY <3>1 DEF Start, bootloader_check, SetUp, Enter, Linked
    <3>2. CASE TestIdentity \/ Banner \/ Loop
      BY <3>2 DEF TestIdentity, Banner, Loop, Enter, Linked
    <3>3. CASE Unlock \/ EnableWrite \/ Program \/ DisableWrite \/ Lock
      BY <1>1, <3>3 DEF Unlock, EnableWrite, Program, DisableWrite, Lock, FlashFrame, mainVars
    <3>4. CASE ClearDone \/ SendByte \/ WaitDone
      BY <1>1, <3>4 DEF ClearDone, SendByte, WaitDone, UartFrame, mainVars
    <3> QED BY <2>3, <3>1, <3>2, <3>3, <3>4 DEF BootStep
  <2> QED BY <1>2, <2>1, <2>2, <2>3 DEF Processor
<1>3. CASE Hardware
  BY <1>1, <1>3 DEF Hardware, UartSent, uart0_isr, UartFrame, bootVars, mainVars
<1>4. CASE Surroundings
  BY <1>1, <1>4 DEF Surroundings, bootVars, mainVars
<1>5. CASE Disturbance \/ BootloaderExits
  BY <1>1, <1>5 DEF Disturbance, WindowLapses, reset_to_bootloader, PowerFailure, BootloaderExits,
                    Reset, mainVars, Linked
<1>6. CASE UNCHANGED vars
  BY <1>1, <1>6 DEF vars, bootVars, mainVars
<1> QED BY <1>2, <1>3, <1>4, <1>5, <1>6 DEF Next

-----------------------------------------------------------------------------
(* What is in the chip's FIFO, and when *)

\* What can be in the FIFO
OnTheAir == {<<>>} \cup PendantFrames \cup ForeignFrames

\* A frame is in the FIFO as it came; IRQN is low only while the chip has power and
\* has got ready; a chip that was given up is not ready.
FifoInv ==
    /\ rx_buffer = <<>> \/ phase = "loop"
    /\ chip.fifo \in OnTheAir
    /\ chip.irq \in BOOLEAN /\ (chip.irq => chip.ready)
    /\ gaveUp => ~chip.ready

\* The channel in use is one of the dongle's, programmed or not.
NameInv ==
    /\ dataflash[1] \in {255, Identity[1]} /\ config[1] \in {255, Identity[1]}
    /\ Linked => hw3000_channel \in Channels

\* Whatever call is being made, the receiver is on in the end and its FIFO is flushed.
EndInv == Linked => StateWillBe(todo, state) /\ FlushedLater(todo)

\* The frame or the lack of one stays as it is, or is cleared.
LEMMA FifoCleared ==
    ASSUME FifoInv, Cleared(chip, chip'), UNCHANGED <<phase, rx_buffer>>,
           gaveUp' = gaveUp \/ ~chip.ready
    PROVE  FifoInv'
<1>1. phase' = phase /\ rx_buffer' = rx_buffer /\ chip'.ready = chip.ready
  BY DEF Cleared
<1>2. chip'.fifo \in OnTheAir
  BY DEF Cleared, FifoInv, OnTheAir
<1>3. chip'.irq \in BOOLEAN /\ (chip'.irq => chip'.ready)
  BY <1>1 DEF Cleared, FifoInv
<1>4. gaveUp' => ~chip'.ready
  BY <1>1 DEF FifoInv
<1> QED BY <1>1, <1>2, <1>3, <1>4 DEF FifoInv

\* A step that leaves the chip and the frame read alone
LEMMA FifoSame ==
    ASSUME FifoInv, chip' = chip, UNCHANGED <<rx_buffer, gaveUp>>,
           phase' = phase \/ phase # "loop"
    PROVE  FifoInv'
<1>1. rx_buffer' = <<>> \/ phase' = "loop"
  BY DEF FifoInv
<1>2. chip'.fifo = chip.fifo /\ chip'.irq = chip.irq /\ chip'.ready = chip.ready
  OBVIOUS
<1>3. chip'.fifo \in OnTheAir /\ chip'.irq \in BOOLEAN /\ (chip'.irq => chip'.ready)
  BY <1>2 DEF FifoInv
<1>4. gaveUp' => ~chip'.ready
  BY <1>2 DEF FifoInv
<1> QED BY <1>1, <1>3, <1>4 DEF FifoInv

\* No step of a call changes the channel in use or the frame read before it.
LEMMA RadioStepFrame == RadioStep => UNCHANGED <<hw3000_channel, rx_buffer>>
<1>1. WriteStep => UNCHANGED <<hw3000_channel, rx_buffer>>
  BY DEF WriteStep
<1>2. WriteBytes => UNCHANGED <<hw3000_channel, rx_buffer>>
  BY DEF WriteBytes
<1>3. AssignState => UNCHANGED <<hw3000_channel, rx_buffer, chip, gaveUp>>
  BY DEF AssignState
<1>4. hw3000_power => UNCHANGED <<hw3000_channel, rx_buffer>>
  BY DEF hw3000_power
<1>5. WaitReady => UNCHANGED <<hw3000_channel, rx_buffer>>
  BY DEF WaitReady
<1>6. WaitCalibrated => UNCHANGED <<hw3000_channel, rx_buffer>>
  BY DEF WaitCalibrated
<1>7. StartWait \/ WaitSent => UNCHANGED <<hw3000_channel, rx_buffer>>
  BY DEF StartWait, WaitSent
<1> QED BY <1>1, <1>2, <1>3, <1>4, <1>5, <1>6, <1>7 DEF RadioStep

\* A step of a call brings no frame and no interrupt.
LEMMA FifoRadioStep ==
    ASSUME RadioInv, FifoInv, RadioStep /\ UNCHANGED bootVars
    PROVE  FifoInv'
<1>1. phase' = phase /\ IsChip
  BY DEF bootVars, mainVars, RadioInv, ChipInv
<1>2. CASE WriteStep
  <2>1. Cleared(chip, chip')
    BY <1>1, <1>2, WriteClears DEF WriteStep
  <2> QED BY <1>1, <1>2, <2>1, FifoCleared DEF WriteStep
<1>3. CASE WriteBytes
  <2>1. chip' = chip \/ \E b : chip' = [chip EXCEPT !.out = b]
    BY <1>3 DEF WriteBytes, ChipFifo
  <2>2. Cleared(chip, chip')
    BY <1>1, <2>1 DEF Cleared, IsChip, ChipFields
  <2> QED BY <1>1, <1>3, <2>2, FifoCleared DEF WriteBytes
<1>4. CASE hw3000_power
  <2>1. UNCHANGED <<rx_buffer, gaveUp>>
    BY <1>4 DEF hw3000_power
  <2> DEFINE p == (Arg(1) = 1)
  <2>2. chip' = [PoweredOff EXCEPT !.powered = p]
    BY <1>4 DEF hw3000_power
  <2> HIDE DEF p
  <2>3. chip'.fifo = <<>> /\ chip'.irq = FALSE /\ chip'.ready = FALSE
    BY <2>2, Zenon DEF PoweredOff
  <2> QED BY <1>1, <2>1, <2>3 DEF FifoInv, OnTheAir
<1>5. CASE WaitReady
  <2>1. gaveUp' = (~chip.ready /\ Arg(1) <= 1) /\ chip' = chip /\ rx_buffer' = rx_buffer
    BY <1>5, ReadyRead DEF WaitReady
  <2>2. gaveUp' => ~chip'.ready
    BY <2>1
  <2> QED BY <1>1, <2>1, <2>2 DEF FifoInv
<1>6. CASE AssignState \/ WaitCalibrated \/ StartWait \/ WaitSent
  <2>1. chip' = chip /\ gaveUp' = gaveUp
    <3>1. AssignState => chip' = chip /\ gaveUp' = gaveUp
      BY DEF AssignState
    <3>2. WaitCalibrated => chip' = chip /\ gaveUp' = gaveUp
      BY DEF WaitCalibrated
    <3>3. StartWait \/ WaitSent => chip' = chip /\ gaveUp' = gaveUp
      BY DEF StartWait, WaitSent
    <3> QED BY <1>6, <3>1, <3>2, <3>3
  <2>2. rx_buffer' = rx_buffer
    BY RadioStepFrame
  <2> QED BY <1>1, <2>1, <2>2, FifoSame
<1> QED BY <1>2, <1>3, <1>4, <1>5, <1>6 DEF RadioStep

\* The chip and the air
LEMMA FifoAir ==
    ASSUME RadioInv, FifoInv, Surroundings
    PROVE  FifoInv'
<1>1. IsChip /\ phase' = phase /\ (chip.sending => chip.ready)
  BY DEF Surroundings, bootVars, mainVars, RadioInv, ChipInv
<1>2. CASE ChipReady
  <2>1. /\ chip' = [chip EXCEPT !.ready = TRUE] /\ ~gaveUp
        /\ UNCHANGED <<rx_buffer, gaveUp>>
    BY <1>2 DEF ChipReady
  <2>2. chip'.fifo = chip.fifo /\ chip'.irq = chip.irq /\ chip'.ready
    BY <1>1, <2>1 DEF IsChip, ChipFields
  <2> QED BY <1>1, <2>1, <2>2 DEF FifoInv
<1>3. CASE ChipSent
  <2>1. chip' = [chip EXCEPT !.irq = TRUE] /\ UNCHANGED <<rx_buffer, gaveUp>> /\ chip.ready
    BY <1>1, <1>3 DEF ChipSent
  <2>2. chip'.fifo = chip.fifo /\ chip'.irq = TRUE /\ chip'.ready = chip.ready
    BY <1>1, <2>1 DEF IsChip, ChipFields
  <2> QED BY <1>1, <2>1, <2>2 DEF FifoInv
<1>4. ASSUME NEW f \in PendantFrames \cup ForeignFrames, NEW c, ChipReceives(f, c)
      PROVE  FifoInv'
  <2>1. /\ chip' = [chip EXCEPT !.fifo = f, !.irq = TRUE] /\ UNCHANGED <<rx_buffer, gaveUp>>
        /\ chip.ready
    BY <1>4 DEF ChipReceives, Receiving
  <2>2. chip'.fifo = f /\ chip'.irq = TRUE /\ chip'.ready = chip.ready
    BY <1>1, <2>1 DEF IsChip, ChipFields
  <2>3. f \in OnTheAir
    BY DEF OnTheAir
  <2> QED BY <1>1, <2>1, <2>2, <2>3 DEF FifoInv
<1> QED BY <1>2, <1>3, <1>4 DEF Surroundings, RadioEnvironment

\* No step breaks FifoInv.
LEMMA FifoKept == RadioInv /\ FifoInv /\ [Next]_vars => FifoInv'
<1> SUFFICES ASSUME RadioInv, FifoInv, [Next]_vars PROVE FifoInv'
    OBVIOUS
<1>0. IsChip
  BY DEF RadioInv, ChipInv
<1>1. ASSUME UNCHANGED <<phase, rx_buffer, gaveUp, chip>> PROVE FifoInv'
  BY <1>1, FifoSame
<1>2. CASE RadioStep /\ UNCHANGED bootVars
  BY <1>2, FifoRadioStep
<1>3. CASE LoopCall /\ UNCHANGED bootVars
  <2>1. phase' = phase /\ phase = "loop"
    BY <1>3 DEF bootVars, mainVars, LoopCall
  <2>2. CASE hw3000_rxdata_get
    BY <2>1, <2>2 DEF hw3000_rxdata_get, FifoInv
  <2>3. CASE (\E c \in LinkChannels : ChangeChannel(c)) \/ hw3000_txdata_send
    <3>1. UNCHANGED <<rx_buffer, gaveUp, chip>>
      BY <2>3 DEF ChangeChannel, hw3000_txdata_send
    <3> QED BY <2>1, <3>1, FifoSame
  <2>4. CASE hw3000_process
    <3>1. gaveUp' = gaveUp
      BY <2>4 DEF hw3000_process
    <3>2. CASE ~chip.irq
      BY <2>1, <2>4, <3>1, <3>2 DEF hw3000_process, FifoInv
    <3>3. CASE chip.irq
      <4>1. PICK again \in BOOLEAN : chip' = [chip EXCEPT !.fifo = <<>>, !.irq = again]
        BY <2>4, <3>3, Zenon DEF hw3000_process
      <4>2. chip'.fifo = <<>> /\ chip'.irq = again /\ chip'.ready = chip.ready
        BY <1>0, <4>1 DEF IsChip, ChipFields
      <4> QED BY <2>1, <3>1, <3>3, <4>2 DEF FifoInv, OnTheAir
    <3> QED BY <3>2, <3>3
  <2> QED BY <1>3, <2>2, <2>3, <2>4 DEF LoopCall
<1>4. CASE BootStep
  <2>1. CASE whb04b_setup
    BY <2>1, FifoSame DEF whb04b_setup, Enter
  <2>2. CASE Start \/ TestIdentity \/ Banner \/ Loop
    <3>1. phase # "loop" /\ UNCHANGED <<rx_buffer, gaveUp, chip>>
      BY <2>2 DEF Start, bootloader_check, SetUp, TestIdentity, Banner, Loop, Enter, MainFrame,
                  restVars
    <3> QED BY <3>1, FifoSame
  <2>3. CASE Unlock \/ EnableWrite \/ Program \/ DisableWrite \/ Lock
    BY <1>1, <2>3 DEF Unlock, EnableWrite, Program, DisableWrite, Lock, FlashFrame, restVars, mainVars
  <2>4. CASE ClearDone \/ SendByte \/ WaitDone
    BY <1>1, <2>4 DEF ClearDone, SendByte, WaitDone, UartFrame, restVars, mainVars
  <2> QED BY <1>4, <2>1, <2>2, <2>3, <2>4 DEF BootStep
<1>5. CASE Hardware
  <2>1. CASE timer0_isr /\ UNCHANGED bootVars
    BY <1>1, <2>1 DEF timer0_isr, bootVars, mainVars
  <2>2. CASE UartSent \/ uart0_isr
    BY <1>1, <2>2 DEF UartSent, uart0_isr, UartFrame, restVars, mainVars
  <2> QED BY <1>5, <2>1, <2>2 DEF Hardware
<1>6. CASE Surroundings
  BY <1>6, FifoAir
<1>7. CASE Disturbance \/ BootloaderExits
  <2>1. CASE WindowLapses
    BY <1>1, <2>1 DEF WindowLapses, restVars, mainVars
  <2>2. CASE reset_to_bootloader \/ PowerFailure \/ BootloaderExits
    <3>1. rx_buffer' = <<>> /\ gaveUp' = FALSE
      BY <2>2 DEF reset_to_bootloader, PowerFailure, BootloaderExits, Reset
    <3>2. CASE chip' = chip
      BY <3>1, <3>2 DEF FifoInv
    <3>3. CASE chip' = PoweredOff
      BY <3>1, <3>3 DEF FifoInv, PoweredOff, OnTheAir
    <3> QED BY <2>2, <3>2, <3>3 DEF reset_to_bootloader, PowerFailure, BootloaderExits
  <2> QED BY <1>7, <2>1, <2>2 DEF Disturbance
<1>8. CASE UNCHANGED vars
  BY <1>1, <1>8 DEF vars, radioVars, bootVars, mainVars
<1> QED BY <1>2, <1>3, <1>4, <1>5, <1>6, <1>7, <1>8 DEF Next, Processor

\* The FIFO is empty at first.
LEMMA FifoStarts == Init => FifoInv
BY DEF Init, FifoInv, PoweredOff, OnTheAir

-----------------------------------------------------------------------------
(* The channel in use *)

\* The channels of a dongle whose first byte is b
LEMMA OwnChannels ==
    ASSUME NEW b \in {255, Identity[1]}
    PROVE  b \in Channels /\ ChannelsOf(b) \subseteq Channels
<1>1. ChannelsOf(b) \subseteq Channels
  BY ChannelAssumption
<1>2. b \in ChannelsOf(b)
  BY DEF ChannelsOf
<1> QED BY <1>1, <1>2

\* A step that leaves the identity and the channel alone
LEMMA NameSame ==
    ASSUME NameInv, UNCHANGED <<dataflash, config, hw3000_channel>>, Linked' => Linked
    PROVE  NameInv'
<1>1. dataflash' = dataflash /\ config' = config /\ hw3000_channel' = hw3000_channel
  OBVIOUS
<1> QED BY <1>1, Zenon DEF NameInv

\* No step breaks NameInv: the channel comes from the first byte of config, config
\* from the dataflash, and the dataflash from Identity.
LEMMA NameKept == CallInv /\ FlashInv /\ RadioInv /\ NameInv /\ [Next]_vars => NameInv'
<1> SUFFICES ASSUME CallInv, FlashInv, RadioInv, NameInv, [Next]_vars PROVE NameInv'
    OBVIOUS
<1>1. ASSUME UNCHANGED <<phase, dataflash, config, hw3000_channel>> PROVE NameInv'
  <2>1. UNCHANGED <<dataflash, config, hw3000_channel>> /\ Linked' => Linked
    BY <1>1 DEF Linked
  <2> QED BY <1>1, <2>1, NameSame
<1>2. CASE RadioStep /\ UNCHANGED bootVars
  <2>1. hw3000_channel' = hw3000_channel
    BY <1>2, RadioStepFrame
  <2> QED BY <1>1, <1>2, <2>1 DEF bootVars, mainVars, flashVars
<1>3. CASE LoopCall /\ UNCHANGED bootVars
  <2>1. UNCHANGED <<phase, dataflash, config>>
    <3>1. UNCHANGED bootVars
      BY <1>3
    <3> QED BY <3>1, Zenon DEF bootVars, mainVars, flashVars
  <2>2. CASE hw3000_rxdata_get \/ hw3000_txdata_send \/ hw3000_process
    BY <1>1, <2>1, <2>2 DEF hw3000_rxdata_get, hw3000_txdata_send, hw3000_process
  <2>3. ASSUME NEW c \in LinkChannels, ChangeChannel(c) PROVE NameInv'
    <3>1. hw3000_channel' = c
      BY <2>3 DEF ChangeChannel
    <3>2. c \in Channels
      <4>1. ChannelsOf(config[1]) \subseteq Channels
        BY OwnChannels DEF NameInv
      <4> QED BY <4>1 DEF LinkChannels
    <3> QED BY <2>1, <3>1, <3>2 DEF NameInv
  <2> QED BY <1>3, <2>2, <2>3 DEF LoopCall
<1>4. CASE BootStep
  <2>1. CASE whb04b_setup
    <3>1. dataflash' = dataflash /\ config' = dataflash /\ hw3000_channel' = config'[1]
      BY <2>1 DEF whb04b_setup, flashVars
    <3>2. config'[1] \in {255, Identity[1]}
      BY <3>1 DEF NameInv
    <3>3. hw3000_channel' \in Channels
      BY <3>1, <3>2, OwnChannels
    <3> QED BY <3>1, <3>2, <3>3 DEF NameInv
  <2>2. CASE Start
    <3>1. UNCHANGED <<dataflash, config, hw3000_channel>> /\ phase' \in {"bootloader", "radio"}
      BY <2>2 DEF Start, bootloader_check, SetUp, Enter, restVars, flashVars
    <3> QED BY <3>1, NameSame DEF Linked
  <2>3. CASE TestIdentity \/ Banner \/ Loop
    <3>1. UNCHANGED <<dataflash, config, hw3000_channel>> /\ Linked
      BY <2>3 DEF TestIdentity, Banner, Loop, Enter, MainFrame, restVars, flashVars, Linked
    <3> QED BY <3>1, NameSame
  <2>4. CASE Unlock \/ EnableWrite \/ DisableWrite \/ Lock
    BY <1>1, <2>4 DEF Unlock, EnableWrite, DisableWrite, Lock, FlashFrame, restVars, mainVars
  <2>5. CASE Program
    <3>1. UNCHANGED <<phase, config, hw3000_channel>>
      BY <2>5 DEF Program, FlashFrame, restVars, mainVars
    <3>2. dataflash'[1] \in {255, Identity[1]}
      <4>1. 1 \in DOMAIN dataflash
        BY IdentityType DEF FlashInv
      <4>2. dataflash' = dataflash \/ dataflash' = [dataflash EXCEPT ![Arg(1)] = Identity[Arg(1)]]
        BY <2>5 DEF Program
      <4> QED BY <4>1, <4>2 DEF NameInv
    <3> QED BY <3>1, <3>2 DEF NameInv, Linked
  <2>6. CASE ClearDone \/ SendByte \/ WaitDone
    BY <1>1, <2>6 DEF ClearDone, SendByte, WaitDone, UartFrame, restVars, mainVars, flashVars
  <2> QED BY <1>4, <2>1, <2>2, <2>3, <2>4, <2>5, <2>6 DEF BootStep
<1>5. CASE Hardware
  <2>1. CASE timer0_isr /\ UNCHANGED bootVars
    BY <1>1, <2>1 DEF timer0_isr, bootVars, mainVars, flashVars
  <2>2. CASE UartSent \/ uart0_isr
    BY <1>1, <2>2 DEF UartSent, uart0_isr, UartFrame, restVars, mainVars, flashVars
  <2> QED BY <1>5, <2>1, <2>2 DEF Hardware
<1>6. CASE Surroundings
  BY <1>1, <1>6 DEF Surroundings, RadioEnvironment, ChipReady, ChipSent, ChipReceives, bootVars,
                    mainVars, flashVars
<1>7. CASE Disturbance \/ BootloaderExits
  <2>1. CASE WindowLapses
    BY <1>1, <2>1 DEF WindowLapses, restVars, mainVars
  <2>2. CASE reset_to_bootloader \/ PowerFailure \/ BootloaderExits
    <3>1. phase' = "check" /\ config' = Erased /\ dataflash' = dataflash
      BY <2>2 DEF reset_to_bootloader, PowerFailure, BootloaderExits, Reset
    <3>2. ~Linked'
      BY <3>1 DEF Linked
    <3> QED BY <3>1, <3>2, IdentityType DEF NameInv
  <2> QED BY <1>7, <2>1, <2>2 DEF Disturbance
<1>8. CASE UNCHANGED vars
  BY <1>1, <1>8 DEF vars, radioVars, bootVars, mainVars, flashVars
<1> QED BY <1>2, <1>3, <1>4, <1>5, <1>6, <1>7, <1>8 DEF Next, Processor

\* The dataflash is erased at first.
LEMMA NameStarts == Init => NameInv
BY IdentityType DEF Init, NameInv, Linked

-----------------------------------------------------------------------------
(* How a call ends *)

\* A change of channel begins.
LEMMA ChangeWillEnd ==
    ASSUME NEW c, NEW st
    PROVE  LET s == hw3000_channel_change(c)
           IN  StateWillBe(s, st) /\ FlushedLater(s) /\ Flushes(s)
<1> DEFINE s == hw3000_channel_change(c)
<1>1. Len(s) = 10 /\ Holding(s, 0, Change(c))
  BY ChangeIs
<1>2. DOMAIN s = 1 .. 0 + 10
  BY <1>1, ChangeSteps, StepsBasic
<1> HIDE DEF s
<1>3. Ends(s, Assign("RX")) /\ FlushedLater(s) /\ Flushes(s)
  BY <1>1, <1>2, ChangeEnds, ChangeFlushes
<1> QED BY <1>3 DEF StateWillBe, s

\* A reply begins.
LEMMA SendWillEnd ==
    ASSUME NEW c, NEW st
    PROVE  LET s == hw3000_fifo_tx("RX", Reply) \o hw3000_channel_change(c)
           IN  StateWillBe(s, st) /\ FlushedLater(s) /\ Flushes(s)
<1> DEFINE a == hw3000_fifo_tx("RX", Reply)
           b == hw3000_channel_change(c)
           s == a \o b
<1>1. Steps(a, RadioKinds) /\ Len(a) = 13
  BY SendIs
<1>2. Steps(b, RadioKinds) /\ Len(b) = 10 /\ Holding(b, 0, Change(c))
  BY ChangeIs, ChangeSteps
<1> HIDE DEF a, b
<1>3. IsChain(s, a, b, 13, 10)
  BY <1>1, <1>2, Chain, Zenon
<1> HIDE DEF s
<1>4. DOMAIN Change(c) = 1 .. 10
  BY DEF Change
<1>5. DOMAIN s = 1 .. 13 + 10
  BY <1>3 DEF IsChain
<1>6. Holding(s, 13, Change(c))
  <2>1. \A i \in 1 .. 10 : b[0 + i] = Change(c)[i] /\ 0 + i = i
    BY <1>2, <1>4 DEF Holding
  <2> QED BY <1>3, <1>4, <2>1 DEF IsChain, Holding
<1>7. Ends(s, Assign("RX")) /\ FlushedLater(s) /\ Flushes(s)
  BY <1>5, <1>6, ChangeEnds, ChangeFlushes
<1> QED BY <1>7 DEF StateWillBe, s, a, b

\* Between two calls the driver's state is RX.
LEMMA IdleState ==
    ASSUME NEW st, StateWillBe(<<>>, st)
    PROVE  st = "RX"
<1>1. DOMAIN <<>> = {}
  OBVIOUS
<1> QED BY <1>1 DEF StateWillBe, Ends

\* A call of the loop that the radio takes part in
LEMMA CallBegins ==
    ASSUME EndInv, LoopCall,
           (\E c \in LinkChannels : ChangeChannel(c)) \/ hw3000_txdata_send
    PROVE  StateWillBe(todo', state') /\ FlushedLater(todo') /\ Flushes(todo')
<1>1. CASE \E c \in LinkChannels : ChangeChannel(c)
  <2>1. PICK c \in LinkChannels : ChangeChannel(c)
    BY <1>1
  <2>2. todo' = hw3000_channel_change(c)
    BY <2>1 DEF ChangeChannel
  <2> QED BY <2>2, ChangeWillEnd
<1>2. CASE hw3000_txdata_send
  <2>1. todo = <<>> /\ Linked
    BY <1>2 DEF hw3000_txdata_send, LoopCall, Linked
  <2>2. state = "RX"
    BY <2>1, IdleState DEF EndInv
  <2>3. todo' = hw3000_fifo_tx("RX", Reply) \o hw3000_channel_change(hw3000_channel)
    BY <1>2, <2>2 DEF hw3000_txdata_send
  <2> QED BY <2>3, SendWillEnd
<1> QED BY <1>1, <1>2

\* The steps of main that the radio takes no part in
LEMMA MainEnds ==
    ASSUME EndInv, TestIdentity \/ Banner \/ Loop
    PROVE  /\ Linked /\ Linked' /\ todo = <<>> /\ state' = state /\ state = "RX"
           /\ StateWillBe(todo', state') /\ FlushedLater(todo') /\ ~Flushes(todo')
<1>1. /\ todo = <<>> /\ Linked /\ Linked' /\ state' = state
  BY DEF TestIdentity, Banner, Loop, Enter, MainFrame, restVars, Linked
<1>2. state = "RX"
  BY <1>1, IdleState DEF EndInv
<1>3. todo' = <<>> \/ Steps(todo', FlashKinds) \/ Steps(todo', UartKinds)
  BY <1>1, IdentitySteps, BannerSteps DEF TestIdentity, Banner, Loop
<1>4. \A k \in DOMAIN todo' : todo'[k][1] \notin {"write", "state"}
  <2>1. CASE todo' = <<>>
    BY <2>1
  <2>2. CASE Steps(todo', FlashKinds)
    BY <2>2 DEF Steps, FlashKinds
  <2>3. CASE Steps(todo', UartKinds)
    BY <2>3 DEF Steps, UartKinds
  <2> QED BY <1>3, <2>1, <2>2, <2>3
<1>5. FlushedLater(todo') /\ ~Flushes(todo') /\ Without(todo', Assign("RX"))
  BY <1>4, OtherFlushes
<1> QED BY <1>1, <1>2, <1>5 DEF StateWillBe

\* No step breaks EndInv.
LEMMA EndKept == CallInv /\ RadioInv /\ EndInv /\ [Next]_vars => EndInv'
<1> SUFFICES ASSUME CallInv, RadioInv, EndInv, [Next]_vars, Linked'
             PROVE  StateWillBe(todo', state') /\ FlushedLater(todo')
    BY DEF EndInv
<1>1. ASSUME Linked PROVE StateWillBe(todo', state') /\ FlushedLater(todo')
  <2>1. StateWillBe(todo, state) /\ FlushedLater(todo)
    BY <1>1 DEF EndInv
  <2>2. CASE CallStep
    <3>1. CASE todo' = todo /\ state' = state
      BY <2>1, <3>1
    <3>2. CASE ~(todo' = todo /\ state' = state)
      <4>1. \/ Advances(todo, todo')
               /\ IF todo[1][1] = "state" THEN state' = todo[1][2] ELSE state' = state
            \/ Waits(todo, todo') /\ state' = state
        BY <2>2, <3>2 DEF CallStep
      <4> QED BY <2>1, <4>1, StateStep, FlushStep, FlushWaits
    <3> QED BY <3>1, <3>2
  <2>3. CASE LoopCall /\ UNCHANGED bootVars
    <3>1. CASE hw3000_rxdata_get \/ hw3000_process
      <4>1. todo' = todo /\ state' = state
        BY <3>1, Zenon DEF hw3000_rxdata_get, hw3000_process
      <4> QED BY <2>1, <4>1
    <3>2. CASE (\E c \in LinkChannels : ChangeChannel(c)) \/ hw3000_txdata_send
      BY <2>3, <3>2, CallBegins
    <3> QED BY <2>3, <3>1, <3>2 DEF LoopCall
  <2>4. CASE TestIdentity \/ Banner \/ Loop
    BY <2>4, MainEnds
  <2>5. CASE Surroundings
    <3>1. todo' = todo /\ state' = state
      BY <2>5 DEF Surroundings, RadioEnvironment, ChipReady, ChipSent, ChipReceives
    <3> QED BY <2>1, <3>1
  <2>6. ASSUME Reset PROVE FALSE
    BY <2>6 DEF Reset, Linked
  <2> QED BY <1>1, <2>2, <2>3, <2>4, <2>5, <2>6, LinkedCases
<1>2. ASSUME ~Linked PROVE StateWillBe(todo', state') /\ FlushedLater(todo')
  <2>1. whb04b_setup
    BY <1>2, OnlyLink
  <2>2. todo' = hw3000_channel_change(hw3000_channel')
    BY <2>1 DEF whb04b_setup
  <2> QED BY <2>2, ChangeWillEnd
<1> QED BY <1>1, <1>2

\* Nothing is promised before the radio is set up.
LEMMA EndStarts == Init => EndInv
BY DEF Init, EndInv, Linked

-----------------------------------------------------------------------------
(* The radio as AtomicRadio sees it *)

\* The receiver is being set up, or will never receive anything.
Silent == Booting \/ Restarting \/ gaveUp

\* What AtomicRadio sees in the FIFO
FifoInUse == IF Silent THEN {} ELSE FrameInFifo

\* and of IRQN
IrqInUse == IF Silent THEN FALSE ELSE chip.irq

\* A chip of AtomicRadio's that receives
View(c, f, i) == [mode |-> "rx", channel |-> c, fifo |-> f, irq |-> i]

\* However far a call has got, the receiver is seen to be on, on the channel in use.
Seen ==
    /\ StateInUse = "RX" /\ ChannelInUse \in Channels
    /\ ChipInUse = View(ChannelInUse, FifoInUse, IrqInUse)
    /\ IrqInUse \in BOOLEAN

\* The inductive invariant of the refinement
AirInv == FifoInv /\ NameInv /\ EndInv

\* What is seen of a step
Unseen == UNCHANGED <<ChannelInUse, FrameRead, FifoInUse, IrqInUse>>

\* The receiver starts afresh.
Anew == FrameRead' = {} /\ FifoInUse' = {} /\ IrqInUse' = FALSE

\* whb04b_process takes the frame.
Taken == FrameRead' = {} /\ UNCHANGED <<ChannelInUse, FifoInUse, IrqInUse>>

\* hw3000_process reads what the FIFO yields.
Processed ==
    /\ IrqInUse /\ ChannelInUse' = ChannelInUse /\ FifoInUse' = {}
    /\ \E f \in IF FifoInUse = {} THEN {Someone, Nothing} ELSE FifoInUse :
         FrameRead' = IF f = Nothing THEN {} ELSE {f}

\* A frame arrives.
Arrived ==
    /\ ~IrqInUse /\ IrqInUse'
    /\ UNCHANGED <<ChannelInUse, FrameRead>>
    /\ \E f \in PendantFrames \cup {Someone, Nothing} : FifoInUse' = {f}

\* The next-state relation of AtomicRadio
AtomicStep == Atomic!Calls \/ Atomic!TakeFrame \/ Atomic!Air \/ Atomic!Restart

\* w is v with another FIFO and IRQN.
Becomes(v, w, f, i) == w = [v EXCEPT !.fifo = f, !.irq = i]

\* The fields of such a chip
LEMMA Views ==
    ASSUME NEW c, NEW f, NEW i
    PROVE  /\ View(c, f, i).mode = "rx" /\ View(c, f, i).channel = c
           /\ View(c, f, i).fifo = f /\ View(c, f, i).irq = i
BY DEF View

\* and what becomes of it
LEMMA ViewBecomes ==
    ASSUME NEW c, NEW f, NEW i, NEW g, NEW j
    PROVE  Becomes(View(c, f, i), View(c, g, j), g, j)
<1>1. [View(c, f, i) EXCEPT !.fifo = g] = View(c, g, i)
  BY SMT DEF View
<1>2. [View(c, g, i) EXCEPT !.irq = j] = View(c, g, j)
  BY SMT DEF View
<1>3. [View(c, f, i) EXCEPT !.fifo = g, !.irq = j] = [[View(c, f, i) EXCEPT !.fifo = g] EXCEPT !.irq = j]
  OBVIOUS
<1> QED BY <1>1, <1>2, <1>3, Zenon DEF Becomes

\* What is seen of a step is a step of AtomicRadio, or nothing.
LEMMA SeenSteps ==
    ASSUME Seen, Seen', Unseen \/ Anew \/ Taken \/ Processed \/ Arrived
    PROVE  [AtomicStep]_(Atomic!radioVars)
<1>1. /\ StateInUse' = "RX" /\ StateInUse = "RX" /\ ChannelInUse' \in Channels
      /\ ChannelInUse \in Channels
      /\ ChipInUse' = View(ChannelInUse', FifoInUse', IrqInUse')
      /\ ChipInUse = View(ChannelInUse, FifoInUse, IrqInUse)
      /\ IrqInUse \in BOOLEAN /\ IrqInUse' \in BOOLEAN
  BY DEF Seen
<1>2. CASE Unseen
  <2>1. /\ ChannelInUse' = ChannelInUse /\ FrameRead' = FrameRead /\ FifoInUse' = FifoInUse
        /\ IrqInUse' = IrqInUse
    BY <1>2 DEF Unseen
  <2>2. ChipInUse' = ChipInUse
    BY <1>1, <2>1
  <2> QED BY <1>1, <2>1, <2>2 DEF Atomic!radioVars
<1>3. CASE Anew
  <2>1. ChipInUse' = View(ChannelInUse', {}, FALSE) /\ FrameRead' = {}
    BY <1>1, <1>3 DEF Anew
  <2>2. Atomic!Restart
    BY <1>1, <2>1 DEF Atomic!Restart, Atomic!RadioInit, Atomic!Listening, View
  <2> QED BY <2>2 DEF AtomicStep
<1>4. CASE Taken
  <2>1. /\ ChannelInUse' = ChannelInUse /\ FrameRead' = {} /\ FifoInUse' = FifoInUse
        /\ IrqInUse' = IrqInUse
    BY <1>4 DEF Taken
  <2>2. ChipInUse' = ChipInUse
    BY <1>1, <2>1
  <2>3. Atomic!TakeFrame
    BY <1>1, <2>1, <2>2 DEF Atomic!TakeFrame
  <2> QED BY <2>3 DEF AtomicStep
<1>5. CASE Processed
  <2>1. PICK f \in IF FifoInUse = {} THEN {Someone, Nothing} ELSE FifoInUse :
           FrameRead' = IF f = Nothing THEN {} ELSE {f}
    BY <1>5 DEF Processed
  <2>2. ChannelInUse' = ChannelInUse /\ FifoInUse' = {} /\ IrqInUse
    BY <1>5 DEF Processed
  <2>3. ChipInUse' = [ChipInUse EXCEPT !.fifo = {}, !.irq = IrqInUse']
    <3>1. ChipInUse' = View(ChannelInUse, {}, IrqInUse')
      BY <1>1, <2>2
    <3>2. Becomes(ChipInUse, ChipInUse', {}, IrqInUse')
      BY <1>1, <3>1, ViewBecomes
    <3> QED BY <3>2, Zenon DEF Becomes
  <2>4. ChipInUse.irq /\ ChipInUse.fifo = FifoInUse
    <3>1. ChipInUse.irq = IrqInUse /\ ChipInUse.fifo = FifoInUse
      BY <1>1, Views
    <3> QED BY <2>2, <3>1
  <2>5. f \in Atomic!FifoFrames /\ FrameRead' = Atomic!Read(f)
    BY <2>1, <2>4 DEF Atomic!FifoFrames, Atomic!Read
  <2>6. Atomic!hw3000_process
    BY <1>1, <2>2, <2>3, <2>4, <2>5 DEF Atomic!hw3000_process
  <2> QED BY <2>6 DEF AtomicStep, Atomic!Calls
<1>6. CASE Arrived
  <2>1. PICK f \in PendantFrames \cup {Someone, Nothing} : FifoInUse' = {f}
    BY <1>6 DEF Arrived
  <2>2. ChannelInUse' = ChannelInUse /\ FrameRead' = FrameRead /\ ~IrqInUse /\ IrqInUse'
    BY <1>6 DEF Arrived
  <2>3. ChipInUse' = [ChipInUse EXCEPT !.fifo = {f}, !.irq = TRUE]
    <3>1. ChipInUse' = View(ChannelInUse, {f}, TRUE)
      BY <1>1, <2>1, <2>2
    <3>2. Becomes(ChipInUse, ChipInUse', {f}, TRUE)
      BY <1>1, <3>1, ViewBecomes
    <3> QED BY <3>2, Zenon DEF Becomes
  <2>4. ChipInUse.mode = "rx" /\ ChipInUse.channel = ChannelInUse /\ ~ChipInUse.irq
    <3>1. /\ ChipInUse.mode = "rx" /\ ChipInUse.channel = ChannelInUse
          /\ ChipInUse.irq = IrqInUse
      BY <1>1, Views
    <3> QED BY <2>2, <3>1
  <2>5. Atomic!Receive(f, ChannelInUse)
    BY <1>1, <2>2, <2>3, <2>4 DEF Atomic!Receive
  <2>6. f \in Atomic!Frames
    BY DEF Atomic!Frames
  <2> QED BY <1>1, <2>5, <2>6 DEF AtomicStep, Atomic!Air
<1> QED BY <1>2, <1>3, <1>4, <1>5, <1>6

\* There is a channel.
LEMMA SomeChannel == (CHOOSE c \in Channels : TRUE) \in Channels
<1>1. 255 \in Channels
  BY OwnChannels
<1> QED BY <1>1

\* Once the radio is set up and nothing is left that flushes the FIFO, the receiver is on.
LEMMA On ==
    ASSUME CallInv, RadioInv, EndInv, ~Silent
    PROVE  Receiving /\ ChannelSet /\ Running /\ Linked
<1>1. Linked /\ ~gaveUp /\ ~Flushes(todo)
  BY DEF Silent, Booting, Linked, CallInv, Restarting, Flushes
<1>2. Running
  BY <1>1 DEF RadioInv, Gone, Linked
<1>3. Configured(todo, chip, state, hw3000_channel)
  BY <1>2 DEF Running, Runs
<1>4. \A k \in DOMAIN todo : ~Disturbs(todo[k])
  BY <1>1, NotDisturbed DEF EndInv
<1>5. ASSUME NEW reg \in {HW3000_REG_TRCTRL, HW3000_REG_CHCFG0}, NEW val,
             WillHold(todo, chip, reg, val)
      PROVE  RegisterOf(chip, BANK0, reg) = val
  <2>1. ~Ends(todo, Write(reg, val))
    BY <1>4 DEF Ends, Disturbs, Write
  <2> QED BY <1>5, <2>1 DEF WillHold
<1>6. /\ chip.ready /\ RegisterOf(chip, BANK0, HW3000_REG_TRCTRL) = \h0080
      /\ RegisterOf(chip, BANK0, HW3000_REG_CHCFG0) = (hw3000_channel % 64) * 256
  BY <1>3, <1>5 DEF Configured
<1>7. TRCTRL = \h0080 /\ ChannelSet
  BY <1>6, RegisterIs DEF TRCTRL, ChannelSet
<1> QED BY <1>1, <1>2, <1>6, <1>7 DEF Receiving

\* The invariants give what AtomicRadio sees.
LEMMA IsSeen ==
    ASSUME CallInv, RadioInv, AirInv
    PROVE  Seen
<1>1. FifoInv /\ NameInv /\ EndInv /\ chip.irq \in BOOLEAN
  BY DEF AirInv, FifoInv
<1>2. IrqInUse \in BOOLEAN
  BY <1>1 DEF IrqInUse
<1>3. CASE Silent
  <2>1. FifoInUse = {} /\ IrqInUse = FALSE
    BY <1>3 DEF FifoInUse, IrqInUse
  <2>2. ChipInUse = View(ChannelInUse, {}, FALSE)
    BY <1>3 DEF ChipInUse, Silent, View
  <2>3. ChannelInUse \in Channels
    BY <1>1, SomeChannel DEF ChannelInUse, NameInv, Booting, Linked, CallInv
  <2>4. StateInUse = "RX"
    <3>1. CASE Booting \/ todo # <<>>
      BY <3>1 DEF StateInUse
    <3>2. CASE ~Booting /\ todo = <<>>
      <4>1. Linked
        BY <3>2 DEF Booting, Linked, CallInv
      <4>2. state = "RX"
        BY <1>1, <3>2, <4>1, IdleState DEF EndInv
      <4> QED BY <4>2 DEF StateInUse
    <3> QED BY <3>1, <3>2
  <2> QED BY <1>2, <2>1, <2>2, <2>3, <2>4 DEF Seen
<1>4. CASE ~Silent
  <2>1. Receiving /\ ChannelSet /\ Linked
    BY <1>1, <1>4, On
  <2>2. FifoInUse = FrameInFifo /\ IrqInUse = chip.irq /\ ~Booting
    BY <1>4 DEF FifoInUse, IrqInUse, Silent
  <2>3. ChannelInUse = hw3000_channel
    BY <2>2 DEF ChannelInUse
  <2>4. ChipInUse = View(hw3000_channel, FrameInFifo, chip.irq)
    BY <1>4, <2>1 DEF ChipInUse, Silent, View
  <2>5. ChannelInUse \in Channels
    BY <1>1, <2>1, <2>3 DEF NameInv
  <2>6. StateInUse = "RX"
    <3>1. CASE todo # <<>>
      BY <3>1 DEF StateInUse
    <3>2. CASE todo = <<>>
      <4>1. state = "RX"
        BY <1>1, <3>2, <2>1, IdleState DEF EndInv
      <4> QED BY <4>1 DEF StateInUse
    <3> QED BY <3>1, <3>2
  <2> QED BY <1>2, <2>2, <2>3, <2>4, <2>5, <2>6 DEF Seen
<1> QED BY <1>3, <1>4

-----------------------------------------------------------------------------
(* What is seen of each step *)

\* Nothing is seen of a step that leaves alone what is read of the chip.
LEMMA StaysUnseen ==
    ASSUME Linked, Linked', UNCHANGED <<hw3000_channel, rx_buffer>>, Silent' <=> Silent,
           Silent \/ SameAir(chip, chip')
    PROVE  Unseen
<1>1. ~Booting /\ ~Booting'
  BY DEF Linked, Booting
<1>2. hw3000_channel' = hw3000_channel /\ rx_buffer' = rx_buffer
  OBVIOUS
<1>3. ChannelInUse' = ChannelInUse /\ FrameRead' = FrameRead
  BY <1>1, <1>2 DEF ChannelInUse, FrameRead
<1>4. FifoInUse' = FifoInUse /\ IrqInUse' = IrqInUse
  <2>1. CASE Silent
    BY <2>1 DEF FifoInUse, IrqInUse
  <2>2. CASE SameAir(chip, chip') /\ ~Silent
    <3>1. chip'.fifo = chip.fifo /\ chip'.irq = chip.irq
      BY <2>2 DEF SameAir
    <3>2. FrameInFifo' = FrameInFifo
      BY <3>1 DEF FrameInFifo
    <3> QED BY <2>2, <3>1, <3>2 DEF FifoInUse, IrqInUse
  <2> QED BY <2>1, <2>2
<1> QED BY <1>3, <1>4 DEF Unseen

\* The flush that ends a call finds the FIFO empty afterwards.
LEMMA FlushUnseen ==
    ASSUME Linked, Linked', UNCHANGED <<hw3000_channel, rx_buffer>>, Silent,
           ~Silent' => chip'.fifo = <<>> /\ chip'.irq = FALSE
    PROVE  Unseen
<1>1. ~Booting /\ ~Booting'
  BY DEF Linked, Booting
<1>2. hw3000_channel' = hw3000_channel /\ rx_buffer' = rx_buffer
  OBVIOUS
<1>3. ChannelInUse' = ChannelInUse /\ FrameRead' = FrameRead
  BY <1>1, <1>2 DEF ChannelInUse, FrameRead
<1>4. FifoInUse = {} /\ IrqInUse = FALSE
  BY DEF FifoInUse, IrqInUse
<1>5. FifoInUse' = {} /\ IrqInUse' = FALSE
  BY DEF FifoInUse, IrqInUse, FrameInFifo
<1> QED BY <1>3, <1>4, <1>5 DEF Unseen

\* The next step of what is running is one the driver means.
LEMMA RunningHead ==
    ASSUME CallInv, Running, 1 \in DOMAIN todo, todo[1][1] = "write"
    PROVE  /\ chip.ready /\ chip.bank = BANK0
           /\ todo[1][2] \in 0 .. 127 /\ todo[1][3] \in Words
BY DEF Running, Runs, Configured, AllFine, Fine

\* Nothing is seen of a step of a call: before its flush nothing can be received, and
\* after it nothing is written that matters to reception.
LEMMA CallUnseen ==
    ASSUME CallInv, RadioInv, AirInv, Linked, CallStep
    PROVE  Unseen
<1>1. /\ Linked' /\ gaveUp' = gaveUp /\ ~Booting /\ ~Booting'
      /\ UNCHANGED <<hw3000_channel, rx_buffer>>
  BY DEF CallStep, Linked, Booting
<1>2. FlushedLater(todo) /\ EndInv /\ IsChip
  BY DEF AirInv, EndInv, RadioInv, ChipInv
<1>3. (Silent <=> Flushes(todo) \/ gaveUp) /\ (Silent' <=> Flushes(todo') \/ gaveUp)
  BY <1>1 DEF Silent, Restarting, Flushes
<1>4. CASE /\ Advances(todo, todo') /\ todo[1][1] = "write"
           /\ ChipWrite(spi_write16(todo[1][2], todo[1][3]))
  <2>1. 1 \in DOMAIN todo
    BY <1>4 DEF Advances
  <2>2. ASSUME ~gaveUp
        PROVE  /\ todo[1][2] = HW3000_REG_FIFOSTA /\ todo[1][3] = \h0200 =>
                    chip'.fifo = <<>> /\ chip'.irq = FALSE
               /\ todo[1][2] # HW3000_REG_FIFOSTA => SameAir(chip, chip')
    <3>1. Running
      BY <2>2 DEF RadioInv, Gone, Linked
    <3> QED BY <1>2, <1>4, <2>1, <3>1, RunningHead, WriteFlushes
  <2>3. CASE todo[1] = Flush
    <3>1. Flushes(todo)
      BY <2>1, <2>3 DEF Flushes
    <3>2. ~Silent' => chip'.fifo = <<>> /\ chip'.irq = FALSE
      BY <1>3, <2>2, <2>3, FlushIs
    <3> QED BY <1>1, <1>3, <3>1, <3>2, FlushUnseen
  <2>4. CASE todo[1] # Flush
    <3>1. Silent' <=> Silent
      BY <1>2, <1>3, <1>4, <2>4, FlushStep
    <3>2. ~Silent => SameAir(chip, chip')
      <4> SUFFICES ASSUME ~Silent PROVE SameAir(chip, chip')
          OBVIOUS
      <4>1. ~Disturbs(todo[1])
        BY <1>2, <1>3, <2>1, NotDisturbed
      <4>2. todo[1][2] # HW3000_REG_FIFOSTA
        BY <1>4, <4>1 DEF Disturbs
      <4> QED BY <1>3, <2>2, <4>2
    <3> QED BY <1>1, <3>1, <3>2, StaysUnseen
  <2> QED BY <2>3, <2>4
<1>5. CASE Advances(todo, todo') /\ todo[1][1] # "write" /\ SameAir(chip, chip')
  <2>1. todo[1] # Flush
    BY <1>5, FlushIs
  <2>2. Silent' <=> Silent
    BY <1>2, <1>3, <1>5, <2>1, FlushStep
  <2> QED BY <1>1, <1>5, <2>2, StaysUnseen
<1>6. CASE (Waits(todo, todo') \/ todo' = todo) /\ SameAir(chip, chip')
  <2>1. Silent' <=> Silent
    BY <1>2, <1>3, <1>6, FlushWaits
  <2> QED BY <1>1, <1>6, <2>1, StaysUnseen
<1> QED BY <1>4, <1>5, <1>6 DEF CallStep

\* Nothing is seen of main.
LEMMA MainUnseen ==
    ASSUME CallInv, AirInv, TestIdentity \/ Banner \/ Loop
    PROVE  Unseen
<1>1. /\ Linked /\ Linked' /\ todo = <<>> /\ ~Flushes(todo')
  BY MainEnds DEF AirInv
<1>2. UNCHANGED <<hw3000_channel, rx_buffer, gaveUp, chip>>
  BY DEF TestIdentity, Banner, Loop, Enter, MainFrame, restVars
<1>3. SameAir(chip, chip')
  BY <1>2 DEF SameAir
<1>4. ~Flushes(todo)
  BY <1>1 DEF Flushes
<1>5. Silent' <=> Silent
  BY <1>1, <1>2, <1>4 DEF Silent, Restarting, Flushes, Linked, Booting
<1> QED BY <1>1, <1>2, <1>3, <1>5, StaysUnseen

\* A start, a reset or a call that changes the channel or replies
LEMMA SeenAnew ==
    ASSUME Booting' \/ (rx_buffer' = <<>> /\ Flushes(todo'))
    PROVE  Anew
<1>1. FrameRead' = {}
  BY DEF FrameRead
<1>2. Silent'
  BY DEF Silent, Restarting, Flushes
<1> QED BY <1>1, <1>2 DEF Anew, FifoInUse, IrqInUse

\* What AtomicRadio makes of a frame that is read
LEMMA FrameSeen ==
    ASSUME NEW noise \in {0, 255}, chip.fifo \in OnTheAir, ~Booting',
           rx_buffer' = ReadBack(chip.fifo \o Noise(noise))
    PROVE  \E f \in IF FrameInFifo = {} THEN {Someone, Nothing} ELSE FrameInFifo :
             FrameRead' = IF f = Nothing THEN {} ELSE {f}
<1> DEFINE fifo == chip.fifo
           read == ReadBack(fifo \o Noise(noise))
<1>1. fifo \in {<<>>} \cup PendantFrames \cup ForeignFrames
  BY DEF OnTheAir
<1>2. IF fifo \in PendantFrames THEN read = fifo /\ read # <<>>
      ELSE IF fifo = <<>> THEN read = <<>> \/ read \notin PendantFrames
      ELSE IF fifo[1] = 0 THEN read = <<>>
      ELSE read # <<>> /\ read \notin PendantFrames
  BY <1>1, FrameIsRead
<1>3. rx_buffer' = read
  OBVIOUS
<1> HIDE DEF read
<1>4. FrameRead' = IF read = <<>> THEN {}
                   ELSE IF read \in PendantFrames THEN {read} ELSE {Someone}
  BY <1>3 DEF FrameRead
<1>5. Someone # Nothing
  BY DEF Someone, Nothing
<1>6. CASE fifo = <<>>
  <2>1. FrameInFifo = {}
    BY <1>6 DEF FrameInFifo
  <2>2. fifo \notin PendantFrames
    BY <1>6, FrameAssumption
  <2>3. FrameRead' = {} \/ FrameRead' = {Someone}
    BY <1>2, <1>4, <1>6, <2>2
  <2> QED BY <1>5, <2>1, <2>3
<1>7. CASE fifo # <<>> /\ fifo \in PendantFrames
  <2>1. FrameInFifo = {fifo}
    BY <1>7 DEF FrameInFifo
  <2>2. FrameRead' = {fifo}
    BY <1>2, <1>4, <1>7
  <2>3. fifo # Nothing
    <3>1. Len(fifo) \in 2 .. RX_SIZE - 1 /\ fifo[1] = Len(fifo)
      BY <1>7, FrameAssumption
    <3>2. fifo[1] # 0
      BY <3>1, BufferSize
    <3>3. Nothing[1] = 0
      BY DEF Nothing
    <3> QED BY <3>2, <3>3
  <2> QED BY <2>1, <2>2, <2>3
<1>8. CASE fifo # <<>> /\ fifo \notin PendantFrames /\ fifo[1] = 0
  <2>1. FrameInFifo = {Nothing}
    BY <1>8 DEF FrameInFifo
  <2>2. FrameRead' = {}
    BY <1>2, <1>4, <1>8
  <2> QED BY <2>1, <2>2
<1>9. CASE fifo # <<>> /\ fifo \notin PendantFrames /\ fifo[1] # 0
  <2>1. FrameInFifo = {Someone}
    BY <1>9 DEF FrameInFifo
  <2>2. FrameRead' = {Someone}
    BY <1>2, <1>4, <1>9
  <2> QED BY <1>5, <2>1, <2>2
<1> QED BY <1>6, <1>7, <1>8, <1>9

\* What AtomicRadio makes of a frame that arrives
LEMMA SomeFrame ==
    ASSUME NEW f \in PendantFrames \cup ForeignFrames, chip'.fifo = f
    PROVE  \E g \in PendantFrames \cup {Someone, Nothing} : FrameInFifo' = {g}
<1>1. f # <<>>
  BY FrameAssumption
<1>2. FrameInFifo' = IF f \in PendantFrames THEN {f} ELSE IF f[1] = 0 THEN {Nothing} ELSE {Someone}
  BY <1>1 DEF FrameInFifo
<1> QED BY <1>2

\* Reading the FIFO, register by register, is one step of AtomicRadio.
LEMMA ProcessSeen ==
    ASSUME CallInv, RadioInv, AirInv, LoopCall, hw3000_process, phase' = phase
    PROVE  Unseen \/ Processed
<1>1. /\ Linked /\ Linked' /\ ~Booting /\ ~Booting'
      /\ todo' = todo /\ gaveUp' = gaveUp /\ hw3000_channel' = hw3000_channel
  <2>1. todo' = todo /\ gaveUp' = gaveUp /\ hw3000_channel' = hw3000_channel
    BY DEF hw3000_process
  <2> QED BY <2>1 DEF LoopCall, Linked, Booting
<1>2. todo = <<>>
  BY DEF hw3000_process
<1>3. (Silent <=> gaveUp) /\ (Silent' <=> Silent)
  BY <1>1, <1>2 DEF Silent, Restarting
<1>4. chip.fifo \in OnTheAir /\ chip.irq \in BOOLEAN /\ (chip.irq => ~gaveUp)
  BY DEF AirInv, FifoInv
<1>5. CASE ~chip.irq
  <2>1. rx_buffer' = rx_buffer /\ chip' = chip
    BY <1>5 DEF hw3000_process
  <2>2. SameAir(chip, chip')
    BY <2>1 DEF SameAir
  <2> QED BY <1>1, <1>3, <2>1, <2>2, StaysUnseen
<1>6. CASE chip.irq
  <2>1. chip.fifo \in Seq(Octets)
    <3>1. /\ \A g \in PendantFrames : g \in Seq(Octets)
          /\ \A f \in ForeignFrames : f \in Seq(Octets)
      BY FrameAssumption DEF Octets
    <3>2. <<>> \in Seq(Octets)
      OBVIOUS
    <3> QED BY <1>4, <3>1, <3>2, Zenon DEF OnTheAir
  <2>2. PICK noise \in {0, 255}, again \in BOOLEAN :
          /\ rx_buffer' = ReadBack(chip.fifo \o Noise(noise))
          /\ chip' = [chip EXCEPT !.fifo = <<>>, !.irq = again]
    BY <1>4, <1>6, <2>1, FifoRead
  <2>3. chip'.fifo = <<>>
    BY <2>2 DEF RadioInv, ChipInv, IsChip, ChipFields
  <2>4. ~Silent /\ ~Silent'
    BY <1>3, <1>4, <1>6
  <2>5. /\ FifoInUse = FrameInFifo /\ IrqInUse = chip.irq /\ FifoInUse' = {}
        /\ ChannelInUse' = ChannelInUse
    BY <1>1, <2>3, <2>4 DEF FifoInUse, IrqInUse, FrameInFifo, ChannelInUse
  <2>6. \E f \in IF FrameInFifo = {} THEN {Someone, Nothing} ELSE FrameInFifo :
             FrameRead' = IF f = Nothing THEN {} ELSE {f}
    BY <1>1, <1>4, <2>2, FrameSeen
  <2> QED BY <1>6, <2>5, <2>6 DEF Processed
<1> QED BY <1>5, <1>6

\* The calls of the loop
LEMMA LoopSeen ==
    ASSUME CallInv, RadioInv, AirInv, LoopCall /\ UNCHANGED bootVars
    PROVE  Unseen \/ Anew \/ Taken \/ Processed
<1>1. phase' = phase /\ ~Booting /\ ~Booting'
  BY DEF bootVars, mainVars, LoopCall, Booting
<1>2. CASE rx_buffer # <<>>
  <2>1. /\ rx_buffer' = <<>>
        /\ UNCHANGED <<todo, hw3000_channel, chip, gaveUp>>
    BY <1>2 DEF LoopCall, hw3000_rxdata_get
  <2>2. FrameRead' = {} /\ ChannelInUse' = ChannelInUse
    BY <1>1, <2>1 DEF FrameRead, ChannelInUse
  <2>3. FifoInUse' = FifoInUse /\ IrqInUse' = IrqInUse
    <3>1. Silent' <=> Silent
      BY <1>1, <2>1 DEF Silent, Restarting
    <3>2. FrameInFifo' = FrameInFifo
      BY <2>1 DEF FrameInFifo
    <3> QED BY <2>1, <3>1, <3>2 DEF FifoInUse, IrqInUse
  <2> QED BY <2>2, <2>3 DEF Taken
<1>3. CASE rx_buffer = <<>> /\ ((\E c \in LinkChannels : ChangeChannel(c)) \/ hw3000_txdata_send)
  <2>1. Flushes(todo')
    BY <1>3, CallBegins DEF AirInv
  <2>2. rx_buffer' = <<>>
    BY <1>3 DEF ChangeChannel, hw3000_txdata_send
  <2> QED BY <2>1, <2>2, SeenAnew
<1>4. CASE hw3000_process
  BY <1>1, <1>4, ProcessSeen
<1> QED BY <1>2, <1>3, <1>4 DEF LoopCall

\* The chip and the air: once the receiver is seen to be on, the chip is ready and
\* sends nothing, and what happens is that a frame arrives.
LEMMA AirSeen ==
    ASSUME CallInv, RadioInv, AirInv, Linked, Surroundings
    PROVE  Unseen \/ Arrived
<1>1. /\ Linked' /\ ~Booting /\ ~Booting'
      /\ UNCHANGED <<todo, gaveUp, hw3000_channel, rx_buffer>>
  <2>1. phase' = phase
    BY DEF Surroundings, bootVars, mainVars
  <2>2. UNCHANGED <<todo, gaveUp, hw3000_channel, rx_buffer>>
    BY DEF Surroundings, RadioEnvironment, ChipReady, ChipSent, ChipReceives
  <2> QED BY <2>1, <2>2 DEF Linked, Booting
<1>2. Silent' <=> Silent
  BY <1>1 DEF Silent, Restarting
<1>3. EndInv /\ IsChip
  BY DEF AirInv, RadioInv, ChipInv
<1>4. CASE Silent
  BY <1>1, <1>2, <1>4, StaysUnseen
<1>5. CASE ~Silent
  <2>1. Receiving /\ Running
    BY <1>3, <1>5, On
  <2>2. chip.ready /\ TRCTRL = \h0080
    BY <2>1 DEF Receiving
  <2>3. ~ChipReady
    BY <2>2 DEF ChipReady
  <2>4. ~ChipSent
    <3> SUFFICES ASSUME ChipSent PROVE FALSE
        OBVIOUS
    <3>1. RegisterOf(chip, BANK0, HW3000_REG_TRCTRL) = \h0100
      BY SoundAlways DEF ChipSent, Sound
    <3>2. TRCTRL = \h0100
      BY <3>1, RegisterIs DEF TRCTRL
    <3> QED BY <2>2, <3>2
  <2>5. PICK f \in PendantFrames \cup ForeignFrames, c \in Channels : ChipReceives(f, c)
    BY <2>3, <2>4 DEF Surroundings, RadioEnvironment
  <2>6. /\ chip'.fifo = f /\ chip'.irq = TRUE /\ ~chip.irq
    <3>1. chip' = [chip EXCEPT !.fifo = f, !.irq = TRUE] /\ ~chip.irq
      BY <2>5 DEF ChipReceives
    <3> QED BY <1>3, <3>1 DEF IsChip, ChipFields
  <2>7. IrqInUse = chip.irq /\ IrqInUse' = TRUE /\ FifoInUse' = FrameInFifo'
    BY <1>2, <1>5, <2>6 DEF IrqInUse, FifoInUse
  <2>8. ChannelInUse' = ChannelInUse /\ FrameRead' = FrameRead
    <3>1. hw3000_channel' = hw3000_channel /\ rx_buffer' = rx_buffer
      BY <1>1
    <3> QED BY <1>1, <3>1 DEF ChannelInUse, FrameRead
  <2>9. \E g \in PendantFrames \cup {Someone, Nothing} : FrameInFifo' = {g}
    BY <2>6, SomeFrame
  <2> QED BY <2>6, <2>7, <2>8, <2>9 DEF Arrived
<1> QED BY <1>4, <1>5

\* What is seen of any step
LEMMA NextSeen ==
    ASSUME CallInv, CallInv', RadioInv, AirInv, [Next]_vars
    PROVE  Unseen \/ Anew \/ Taken \/ Processed \/ Arrived
<1>1. (Linked <=> ~Booting) /\ (Linked' <=> ~Booting')
  BY DEF CallInv, Linked, Booting
<1>2. CASE ~Linked'
  BY <1>1, <1>2, SeenAnew
<1>3. CASE ~Linked /\ Linked'
  <2>1. whb04b_setup
    BY <1>3, OnlyLink
  <2>2. todo' = hw3000_channel_change(hw3000_channel') /\ rx_buffer' = rx_buffer /\ phase = "radio"
    BY <2>1 DEF whb04b_setup, Enter
  <2>3. Flushes(todo')
    BY <2>2, ChangeWillEnd
  <2>4. rx_buffer' = <<>>
    BY <2>2 DEF AirInv, FifoInv
  <2> QED BY <2>3, <2>4, SeenAnew
<1>4. CASE Linked /\ Linked'
  <2>1. CASE CallStep
    BY <1>4, <2>1, CallUnseen
  <2>2. CASE LoopCall /\ UNCHANGED bootVars
    BY <2>2, LoopSeen
  <2>3. CASE TestIdentity \/ Banner \/ Loop
    BY <2>3, MainUnseen
  <2>4. CASE Surroundings
    BY <1>4, <2>4, AirSeen
  <2>5. ~Reset
    BY <1>4 DEF Reset, Linked
  <2> QED BY <1>4, <2>1, <2>2, <2>3, <2>4, <2>5, LinkedCases
<1> QED BY <1>2, <1>3, <1>4

-----------------------------------------------------------------------------
(* The refinement *)

\* The invariant of the refinement holds at first
LEMMA AirStarts == Init => AirInv
BY FifoStarts, NameStarts, EndStarts DEF AirInv

\* and no step breaks it.
LEMMA AirKept == CallInv /\ FlashInv /\ RadioInv /\ AirInv /\ [Next]_vars => AirInv'
BY FifoKept, NameKept, EndKept DEF AirInv

\* Before it is set up, the radio is seen to listen on some channel.
LEMMA RadioStartsSeen == Init => Atomic!RadioInit
<1> SUFFICES ASSUME Init PROVE Atomic!RadioInit
    OBVIOUS
<1>1. Booting
  BY DEF Init, Booting
<1>2. /\ ChannelInUse \in Channels /\ StateInUse = "RX" /\ FrameRead = {}
  BY <1>1, SomeChannel DEF ChannelInUse, StateInUse, FrameRead
<1>3. ChipInUse = [mode |-> "rx", channel |-> ChannelInUse, fifo |-> {}, irq |-> FALSE]
  BY <1>1 DEF ChipInUse
<1> QED BY <1>2, <1>3 DEF Atomic!RadioInit, Atomic!Listening

\* The radio, register by register, does what the one-step operations do that Dongle is
\* checked with, for every set of frames, every reply, every identity and every order of
\* calls and resets (hw3000.c:55-320).
THEOREM RadioIsAtomic == Spec => ImplementsRadio
<1>1. FirmwareInv => CallInv /\ FlashInv
  BY DEF FirmwareInv
<1>2. CallInv /\ RadioInv /\ AirInv => Seen
  BY IsSeen
<1>3. /\ CallInv /\ RadioInv /\ AirInv /\ CallInv' /\ Seen /\ Seen' /\ [Next]_vars
      => [AtomicStep]_(Atomic!radioVars)
  BY NextSeen, SeenSteps
<1>4. Spec => []Seen
  BY <1>1, <1>2, FirmwareInvariant, RadioStarts, RadioKept, AirStarts, AirKept, PTL DEF Spec
<1>5. Spec => [][AtomicStep]_(Atomic!radioVars)
  BY <1>1, <1>3, <1>4, FirmwareInvariant, RadioStarts, RadioKept, AirStarts, AirKept, PTL DEF Spec
<1>6. Spec => Atomic!RadioInit
  BY RadioStartsSeen DEF Spec
<1> QED BY <1>5, <1>6, PTL DEF ImplementsRadio, Atomic!RadioSpec, AtomicStep
=============================================================================
