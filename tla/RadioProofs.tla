---------------------------- MODULE RadioProofs -----------------------------
(*****************************************************************************)
(* The calls of hw3000.c step by step: what each sequence of register writes *)
(* leaves in the chip, wherever in it the program stands, for every reply,   *)
(* every channel and every patience of the waits.                            *)
(*****************************************************************************)
EXTENDS Radio, SpiProofs

-----------------------------------------------------------------------------
(* Sequences of steps *)

\* A sequence of steps, whatever their arguments, whose kinds are all in K
Steps(s, K) ==
    /\ s \in Seq({s[i] : i \in DOMAIN s})
    /\ \A i \in DOMAIN s : s[i][1] \in K

\* A call that has nothing to do
LEMMA NoSteps == \A K : Steps(<<>>, K)
BY DEF Steps

\* How a call is shown to consist of steps
LEMMA StepsIn == \A s, T, K : s \in Seq(T) /\ (\A i \in DOMAIN s : s[i][1] \in K) => Steps(s, K)
<1> SUFFICES ASSUME NEW s, NEW T, NEW K, s \in Seq(T), \A i \in DOMAIN s : s[i][1] \in K
             PROVE  s \in Seq({s[i] : i \in DOMAIN s})
    BY DEF Steps
<1>1. Len(s) \in Nat /\ DOMAIN s = 1 .. Len(s) /\ s = [i \in 1 .. Len(s) |-> s[i]]
  OBVIOUS
<1> QED BY <1>1

LEMMA StepsMore == \A s, K, L : Steps(s, K) /\ K \subseteq L => Steps(s, L)
BY DEF Steps

\* The steps of a call are numbered from 1.
LEMMA StepsBasic ==
    ASSUME NEW s, NEW K, Steps(s, K)
    PROVE  /\ Len(s) \in Nat /\ DOMAIN s = 1 .. Len(s)
           /\ s = <<>> <=> Len(s) = 0
           /\ \A i \in 1 .. Len(s) : s[i][1] \in K
BY DEF Steps

\* What is left when the first step is done
LEMMA StepsTail ==
    ASSUME NEW s, NEW K, Steps(s, K), s # <<>>
    PROVE  /\ Steps(Tail(s), K)
           /\ Head(s) = s[1] /\ 1 \in DOMAIN s
           /\ DOMAIN Tail(s) = 1 .. Len(s) - 1
           /\ \A i \in 1 .. Len(s) - 1 : Tail(s)[i] = s[i + 1]
<1> DEFINE T == {s[i] : i \in DOMAIN s}
<1>1. s \in Seq(T)
  BY DEF Steps
<1> HIDE DEF T
<1>2. /\ Head(s) = s[1] /\ 1 \in DOMAIN s /\ Tail(s) \in Seq(T)
      /\ DOMAIN Tail(s) = 1 .. Len(s) - 1
      /\ \A i \in 1 .. Len(s) - 1 : Tail(s)[i] = s[i + 1]
  BY <1>1
<1>3. \A i \in DOMAIN Tail(s) : Tail(s)[i][1] \in K
  <2>1. \A i \in 1 .. Len(s) - 1 : i + 1 \in 1 .. Len(s)
    BY StepsBasic
  <2> QED BY <1>2, <2>1, StepsBasic
<1> QED BY <1>2, <1>3, StepsIn

\* One call after the other
LEMMA StepsConcat ==
    ASSUME NEW s, NEW t, NEW K, Steps(s, K), Steps(t, K)
    PROVE  /\ Steps(s \o t, K)
           /\ Len(s \o t) = Len(s) + Len(t)
           /\ \A i \in 1 .. Len(s) : (s \o t)[i] = s[i]
           /\ \A i \in 1 .. Len(t) : (s \o t)[Len(s) + i] = t[i]
<1> DEFINE T == {s[i] : i \in DOMAIN s} \cup {t[i] : i \in DOMAIN t}
<1>1. s \in Seq(T) /\ t \in Seq(T)
  <2>1. /\ Len(s) \in Nat /\ DOMAIN s = 1 .. Len(s) /\ s = [i \in 1 .. Len(s) |-> s[i]]
        /\ Len(t) \in Nat /\ DOMAIN t = 1 .. Len(t) /\ t = [i \in 1 .. Len(t) |-> t[i]]
    BY DEF Steps
  <2>2. (\A i \in DOMAIN s : s[i] \in T) /\ (\A i \in DOMAIN t : t[i] \in T)
    OBVIOUS
  <2> HIDE DEF T
  <2> QED BY <2>1, <2>2
<1> HIDE DEF T
<1>2. /\ s \o t \in Seq(T) /\ Len(s \o t) = Len(s) + Len(t)
      /\ Len(s) \in Nat /\ Len(t) \in Nat
      /\ \A i \in 1 .. Len(s) : (s \o t)[i] = s[i]
      /\ \A i \in 1 .. Len(t) : (s \o t)[Len(s) + i] = t[i]
  BY <1>1
<1>3. \A i \in DOMAIN (s \o t) : (s \o t)[i][1] \in K
  <2> SUFFICES ASSUME NEW i \in 1 .. Len(s) + Len(t) PROVE (s \o t)[i][1] \in K
      BY <1>2
  <2>1. CASE i <= Len(s)
    BY <2>1, <1>2, StepsBasic
  <2>2. CASE i > Len(s)
    <3>1. i - Len(s) \in 1 .. Len(t) /\ Len(s) + (i - Len(s)) = i
      BY <2>2, <1>2
    <3>2. t[i - Len(s)][1] \in K
      BY <3>1, StepsBasic
    <3> QED BY <3>1, <3>2, <1>2
  <2> QED BY <2>1, <2>2, <1>2
<1> QED BY <1>2, <1>3, StepsIn

\* A call of one step
LEMMA StepsOne == \A x, K : x[1] \in K => Steps(<<x>>, K)
<1> SUFFICES ASSUME NEW x, NEW K, x[1] \in K PROVE Steps(<<x>>, K)
    OBVIOUS
<1>1. <<x>> \in Seq({x}) /\ \A i \in DOMAIN <<x>> : <<x>>[i][1] \in K
  OBVIOUS
<1> QED BY <1>1, StepsIn

-----------------------------------------------------------------------------
(* The calls' steps *)

RadioKinds == {"power", "write", "ready", "state", "calibrated", "bytes", "start"}

\* The tables hold nothing but register writes.
LEMMA WriteStepsAre ==
    /\ Steps(Bank1Constants, RadioKinds)
    /\ Steps(ModeSettings, RadioKinds) /\ Steps(hw3000_freq_set, RadioKinds)
    /\ Steps(hw3000_rate_set, RadioKinds) /\ Steps(hw3000_power_set, RadioKinds)
    /\ Steps(hw3000_p0addr0_set, RadioKinds) /\ Steps(hw3000_frame_set, RadioKinds)
<1> DEFINE W == {Write(r, v) : r \in Nat, v \in Nat}
<1>1. \A w \in W : w[1] \in RadioKinds
  BY DEF Write, RadioKinds
<1>2. \A s : s \in Seq(W) => Steps(s, RadioKinds)
  <2> SUFFICES ASSUME NEW s, s \in Seq(W) PROVE Steps(s, RadioKinds)
      OBVIOUS
  <2>1. \A i \in DOMAIN s : s[i] \in W
    OBVIOUS
  <2> QED BY <2>1, <1>1, StepsIn
<1>3. \A r, v \in Nat : Write(r, v) \in W
  OBVIOUS
<1> HIDE DEF W
<1>4. Bank1Constants \in Seq(W)
  BY <1>3 DEF Bank1Constants
<1>5. /\ ModeSettings \in Seq(W) /\ hw3000_freq_set \in Seq(W) /\ hw3000_rate_set \in Seq(W)
      /\ hw3000_power_set \in Seq(W) /\ hw3000_p0addr0_set \in Seq(W)
  BY <1>3 DEF ModeSettings, hw3000_freq_set, hw3000_rate_set, hw3000_power_set, hw3000_p0addr0_set
<1>6. hw3000_frame_set \in Seq(W)
  BY <1>3 DEF hw3000_frame_set, HW3000_REG_FIFOSTA
<1> QED BY <1>2, <1>4, <1>5, <1>6

LEMMA Chained == \A s, t, K : Steps(s, K) /\ Steps(t, K) => Steps(s \o t, K)
BY StepsConcat

\* The calls that turn the receiver on and off
LEMMA ReceiverSteps ==
    /\ Steps(hw3000_rx_disable, RadioKinds)
    /\ \A s : Steps(hw3000_rx_enable(s), RadioKinds)
    /\ Steps(hw3000_calibrate, RadioKinds)
    /\ \A c : Steps(hw3000_channel_set(c), RadioKinds)
<1> DEFINE On == <<Write(HW3000_REG_LEN0PKLEN, \h000d), Write(HW3000_REG_TRCTRL, \h0080),
                   Write(HW3000_REG_FIFOSTA, \h0200), Assign("RX")>>
           X == {On[i] : i \in 1 .. 4}
<1>1. Steps(hw3000_rx_disable, RadioKinds)
  <2>1. \A i \in DOMAIN hw3000_rx_disable : hw3000_rx_disable[i][1] \in RadioKinds
    BY DEF hw3000_rx_disable, Write, Assign, RadioKinds
  <2>2. hw3000_rx_disable \in Seq({hw3000_rx_disable[i] : i \in 1 .. 3})
    BY DEF hw3000_rx_disable
  <2> QED BY <2>1, <2>2, StepsIn
<1>2. Steps(On, RadioKinds)
  <2>1. \A i \in DOMAIN On : On[i][1] \in RadioKinds
    BY DEF Write, Assign, RadioKinds
  <2>2. On \in Seq(X)
    OBVIOUS
  <2> QED BY <2>1, <2>2, StepsIn, ZenonT(30)
<1>3. Steps(hw3000_calibrate, RadioKinds)
  <2>1. \A i \in DOMAIN hw3000_calibrate : hw3000_calibrate[i][1] \in RadioKinds
    BY DEF hw3000_calibrate, Write, RadioKinds
  <2>2. hw3000_calibrate \in Seq({hw3000_calibrate[i] : i \in 1 .. 2})
    BY DEF hw3000_calibrate
  <2> QED BY <2>1, <2>2, StepsIn
<1>4. \A c : Steps(hw3000_channel_set(c), RadioKinds)
  <2>1. \A v : Write(HW3000_REG_CHCFG0, v)[1] \in RadioKinds
    BY DEF Write, RadioKinds
  <2> QED BY <2>1, StepsOne DEF hw3000_channel_set
<1>5. \A s : Steps(hw3000_rx_enable(s), RadioKinds)
  <2> SUFFICES ASSUME NEW s PROVE Steps(hw3000_rx_enable(s), RadioKinds)
      OBVIOUS
  <2> HIDE DEF On
  <2>1. Steps((IF s # "IDLE" THEN hw3000_rx_disable ELSE <<>>) \o On, RadioKinds)
    <3>1. Steps(IF s # "IDLE" THEN hw3000_rx_disable ELSE <<>>, RadioKinds)
      BY <1>1, NoSteps
    <3> QED BY <3>1, <1>2, Chained
  <2> QED BY <2>1, NoSteps DEF hw3000_rx_enable, On
<1> QED BY <1>1, <1>3, <1>4, <1>5

\* The calls made of them: a change of channel, the setup and a reply
LEMMA ChangeSteps == \A c : Steps(hw3000_channel_change(c), RadioKinds)
BY ReceiverSteps, Chained DEF hw3000_channel_change

LEMMA SetupSteps == \A c : Steps(hw3000_setup(c), RadioKinds)
<1> DEFINE On == <<<<"power", 0>>, <<"power", 1>>, Write(HW3000_REG_BANKSEL, BANK0),
                   <<"ready", READY_TRIES>>, Write(HW3000_REG_BANKSEL, BANK1)>>
           Back == <<Write(HW3000_REG_BANKSEL, BANK0), Write(HW3000_REG_RXPHR1, \h8000)>>
<1>1. Steps(On, RadioKinds)
  <2>1. \A i \in DOMAIN On : On[i][1] \in RadioKinds
    BY DEF Write, RadioKinds
  <2>2. On \in Seq({On[i] : i \in 1 .. 5})
    OBVIOUS
  <2> QED BY <2>1, <2>2, StepsIn
<1>2. Steps(Back, RadioKinds)
  <2>1. \A i \in DOMAIN Back : Back[i][1] \in RadioKinds
    BY DEF Write, RadioKinds
  <2>2. Back \in Seq({Back[i] : i \in 1 .. 2})
    OBVIOUS
  <2> HIDE DEF On, Back
  <2> QED BY <2>1, <2>2, StepsIn
<1> HIDE DEF On, Back
<1>3. Steps(ModemSettings, RadioKinds)
  BY WriteStepsAre, Chained DEF ModemSettings
<1>4. \A c : Steps(On \o Bank1Constants \o Back \o ModemSettings \o hw3000_rx_disable
                    \o hw3000_channel_set(c) \o hw3000_rx_enable("IDLE") \o hw3000_calibrate,
                   RadioKinds)
  BY <1>1, <1>2, <1>3, WriteStepsAre, ReceiverSteps, Chained
<1> QED BY <1>4 DEF hw3000_setup, On, Back

LEMMA SendSteps == \A s : Steps(hw3000_fifo_tx(s, Reply), RadioKinds)
<1> DEFINE Send == <<Write(HW3000_REG_TRCTRL, \h0100), Write(HW3000_REG_FIFOSTA, \h0100),
              Write(HW3000_REG_LEN0PKLEN, \h0016), <<"bytes", HW3000_REG_FIFODATA, Reply>>,
              Write(HW3000_REG_FIFOCTRL, 1), <<"start">>, Write(HW3000_REG_FIFOCTRL, 0),
              Write(HW3000_REG_RXPHR1, 1), Write(HW3000_REG_TRCTRL, 0), Assign("IDLE")>>
<1> SUFFICES ASSUME NEW s PROVE Steps(hw3000_fifo_tx(s, Reply), RadioKinds)
    OBVIOUS
<1>1. Steps(Send, RadioKinds)
  <2>1. \A i \in DOMAIN Send : Send[i][1] \in RadioKinds
    BY DEF Write, Assign, RadioKinds
  <2>2. Send \in Seq({Send[i] : i \in 1 .. 10})
    OBVIOUS
  <2> QED BY <2>1, <2>2, StepsIn, ZenonT(30)
<1> HIDE DEF Send
<1>2. Steps((IF s # "IDLE" THEN hw3000_rx_disable ELSE <<>>) \o Send, RadioKinds)
  <2>1. Steps(IF s # "IDLE" THEN hw3000_rx_disable ELSE <<>>, RadioKinds)
    BY ReceiverSteps, NoSteps
  <2> QED BY <2>1, <1>1, Chained
<1> QED BY <1>2, NoSteps DEF hw3000_fifo_tx, Send

-----------------------------------------------------------------------------
(* The chip's registers *)

ChipFields == {"powered", "ready", "bank", "regs", "fifo", "out", "irq", "sending"}

IsChip == DOMAIN chip = ChipFields

\* The two banks are different ones.
LEMMA Banks == BANK0 # BANK1 /\ BANK0 \in Words /\ BANK1 \in Words
BY SMT DEF BANK0, BANK1, Words

\* What is read back from a chip c
RegisterOf(c, bank, reg) == IF <<bank, reg>> \in DOMAIN c.regs THEN c.regs[<<bank, reg>>] ELSE 0

LEMMA RegisterIs ==
    \A b, r : Register(b, r) = RegisterOf(chip, b, r) /\ Register(b, r)' = RegisterOf(chip', b, r)
BY DEF Register, RegisterOf

\* A write changes one register of one bank.
LEMMA RegisterWritten ==
    ASSUME NEW c, NEW d, NEW b, NEW r, NEW v, d.regs = Set(c.regs, <<b, r>>, v)
    PROVE  /\ RegisterOf(d, b, r) = v
           /\ \A b2, r2 : b2 # b \/ r2 # r => RegisterOf(d, b2, r2) = RegisterOf(c, b2, r2)
<1>1. /\ DOMAIN d.regs = {<<b, r>>} \cup DOMAIN c.regs
      /\ \A x \in DOMAIN d.regs : d.regs[x] = IF x = <<b, r>> THEN v ELSE c.regs[x]
  BY DEF Set
<1>2. \A b2, r2 : <<b2, r2>> = <<b, r>> <=> b2 = b /\ r2 = r
  OBVIOUS
<1> QED BY <1>1, <1>2 DEF RegisterOf

Same(c, d, F) == \A x \in F : d[x] = c[x]

\* What a write by the driver does to the chip
Written(c, d, a, v) ==
    /\ DOMAIN d = ChipFields
    /\ ~c.ready => d = c
    /\ c.ready =>
         /\ d.powered = c.powered /\ d.ready = c.ready
         /\ a = HW3000_REG_BANKSEL =>
              d.bank = v /\ d.regs = c.regs /\ d.out = c.out /\ d.sending = c.sending
                /\ d.fifo = c.fifo /\ d.irq = c.irq
         /\ a # HW3000_REG_BANKSEL =>
              /\ d.bank = c.bank
              /\ RegisterOf(d, c.bank, a) = v
              /\ \A b, r : b # c.bank \/ r # a => RegisterOf(d, b, r) = RegisterOf(c, b, r)
              /\ d.out = c.out \/ (a = HW3000_REG_FIFOSTA /\ d.out = <<>>)
              /\ IF c.bank = BANK0 /\ a = HW3000_REG_FIFOCTRL
                   THEN d.sending = (v = 1) ELSE d.sending = c.sending

\* A register does one thing at most besides keeping its value.
LEMMA Effects ==
    ASSUME NEW a, NEW v
    PROVE  /\ a = HW3000_REG_FIFOSTA /\ v = \h0200 =>
                ChipEffect(a, v) = {[chip EXCEPT !.fifo = <<>>, !.irq = FALSE]}
           /\ a = HW3000_REG_FIFOSTA /\ v = \h0100 =>
                ChipEffect(a, v) = {[chip EXCEPT !.out = <<>>, !.irq = i] : i \in {chip.irq, FALSE}}
           /\ a = HW3000_REG_FIFOCTRL => ChipEffect(a, v) = {[chip EXCEPT !.sending = (v = 1)]}
           /\ \/ a = HW3000_REG_FIFOSTA /\ v = \h0200
              \/ a = HW3000_REG_FIFOSTA /\ v = \h0100
              \/ a = HW3000_REG_FIFOCTRL
              \/ ChipEffect(a, v) = {chip}
<1> DEFINE p == a = HW3000_REG_FIFOSTA /\ v = \h0200
           q == a = HW3000_REG_FIFOSTA /\ v = \h0100
           r == a = HW3000_REG_FIFOCTRL
           A == {[chip EXCEPT !.fifo = <<>>, !.irq = FALSE]}
           B == {[chip EXCEPT !.out = <<>>, !.irq = i] : i \in {chip.irq, FALSE}}
           C == {[chip EXCEPT !.sending = (v = 1)]}
<1>1. ChipEffect(a, v) = CASE p -> A [] q -> B [] r -> C [] OTHER -> {chip}
  BY DEF ChipEffect
<1>2. ~(p /\ q) /\ ~(p /\ r) /\ ~(q /\ r)
  BY SMT DEF HW3000_REG_FIFOSTA, HW3000_REG_FIFOCTRL
<1> HIDE DEF p, q, r, A, B, C
<1>3. /\ (p => ChipEffect(a, v) = A) /\ (q => ChipEffect(a, v) = B) /\ (r => ChipEffect(a, v) = C)
      /\ p \/ q \/ r \/ ChipEffect(a, v) = {chip}
  BY <1>1, <1>2, Zenon
<1> QED BY <1>3 DEF p, q, r, A, B, C

\* What spi_write16 puts on the wire changes that register, and does what a
\* register does.
LEMMA ChipWritten ==
    ASSUME IsChip, NEW a \in 0 .. 127, NEW v \in Words, ChipWrite(spi_write16(a, v))
    PROVE  Written(chip, chip', a, v)
<1> DEFINE wire == spi_write16(a, v)
<1>1. IsWrite(wire) /\ Address(wire) = a /\ Word(wire) = v
  BY WriteThrough
<1>2. ChipWrite(wire)
  OBVIOUS
<1> HIDE DEF wire
<1>3. CASE ~chip.ready
  BY <1>2, <1>3 DEF ChipWrite, Written, IsChip
<1>4. CASE chip.ready /\ a = HW3000_REG_BANKSEL
  <2>1. chip' = [chip EXCEPT !.bank = v]
    BY <1>1, <1>2, <1>4 DEF ChipWrite
  <2> QED BY <1>4, <2>1 DEF Written, IsChip, ChipFields
<1>5. CASE chip.ready /\ a # HW3000_REG_BANKSEL
  <2>1. PICK c \in IF chip.bank = BANK0 THEN ChipEffect(a, v) ELSE {chip} :
             chip' = [c EXCEPT !.regs = Set(@, <<chip.bank, a>>, v)]
    BY <1>1, <1>2, <1>5 DEF ChipWrite
  <2>2. /\ DOMAIN c = ChipFields /\ c.regs = chip.regs /\ c.bank = chip.bank
        /\ c.powered = chip.powered /\ c.ready = chip.ready
        /\ c.out = chip.out \/ (a = HW3000_REG_FIFOSTA /\ c.out = <<>>)
        /\ IF chip.bank = BANK0 /\ a = HW3000_REG_FIFOCTRL
             THEN c.sending = (v = 1) ELSE c.sending = chip.sending
    <3>1. CASE chip.bank # BANK0
      BY <2>1, <3>1 DEF IsChip
    <3>2. CASE chip.bank = BANK0
      <4>1. c \in ChipEffect(a, v)
        BY <2>1, <3>2
      <4>3. CASE a = HW3000_REG_FIFOCTRL
        <5>1. c = [chip EXCEPT !.sending = (v = 1)]
          BY <4>1, <4>3, Effects
        <5>2. /\ DOMAIN c = ChipFields /\ c.regs = chip.regs /\ c.bank = chip.bank
              /\ c.powered = chip.powered /\ c.ready = chip.ready /\ c.out = chip.out
          BY <5>1 DEF IsChip, ChipFields
        <5>3. c.sending = (v = 1)
          BY <5>1, Zenon DEF IsChip, ChipFields
        <5> QED BY <3>2, <4>3, <5>2, <5>3
      <4>4. CASE a # HW3000_REG_FIFOCTRL
        <5>1. CASE ChipEffect(a, v) = {chip}
          BY <3>2, <4>1, <4>4, <5>1 DEF IsChip
        <5>2. CASE a = HW3000_REG_FIFOSTA /\ v = \h0200
          <6>0. ChipEffect(a, v) = {[chip EXCEPT !.fifo = <<>>, !.irq = FALSE]}
            BY <5>2, Effects
          <6>1. c = [chip EXCEPT !.fifo = <<>>, !.irq = FALSE]
            BY <4>1, <6>0, Zenon
          <6> QED BY <3>2, <4>4, <6>1 DEF IsChip, ChipFields
        <5>3. CASE a = HW3000_REG_FIFOSTA /\ v = \h0100
          <6>0. ChipEffect(a, v) = {[chip EXCEPT !.out = <<>>, !.irq = i] : i \in {chip.irq, FALSE}}
            BY <5>3, Effects
          <6>1. \E i : c = [chip EXCEPT !.out = <<>>, !.irq = i]
            BY <4>1, <6>0, Zenon
          <6> QED BY <3>2, <4>4, <5>3, <6>1 DEF IsChip, ChipFields
        <5> QED BY <4>4, <5>1, <5>2, <5>3, Effects, ZenonT(30)
      <4> QED BY <4>3, <4>4
    <3> QED BY <3>1, <3>2
  <2>3. /\ DOMAIN chip' = ChipFields /\ chip'.regs = Set(chip.regs, <<chip.bank, a>>, v)
        /\ chip'.bank = chip.bank /\ chip'.powered = chip.powered /\ chip'.ready = chip.ready
        /\ chip'.out = c.out /\ chip'.sending = c.sending
    BY <2>1, <2>2 DEF ChipFields
  <2>4. /\ RegisterOf(chip', chip.bank, a) = v
        /\ \A b, r : b # chip.bank \/ r # a => RegisterOf(chip', b, r) = RegisterOf(chip, b, r)
    BY <2>3, RegisterWritten
  <2> QED BY <1>5, <2>2, <2>3, <2>4 DEF Written
<1> QED BY <1>3, <1>4, <1>5

\* The reply reaches the chip as it is.
LEMMA BytesWritten ==
    ASSUME IsChip, ChipFifo(spi_writebytes(HW3000_REG_FIFODATA, Reply))
    PROVE  IF chip.ready THEN chip' = [chip EXCEPT !.out = Reply] ELSE chip' = chip
<1> DEFINE wire == spi_writebytes(HW3000_REG_FIFODATA, Reply)
<1>1. Reply \in Seq(Octets) /\ HW3000_REG_FIFODATA \in 0 .. 127
  BY RadioAssumption DEF Octets, HW3000_REG_FIFODATA
<1>2. IsWrite(wire) /\ Address(wire) = HW3000_REG_FIFODATA /\ Bytes(wire) = Reply
  BY <1>1, BytesThrough
<1> HIDE DEF wire
<1>3. ChipFifo(wire)
  BY DEF wire
<1> QED BY <1>2, <1>3 DEF ChipFifo

\* The chip is taken for ready exactly when it is.
LEMMA ReadyRead ==
    ASSUME WaitReady
    PROVE  /\ Step("ready")
           /\ IF chip.ready \/ Arg(1) <= 1 THEN Done ELSE Replace(<<"ready", Arg(1) - 1>>)
           /\ gaveUp' = (~chip.ready /\ Arg(1) <= 1)
<1> DEFINE sent(command) ==
               IF chip.ready /\ Address(command) = HW3000_REG_INT THEN \h4000 ELSE 0
           Miso == [command \in ReadCommands |-> ShiftOut(sent(command), 16)]
           val == spi_read16(HW3000_REG_INT, Miso)
           v == IF chip.ready THEN \h4000 ELSE 0
<1>1. HW3000_REG_INT \in 0 .. 127
  BY DEF HW3000_REG_INT
<1>2. v \in Words /\ ((v \div \h4000) % 2 = 1 <=> chip.ready)
  BY SMT DEF Words
<1>3. Miso[ReadCommand(HW3000_REG_INT)] = ShiftOut(v, 16)
  <2>1. /\ ReadCommand(HW3000_REG_INT) \in ReadCommands
        /\ Address(ReadCommand(HW3000_REG_INT)) = HW3000_REG_INT
    BY <1>1, ReadAddress
  <2>2. sent(ReadCommand(HW3000_REG_INT)) = v
    BY <2>1
  <2> HIDE DEF sent, v
  <2> QED BY <2>1, <2>2
<1> HIDE DEF Miso, v, sent
<1>4. val = v
  BY <1>1, <1>2, <1>3, ReadThrough
<1>5. /\ Step("ready")
      /\ IF (val \div \h4000) % 2 = 1 \/ Arg(1) <= 1 THEN Done ELSE Replace(<<"ready", Arg(1) - 1>>)
      /\ gaveUp' = (~((val \div \h4000) % 2 = 1) /\ Arg(1) <= 1)
  BY DEF WaitReady, Miso, sent
<1> QED BY <1>2, <1>4, <1>5

-----------------------------------------------------------------------------
(* The tables and the calls, step by step *)

\* The modem's settings in one table
Settings == <<
    Write(\h26, \h2e35), Write(\h1c, \h100f), Write(\h25, \h5201),
    Write(\h35, \h3312), Write(\h30, \h8013), Write(\h31, \h3333), Write(\h2f, \h2056),
    Write(\h32, \h013a), Write(\h33, \h0093), Write(\h2e, \h0033), Write(\h2c, \h0052),
    Write(\h40, \hff3f), Write(\h14, \h5425),
    Write(\h02, \h0100), Write(\h1d, \hc009), Write(\h1e, \h08c0), Write(\h06, \h8080),
    Write(\h03, \h4008), Write(\h24, \h0206), Write(\h0e, 0), Write(\h4e, 0), Write(\h13, 1)>>

Table == {Settings[i] : i \in 1 .. 22}

\* The registers that the calls of the loop write again and again
Moving == {HW3000_REG_TRCTRL, HW3000_REG_FIFOCTRL, HW3000_REG_LEN0PKLEN, HW3000_REG_RXPHR1,
           HW3000_REG_CHCFG0, HW3000_REG_RCCFG1}

\* A number that fits into 16 bits is a word.
LEMMA InWords ==
    ASSUME NEW v \in Nat, v <= 65535
    PROVE  v \in Words
<1> DEFINE top == 65535
<1>1. top \in Int /\ v <= top /\ Words = 0 .. top
  BY DEF Words
<1> HIDE DEF top
<1> QED BY <1>1

\* The modem's settings agree with each other and leave the moving registers alone.
LEMMA TableIs ==
    /\ ModemSettings \in Seq(Table)
    /\ \A m \in Table : /\ m[1] = "write" /\ m[2] \in 0 .. 127 /\ m[3] \in Words
                        /\ m[2] \notin Moving /\ m[2] # HW3000_REG_BANKSEL
    /\ \A m, n \in Table : m[2] = n[2] => m[3] = n[3]
<1>1. ModemSettings \in Seq(Table)
  <2>0. \A i \in 1 .. 22 : Settings[i] \in Table
    BY DEF Table
  <2>1. ModeSettings \in Seq(Table) /\ hw3000_freq_set \in Seq(Table)
    BY <2>0 DEF ModeSettings, hw3000_freq_set, Settings
  <2>2. hw3000_rate_set \in Seq(Table) /\ hw3000_power_set \in Seq(Table)
    BY <2>0 DEF hw3000_rate_set, hw3000_power_set, Settings
  <2>3. hw3000_p0addr0_set \in Seq(Table) /\ hw3000_frame_set \in Seq(Table)
    BY <2>0 DEF hw3000_p0addr0_set, hw3000_frame_set, Settings, HW3000_REG_FIFOSTA
  <2>4. \A T : \A a, b \in Seq(T) : a \o b \in Seq(T)
    OBVIOUS
  <2> QED BY <2>1, <2>2, <2>3, <2>4, Zenon DEF ModemSettings
<1>2. \A i \in 1 .. 22 : Settings[i][1] = "write"
  BY SMT DEF Settings, Write
<1>3. \A i \in 1 .. 22 : Settings[i][2] \in 0 .. 127
  BY SMT DEF Settings, Write
<1>4. \A i \in 1 .. 22 : Settings[i][3] \in Words
  <2>1. \A i \in 1 .. 22 : Settings[i][3] \in Nat
    BY SMT DEF Settings, Write
  <2>2. \A i \in 1 .. 22 : Settings[i][3] <= 65535
    BY SMT DEF Settings, Write
  <2> QED BY <2>1, <2>2, InWords
<1>5. \A i \in 1 .. 22 : /\ Settings[i][2] # \h01 /\ Settings[i][2] # \h0c
                          /\ Settings[i][2] # \h0d /\ Settings[i][2] # \h11
                          /\ Settings[i][2] # \h28 /\ Settings[i][2] # \h3a
                          /\ Settings[i][2] # \h4c
  BY SMT DEF Settings, Write
<1>6. \A i \in 1 .. 22 : Settings[i][2] \notin Moving /\ Settings[i][2] # HW3000_REG_BANKSEL
  BY <1>5
  DEF Moving, HW3000_REG_TRCTRL, HW3000_REG_FIFOCTRL, HW3000_REG_LEN0PKLEN, HW3000_REG_RXPHR1,
      HW3000_REG_CHCFG0, HW3000_REG_RCCFG1, HW3000_REG_BANKSEL
<1>7. \A i, j \in 1 .. 22 : Settings[i][2] = Settings[j][2] => i = j
  BY SMT DEF Settings, Write
<1>8. \A m \in Table : \E i \in 1 .. 22 : m = Settings[i]
  BY DEF Table
<1>9. ASSUME NEW m \in Table
      PROVE  /\ m[1] = "write" /\ m[2] \in 0 .. 127 /\ m[3] \in Words
             /\ m[2] \notin Moving /\ m[2] # HW3000_REG_BANKSEL
  <2>1. PICK i \in 1 .. 22 : m = Settings[i]
    BY <1>8
  <2> QED BY <1>2, <1>3, <1>4, <1>6, <2>1
<1>10. ASSUME NEW m \in Table, NEW k \in Table, m[2] = k[2] PROVE m[3] = k[3]
  <2>1. PICK i \in 1 .. 22 : m = Settings[i]
    BY <1>8
  <2>2. PICK j \in 1 .. 22 : k = Settings[j]
    BY <1>8
  <2>3. i = j
    BY <1>7, <1>10, <2>1, <2>2, SMTT(30)
  <2> QED BY <2>1, <2>2, <2>3
<1> QED BY <1>1, <1>9, <1>10

\* The constants of bank 1, each for a register of its own
LEMMA Bank1Is ==
    /\ Len(Bank1Constants) = 24 /\ DOMAIN Bank1Constants = 1 .. 24
    /\ \A i \in 1 .. 24 :
         /\ Bank1Constants[i][1] = "write"
         /\ Bank1Constants[i][2] \in 0 .. 127 /\ Bank1Constants[i][3] \in Words
         /\ Bank1Constants[i][2] # HW3000_REG_BANKSEL
         /\ Bank1Constants[i][2] # HW3000_REG_FIFOSTA
    /\ \A i, j \in 1 .. 24 : Bank1Constants[i][2] = Bank1Constants[j][2] => i = j
<1>1. Len(Bank1Constants) = 24 /\ DOMAIN Bank1Constants = 1 .. 24
  BY DEF Bank1Constants
<1>2. \A i \in 1 .. 24 : Bank1Constants[i][1] = "write"
  BY SMT DEF Bank1Constants, Write
<1>3. \A i \in 1 .. 24 : Bank1Constants[i][2] \in 0 .. 127
  BY SMT DEF Bank1Constants, Write
<1>4. \A i \in 1 .. 24 : Bank1Constants[i][3] \in Words
  <2>1. \A i \in 1 .. 24 : Bank1Constants[i][3] \in Nat
    BY SMT DEF Bank1Constants, Write
  <2>2. \A i \in 1 .. 24 : Bank1Constants[i][3] <= 65535
    BY SMT DEF Bank1Constants, Write
  <2> QED BY <2>1, <2>2, InWords
<1>5. \A i \in 1 .. 24 : Bank1Constants[i][2] # \h4c /\ Bank1Constants[i][2] # \h0e
  BY SMT DEF Bank1Constants, Write
<1>6. \A i, j \in 1 .. 24 : Bank1Constants[i][2] = Bank1Constants[j][2] => i = j
  BY SMT DEF Bank1Constants, Write
<1> QED BY <1>1, <1>2, <1>3, <1>4, <1>5, <1>6 DEF HW3000_REG_BANKSEL, HW3000_REG_FIFOSTA

\* hw3000_channel_change in full
Change(c) == <<
    Write(HW3000_REG_TRCTRL, 0), Write(HW3000_REG_RXPHR1, 1), Assign("IDLE"),
    Write(HW3000_REG_CHCFG0, (c % 64) * 256),
    Write(HW3000_REG_LEN0PKLEN, \h000d), Write(HW3000_REG_TRCTRL, \h0080),
    Write(HW3000_REG_FIFOSTA, \h0200), Assign("RX"),
    Write(HW3000_REG_RCCFG1, \h002b), <<"calibrated", CAL_TRIES>> >>

\* A reply in full, up to the end of the transmission
Send == <<
    Write(HW3000_REG_TRCTRL, 0), Write(HW3000_REG_RXPHR1, 1), Assign("IDLE"),
    Write(HW3000_REG_TRCTRL, \h0100), Write(HW3000_REG_FIFOSTA, \h0100),
    Write(HW3000_REG_LEN0PKLEN, \h0016), <<"bytes", HW3000_REG_FIFODATA, Reply>>,
    Write(HW3000_REG_FIFOCTRL, 1), <<"start">>, Write(HW3000_REG_FIFOCTRL, 0),
    Write(HW3000_REG_RXPHR1, 1), Write(HW3000_REG_TRCTRL, 0), Assign("IDLE")>>

\* t stands in s from place n + 1 on.
Holding(s, n, t) == \A i \in DOMAIN t : s[n + i] = t[i]

\* u is s and then t, of m and of n steps.
IsChain(u, s, t, m, n) ==
    /\ Steps(u, RadioKinds) /\ Len(u) = m + n
    /\ \A i \in 1 .. m : u[i] = s[i]
    /\ \A i \in 1 .. n : u[m + i] = t[i]

\* Where the steps of two calls are after one another
LEMMA Chain ==
    \A s, t, m, n : Steps(s, RadioKinds) /\ Steps(t, RadioKinds) /\ Len(s) = m /\ Len(t) = n
                      => IsChain(s \o t, s, t, m, n)
BY StepsConcat DEF IsChain

\* hw3000_channel_change has ten steps, in this order.
LEMMA ChangeIs ==
    ASSUME NEW c
    PROVE  Len(hw3000_channel_change(c)) = 10 /\ Holding(hw3000_channel_change(c), 0, Change(c))
<1> DEFINE On == <<Write(HW3000_REG_LEN0PKLEN, \h000d), Write(HW3000_REG_TRCTRL, \h0080),
                   Write(HW3000_REG_FIFOSTA, \h0200), Assign("RX")>>
           a == hw3000_rx_disable
           b == hw3000_channel_set(c)
           e == hw3000_rx_enable("IDLE")
           d == hw3000_calibrate
<1>0. Len(a) = 3 /\ Len(b) = 1 /\ Len(d) = 2
  BY DEF hw3000_rx_disable, hw3000_channel_set, hw3000_calibrate
<1>1. Len(e) = 4 /\ \A i \in 1 .. 4 : e[i] = On[i]
  <2>1. e = <<>> \o On
    BY DEF hw3000_rx_enable
  <2>2. On \in Seq({On[i] : i \in 1 .. 4}) /\ Len(On) = 4
    OBVIOUS
  <2>3. \A T : \A s \in Seq(T) : <<>> \o s = s
    OBVIOUS
  <2> HIDE DEF On, e
  <2> QED BY <2>1, <2>2, <2>3
<1>2. Steps(a, RadioKinds) /\ Steps(b, RadioKinds) /\ Steps(e, RadioKinds) /\ Steps(d, RadioKinds)
  BY ReceiverSteps
<1> DEFINE ab == a \o b
           abe == ab \o e
           all == abe \o d
<1> HIDE DEF a, b, e, d
<1>3. IsChain(ab, a, b, 3, 1)
  BY <1>0, <1>2, Chain, Zenon
<1> HIDE DEF ab
<1>4. IsChain(abe, ab, e, 4, 4)
  <2>1. Steps(ab, RadioKinds) /\ Len(ab) = 4
    BY <1>3 DEF IsChain
  <2> QED BY <1>1, <1>2, <2>1, Chain, ZenonT(30)
<1> HIDE DEF abe
<1>5. IsChain(all, abe, d, 8, 2)
  <2>1. Steps(abe, RadioKinds) /\ Len(abe) = 8
    BY <1>4 DEF IsChain
  <2> QED BY <1>0, <1>2, <2>1, Chain, Zenon
<1> HIDE DEF all
<1>6. \A i \in 1 .. 10 : all[i] = Change(c)[i]
  <2>1. all[1] = a[1] /\ all[2] = a[2] /\ all[3] = a[3]
    BY <1>3, <1>4, <1>5 DEF IsChain
  <2>2. all[4] = b[1]
    <3>1. \A i \in 1 .. 1 : ab[3 + i] = b[i]
      BY <1>3 DEF IsChain
    <3>2. ab[3 + 1] = b[1]
      BY <3>1
    <3> QED BY <3>2, <1>4, <1>5 DEF IsChain
  <2>3. all[5] = On[1] /\ all[6] = On[2] /\ all[7] = On[3] /\ all[8] = On[4]
    <3> HIDE DEF On
    <3>1. \A i \in 1 .. 4 : abe[4 + i] = On[i]
      BY <1>1, <1>4 DEF IsChain
    <3>2. abe[4 + 1] = On[1] /\ abe[4 + 2] = On[2] /\ abe[4 + 3] = On[3] /\ abe[4 + 4] = On[4]
      BY <3>1
    <3> QED BY <3>2, <1>5 DEF IsChain
  <2>4. all[9] = d[1] /\ all[10] = d[2]
    <3>1. \A i \in 1 .. 2 : all[8 + i] = d[i]
      BY <1>5 DEF IsChain
    <3>2. all[8 + 1] = d[1] /\ all[8 + 2] = d[2]
      BY <3>1
    <3> QED BY <3>2
  <2>5. /\ all[1] = Change(c)[1] /\ all[2] = Change(c)[2] /\ all[3] = Change(c)[3]
        /\ all[4] = Change(c)[4]
    BY <2>1, <2>2 DEF a, b, hw3000_rx_disable, hw3000_channel_set, Change
  <2>6. /\ all[5] = Change(c)[5] /\ all[6] = Change(c)[6] /\ all[7] = Change(c)[7]
        /\ all[8] = Change(c)[8]
    BY <2>3 DEF Change
  <2>7. all[9] = Change(c)[9] /\ all[10] = Change(c)[10]
    BY <2>4 DEF d, hw3000_calibrate, Change
  <2> HIDE DEF On
  <2> QED BY <2>5, <2>6, <2>7
<1>7. DOMAIN Change(c) = 1 .. 10
  BY DEF Change
<1>8. all = hw3000_channel_change(c) /\ Len(all) = 10
  BY <1>5 DEF IsChain, hw3000_channel_change, all, abe, ab, a, b, e, d
<1> QED BY <1>6, <1>7, <1>8 DEF Holding

\* The reply is sent in thirteen steps, in this order.
LEMMA SendIs ==
    LET s == hw3000_fifo_tx("RX", Reply)
    IN  Steps(s, RadioKinds) /\ Len(s) = 13 /\ Holding(s, 0, Send)
<1> DEFINE Rest == <<Write(HW3000_REG_TRCTRL, \h0100), Write(HW3000_REG_FIFOSTA, \h0100),
              Write(HW3000_REG_LEN0PKLEN, \h0016), <<"bytes", HW3000_REG_FIFODATA, Reply>>,
              Write(HW3000_REG_FIFOCTRL, 1), <<"start">>, Write(HW3000_REG_FIFOCTRL, 0),
              Write(HW3000_REG_RXPHR1, 1), Write(HW3000_REG_TRCTRL, 0), Assign("IDLE")>>
           a == hw3000_rx_disable
           s == hw3000_fifo_tx("RX", Reply)
<1>1. s = a \o Rest
  BY DEF hw3000_fifo_tx
<1>2. Steps(Rest, RadioKinds) /\ Len(Rest) = 10
  <2>1. \A i \in DOMAIN Rest : Rest[i][1] \in RadioKinds
    BY DEF Write, Assign, RadioKinds
  <2>2. Rest \in Seq({Rest[i] : i \in 1 .. 10}) /\ Len(Rest) = 10
    OBVIOUS
  <2> QED BY <2>1, <2>2, StepsIn
<1>3. Steps(a, RadioKinds) /\ Len(a) = 3
  BY ReceiverSteps DEF hw3000_rx_disable
<1> HIDE DEF a, Rest, s
<1>4. IsChain(s, a, Rest, 3, 10)
  BY <1>1, <1>2, <1>3, Chain, Zenon
<1>5. \A i \in 1 .. 13 : s[i] = Send[i]
  <2>1. s[1] = a[1] /\ s[2] = a[2] /\ s[3] = a[3]
    BY <1>4 DEF IsChain
  <2>2. \A i \in 1 .. 10 : s[3 + i] = Rest[i]
    BY <1>4 DEF IsChain
  <2>3. \A i \in 4 .. 13 : s[i] = Rest[i - 3]
    BY <2>2
  <2>4. \A i \in 1 .. 3 : a[i] = Send[i]
    BY DEF a, hw3000_rx_disable, Send
  <2>5. \A i \in 4 .. 13 : Rest[i - 3] = Send[i]
    BY DEF Rest, Send
  <2> QED BY <2>1, <2>3, <2>4, <2>5
<1>6. DOMAIN Send = 1 .. 13
  BY DEF Send
<1> QED BY <1>4, <1>5, <1>6 DEF IsChain, Holding, s

SetupHead == <<<<"power", 0>>, <<"power", 1>>, Write(HW3000_REG_BANKSEL, BANK0),
      <<"ready", READY_TRIES>>, Write(HW3000_REG_BANKSEL, BANK1)>>

SetupBack == <<Write(HW3000_REG_BANKSEL, BANK0), Write(HW3000_REG_RXPHR1, \h8000)>>

IsSetup(s, c) ==
    /\ Len(s) = 41 + Len(ModemSettings)
    /\ Holding(s, 0, SetupHead) /\ Holding(s, 5, Bank1Constants) /\ Holding(s, 29, SetupBack)
    /\ Holding(s, 31, ModemSettings) /\ Holding(s, 31 + Len(ModemSettings), Change(c))

\* hw3000_setup powers the chip, fills bank 1, goes back, sets the modem and
\* changes channel.
LEMMA SetupIs == ASSUME NEW c PROVE IsSetup(hw3000_setup(c), c)
<1> DEFINE Back == SetupBack
           n == Len(ModemSettings)
           a == SetupHead
           b == Bank1Constants
           m == ModemSettings
           f == hw3000_rx_disable
           g == hw3000_channel_set(c)
           h == hw3000_rx_enable("IDLE")
           k == hw3000_calibrate
           ab == a \o b
           abd == ab \o Back
           abdm == abd \o m
           s5 == abdm \o f
           s6 == s5 \o g
           s7 == s6 \o h
           s8 == s7 \o k
           f6 == f \o g
           f7 == f6 \o h
           f8 == f7 \o k
<1>1. /\ Steps(a, RadioKinds) /\ Len(a) = 5 /\ Steps(Back, RadioKinds) /\ Len(Back) = 2
      /\ a \in Seq({a[i] : i \in 1 .. 5})
  <2>1. \A i \in DOMAIN a : a[i][1] \in RadioKinds
    BY DEF SetupHead, Write, RadioKinds
  <2>2. a \in Seq({a[i] : i \in 1 .. 5}) /\ Len(a) = 5
    BY DEF SetupHead
  <2>3. \A i \in DOMAIN Back : Back[i][1] \in RadioKinds
    BY DEF SetupBack, Write, RadioKinds
  <2>4. Back \in Seq({Back[i] : i \in 1 .. 2}) /\ Len(Back) = 2
    BY DEF SetupBack
  <2> HIDE DEF a, Back
  <2> QED BY <2>1, <2>2, <2>3, <2>4, StepsIn
<1>2. /\ Steps(m, RadioKinds) /\ n \in Nat /\ DOMAIN m = 1 .. n
  BY WriteStepsAre, Chained, StepsBasic DEF ModemSettings
<1>3. Steps(b, RadioKinds) /\ Len(b) = 24
  BY WriteStepsAre, Bank1Is
<1>4. /\ Steps(f, RadioKinds) /\ Len(f) = 3 /\ Steps(g, RadioKinds) /\ Len(g) = 1
      /\ Steps(k, RadioKinds) /\ Len(k) = 2 /\ Steps(h, RadioKinds)
  BY ReceiverSteps DEF hw3000_rx_disable, hw3000_channel_set, hw3000_calibrate
<1>5. Len(h) = 4
  BY SMT DEF hw3000_rx_enable
<1> HIDE DEF a, b, m, n, f, g, h, k, Back
<1>6. IsChain(ab, a, b, 5, 24)
  BY <1>1, <1>3, Chain, Zenon
<1> HIDE DEF ab
<1>7. IsChain(abd, ab, Back, 29, 2)
  <2>1. Steps(ab, RadioKinds) /\ Len(ab) = 29
    BY <1>6 DEF IsChain
  <2> QED BY <1>1, <2>1, Chain, Zenon
<1> HIDE DEF abd
<1>8. IsChain(abdm, abd, m, 31, n)
  <2>1. Steps(abd, RadioKinds) /\ Len(abd) = 31
    BY <1>7 DEF IsChain
  <2> QED BY <1>2, <2>1, Chain, Zenon DEF n, m
<1> HIDE DEF abdm
<1>9. IsChain(s5, abdm, f, 31 + n, 3) /\ IsChain(f6, f, g, 3, 1)
  <2>1. Steps(abdm, RadioKinds) /\ Len(abdm) = 31 + n
    BY <1>8 DEF IsChain
  <2> QED BY <1>4, <2>1, Chain, Zenon
<1> HIDE DEF s5, f6
<1>10. IsChain(s6, s5, g, 34 + n, 1) /\ IsChain(f7, f6, h, 4, 4)
  <2>1. Steps(s5, RadioKinds) /\ Len(s5) = 34 + n /\ Steps(f6, RadioKinds) /\ Len(f6) = 4
    BY <1>2, <1>9 DEF IsChain
  <2> QED BY <1>4, <1>5, <2>1, Chain, Zenon
<1> HIDE DEF s6, f7
<1>11. IsChain(s7, s6, h, 35 + n, 4) /\ IsChain(f8, f7, k, 8, 2)
  <2>1. Steps(s6, RadioKinds) /\ Len(s6) = 35 + n /\ Steps(f7, RadioKinds) /\ Len(f7) = 8
    BY <1>2, <1>10 DEF IsChain
  <2> QED BY <1>4, <1>5, <2>1, Chain, Zenon
<1> HIDE DEF s7, f8
<1>12. IsChain(s8, s7, k, 39 + n, 2)
  <2>1. Steps(s7, RadioKinds) /\ Len(s7) = 39 + n
    BY <1>2, <1>11 DEF IsChain
  <2> QED BY <1>4, <2>1, Chain, Zenon
<1> HIDE DEF s8
<1>13. Len(s8) = n + 41 /\ \A i \in 1 .. 31 + n : s8[i] = abdm[i]
  <2>1. \A i \in 1 .. 31 + n : s5[i] = abdm[i] /\ s6[i] = s5[i] /\ s7[i] = s6[i] /\ s8[i] = s7[i]
    BY <1>2, <1>9, <1>10, <1>11, <1>12 DEF IsChain
  <2> QED BY <1>2, <1>12, <2>1 DEF IsChain
<1>14. \A i \in 1 .. 31 : s8[i] = abd[i]
  <2>1. \A i \in 1 .. 31 : abdm[i] = abd[i]
    BY <1>8 DEF IsChain
  <2>2. \A i \in 1 .. 31 : i \in 1 .. 31 + n
    BY <1>2
  <2> QED BY <1>13, <2>1, <2>2
<1>15. \A i \in 1 .. n : s8[31 + i] = m[i]
  <2>1. \A i \in 1 .. n : abdm[31 + i] = m[i]
    BY <1>8 DEF IsChain
  <2>2. \A i \in 1 .. n : 31 + i \in 1 .. 31 + n
    BY <1>2
  <2> QED BY <1>13, <2>1, <2>2
<1>16. \A i \in 1 .. 29 : s8[i] = ab[i]
  BY <1>7, <1>14 DEF IsChain
<1>17. \A i \in 1 .. 2 : s8[29 + i] = Back[i]
  <2>1. \A i \in 1 .. 2 : abd[29 + i] = Back[i]
    BY <1>7 DEF IsChain
  <2>2. \A i \in 1 .. 2 : 29 + i \in 1 .. 31
    OBVIOUS
  <2> QED BY <1>14, <2>1, <2>2
<1>18. \A i \in 1 .. 5 : s8[i] = a[i]
  BY <1>6, <1>16 DEF IsChain
<1>19. \A i \in 1 .. 24 : s8[5 + i] = b[i]
  <2>1. \A i \in 1 .. 24 : 5 + i \in 1 .. 29 /\ ab[5 + i] = b[i]
    BY <1>6 DEF IsChain
  <2> QED BY <1>16, <2>1
<1>20. \A i \in 1 .. 10 : s8[31 + n + i] = f8[i]
  <2>1. ASSUME NEW i \in 1 .. 3 PROVE s8[31 + n + i] = f8[i]
    <3>1. s5[31 + n + i] = f[i] /\ f6[i] = f[i]
      BY <1>9 DEF IsChain
    <3>2. s6[31 + n + i] = s5[31 + n + i] /\ f7[i] = f6[i]
      BY <1>2, <1>10 DEF IsChain
    <3>3. s7[31 + n + i] = s6[31 + n + i] /\ f8[i] = f7[i]
      BY <1>2, <1>11 DEF IsChain
    <3>4. s8[31 + n + i] = s7[31 + n + i]
      BY <1>2, <1>12 DEF IsChain
    <3> QED BY <3>1, <3>2, <3>3, <3>4
  <2>2. s8[31 + n + 4] = f8[4]
    <3>1. \A i \in 1 .. 1 : s6[34 + n + i] = g[i] /\ f6[3 + i] = g[i]
      BY <1>9, <1>10 DEF IsChain
    <3>2. s6[35 + n] = g[1] /\ f6[4] = g[1]
      <4>1. s6[34 + n + 1] = g[1] /\ f6[3 + 1] = g[1]
        BY <3>1
      <4>2. 34 + n + 1 = 35 + n
        BY <1>2
      <4> QED BY <4>1, <4>2
    <3>3. s8[35 + n] = s7[35 + n] /\ s7[35 + n] = s6[35 + n] /\ f8[4] = f7[4] /\ f7[4] = f6[4]
      BY <1>2, <1>10, <1>11, <1>12 DEF IsChain
    <3>4. 31 + n + 4 = 35 + n
      BY <1>2
    <3> QED BY <3>2, <3>3, <3>4
  <2>3. ASSUME NEW i \in 1 .. 4 PROVE s8[31 + n + (4 + i)] = f8[4 + i]
    <3>1. s7[35 + n + i] = h[i] /\ f7[4 + i] = h[i]
      BY <1>10, <1>11 DEF IsChain
    <3>2. f8[4 + i] = f7[4 + i]
      BY <1>11 DEF IsChain
    <3>4. s8[35 + n + i] = s7[35 + n + i]
      <4>1. 35 + n + i \in 1 .. 39 + n
        BY <1>2
      <4> QED BY <1>12, <4>1 DEF IsChain
    <3>3. 31 + n + (4 + i) = 35 + n + i
      BY <1>2
    <3> QED BY <3>1, <3>2, <3>3, <3>4
  <2>4. ASSUME NEW i \in 1 .. 2 PROVE s8[31 + n + (8 + i)] = f8[8 + i]
    <3>1. s8[39 + n + i] = k[i] /\ f8[8 + i] = k[i]
      BY <1>11, <1>12 DEF IsChain
    <3>2. 31 + n + (8 + i) = 39 + n + i
      BY <1>2
    <3> QED BY <3>1, <3>2
  <2> SUFFICES ASSUME NEW i \in 1 .. 10 PROVE s8[31 + n + i] = f8[i]
      OBVIOUS
  <2>5. CASE i \in 1 .. 3
    BY <2>1, <2>5
  <2>6. CASE i = 4
    BY <2>2, <2>6
  <2>7. CASE i \in 5 .. 8
    <3>1. i - 4 \in 1 .. 4 /\ 4 + (i - 4) = i
      BY <2>7
    <3> QED BY <2>3, <3>1
  <2>8. CASE i \in 9 .. 10
    <3>1. i - 8 \in 1 .. 2 /\ 8 + (i - 8) = i
      BY <2>8
    <3> QED BY <2>4, <3>1
  <2> QED BY <2>5, <2>6, <2>7, <2>8
<1>21. Holding(s8, 31 + n, Change(c))
  <2>1. f8 = hw3000_channel_change(c)
    BY DEF f8, f7, f6, f, g, h, k, hw3000_channel_change
  <2>2. DOMAIN Change(c) = 1 .. 10
    BY DEF Change
  <2>3. \A i \in 1 .. 10 : f8[0 + i] = Change(c)[i]
    BY <2>1, <2>2, ChangeIs DEF Holding
  <2> QED BY <1>20, <2>2, <2>3 DEF Holding
<1>22. s8 = hw3000_setup(c)
  BY DEF hw3000_setup, s8, s7, s6, s5, abdm, abd, ab, a, b, m, f, g, h, k, Back, SetupHead, SetupBack
<1>23. Holding(s8, 0, a) /\ Holding(s8, 5, b) /\ Holding(s8, 29, Back) /\ Holding(s8, 31, m)
  <2>1. DOMAIN a = 1 .. 5 /\ DOMAIN b = 1 .. 24 /\ DOMAIN Back = 1 .. 2 /\ DOMAIN m = 1 .. n
    BY <1>1, <1>2, <1>3, StepsBasic
  <2>2. \A i \in 1 .. 5 : 0 + i = i
    OBVIOUS
  <2> QED BY <1>15, <1>17, <1>18, <1>19, <2>1, <2>2 DEF Holding
<1>24. Len(s8) = 41 + n
  BY <1>2, <1>13
<1>25. IsSetup(s8, c)
  BY <1>21, <1>23, <1>24 DEF IsSetup, n, m, a, b, Back
<1> QED BY <1>22, <1>25, Zenon

-----------------------------------------------------------------------------
(* What is still to come *)

\* op writes the register, or assigns the variable, that t does.
Concerns(op, t) == op[1] = t[1] /\ (t[1] = "write" => op[2] = t[2])

Without(s, t) == \A k \in DOMAIN s : ~Concerns(s[k], t)

\* Of all the steps of s that concern the same, t is the last.
Ends(s, t) ==
    \E k \in DOMAIN s : s[k] = t /\ \A j \in DOMAIN s : j > k => ~Concerns(s[j], t)

\* In the loop nothing but FIFOSTA moves one of the modem's settings.
Fine(op) ==
    /\ op[1] \notin {"power", "ready"}
    /\ op[1] = "write" =>
         /\ op[2] \in 0 .. 127 /\ op[3] \in Words /\ op[2] # HW3000_REG_BANKSEL
         /\ \A m \in Table : m[2] = op[2] => m[3] = op[3] \/ m[2] = HW3000_REG_FIFOSTA
    /\ op[1] = "bytes" => op[2] = HW3000_REG_FIFODATA /\ op[3] = Reply

AllFine(s) == \A k \in DOMAIN s : Fine(s[k])

\* s2 is s without its first step, or with another in its place.
Advances(s, s2) ==
    /\ 1 \in DOMAIN s /\ DOMAIN s \subseteq Nat \ {0} /\ DOMAIN s2 \subseteq Nat \ {0}
    /\ \A k \in DOMAIN s2 : k + 1 \in DOMAIN s /\ s2[k] = s[k + 1]
    /\ \A k \in DOMAIN s : k # 1 => k - 1 \in DOMAIN s2 /\ s2[k - 1] = s[k]

Waiting == {"calibrated", "start", "sent"}

Waits(s, s2) ==
    /\ 1 \in DOMAIN s /\ DOMAIN s2 = DOMAIN s
    /\ s[1][1] \in Waiting
    /\ s2[1][1] = IF s[1][1] = "calibrated" THEN "calibrated" ELSE "sent"
    /\ \A k \in DOMAIN s : k # 1 => s2[k] = s[k]

\* What is still to come after a step
LEMMA StepDone ==
    ASSUME NEW s, NEW s2, Advances(s, s2)
    PROVE  /\ AllFine(s) => Fine(s[1]) /\ AllFine(s2)
           /\ \A t : Without(s, t) => ~Concerns(s[1], t) /\ Without(s2, t)
           /\ \A t : Ends(s, t) => Ends(s2, t) \/ (s[1] = t /\ Without(s2, t))
           /\ \A m : (\E k \in DOMAIN s : s[k] = m) => s[1] = m \/ \E k \in DOMAIN s2 : s2[k] = m
<1>1. AllFine(s) => Fine(s[1]) /\ AllFine(s2)
  BY DEF Advances, AllFine
<1>2. \A t : Without(s, t) => ~Concerns(s[1], t) /\ Without(s2, t)
  BY DEF Advances, Without
<1>3. \A m : (\E k \in DOMAIN s : s[k] = m) => s[1] = m \/ \E k \in DOMAIN s2 : s2[k] = m
  BY DEF Advances
<1>4. ASSUME NEW t, Ends(s, t) PROVE Ends(s2, t) \/ (s[1] = t /\ Without(s2, t))
  <2>1. PICK k \in DOMAIN s : s[k] = t /\ \A j \in DOMAIN s : j > k => ~Concerns(s[j], t)
    BY <1>4 DEF Ends
  <2>2. CASE k = 1
    <3>1. \A j \in DOMAIN s2 : j + 1 \in DOMAIN s /\ j + 1 > 1 /\ s2[j] = s[j + 1]
      BY DEF Advances
    <3> QED BY <2>1, <2>2, <3>1 DEF Without
  <2>3. CASE k # 1
    <3>1. k - 1 \in DOMAIN s2 /\ s2[k - 1] = t
      BY <2>1, <2>3 DEF Advances
    <3>2. \A j \in DOMAIN s2 : j > k - 1 => j + 1 \in DOMAIN s /\ j + 1 > k /\ s2[j] = s[j + 1]
      BY <2>1 DEF Advances
    <3> QED BY <2>1, <3>1, <3>2 DEF Ends
  <2> QED BY <2>2, <2>3
<1> QED BY <1>1, <1>2, <1>3, <1>4

\* What is still to come while a wait goes on
LEMMA WaitGoesOn ==
    ASSUME NEW s, NEW s2, Waits(s, s2)
    PROVE  /\ AllFine(s) => AllFine(s2)
           /\ \A t : t[1] \notin Waiting /\ Without(s, t) => Without(s2, t)
           /\ \A t : t[1] \notin Waiting /\ Ends(s, t) => Ends(s2, t)
           /\ \A m : m[1] \notin Waiting /\ (\E k \in DOMAIN s : s[k] = m) =>
                \E k \in DOMAIN s2 : s2[k] = m
<1>0. s2[1][1] \in Waiting
  BY DEF Waits, Waiting
<1>1. \A op : op[1] \in Waiting => Fine(op)
  BY DEF Fine, Waiting
<1>2. AllFine(s) => AllFine(s2)
  BY <1>0, <1>1 DEF Waits, AllFine
<1>3. \A op, t : op[1] \in Waiting /\ t[1] \notin Waiting => ~Concerns(op, t) /\ op # t
  BY DEF Concerns
<1>4. \A t : t[1] \notin Waiting /\ Without(s, t) => Without(s2, t)
  BY <1>0, <1>3 DEF Waits, Without
<1>5. ASSUME NEW t, t[1] \notin Waiting, Ends(s, t) PROVE Ends(s2, t)
  <2>1. PICK k \in DOMAIN s : s[k] = t /\ \A j \in DOMAIN s : j > k => ~Concerns(s[j], t)
    BY <1>5 DEF Ends
  <2>2. k # 1
    BY <1>5, <2>1 DEF Waits
  <2>3. s2[k] = t /\ k \in DOMAIN s2
    BY <2>1, <2>2 DEF Waits
  <2>4. \A j \in DOMAIN s2 : j > k => ~Concerns(s2[j], t)
    BY <1>0, <1>3, <1>5, <2>1 DEF Waits
  <2> QED BY <2>3, <2>4 DEF Ends
<1>6. \A m : m[1] \notin Waiting /\ (\E k \in DOMAIN s : s[k] = m) => \E k \in DOMAIN s2 : s2[k] = m
  BY DEF Waits
<1> QED BY <1>2, <1>4, <1>5, <1>6

-----------------------------------------------------------------------------
(* Every call leaves the chip as RightSettings has it *)

\* Register reg of bank 0 will have the value val in the end.
WillHold(s, c, reg, val) ==
    Ends(s, Write(reg, val)) \/ (Without(s, Write(reg, val)) /\ RegisterOf(c, BANK0, reg) = val)

ModemWillHold(s, c) ==
    \A i \in DOMAIN ModemSettings :
       ModemSettings[i][2] # HW3000_REG_FIFOSTA =>
         \/ RegisterOf(c, BANK0, ModemSettings[i][2]) = ModemSettings[i][3]
         \/ \E k \in DOMAIN s : s[k] = ModemSettings[i]

Bank1Holds(c) ==
    \A i \in 1 .. 24 : RegisterOf(c, BANK1, Bank1Constants[i][2]) = Bank1Constants[i][3]

Configured(s, c, st, channel) ==
    /\ c.ready /\ c.bank = BANK0 /\ AllFine(s) /\ Bank1Holds(c) /\ ModemWillHold(s, c)
    /\ WillHold(s, c, HW3000_REG_TRCTRL, \h0080)
    /\ WillHold(s, c, HW3000_REG_LEN0PKLEN, \h000d)
    /\ WillHold(s, c, HW3000_REG_CHCFG0, (channel % 64) * 256)
    /\ Ends(s, Assign("RX")) \/ (Without(s, Assign("RX")) /\ st = "RX")

\* A write to bank 0, as the chip sees it
Moves(c, d, reg, val) ==
    /\ RegisterOf(d, BANK0, reg) = val
    /\ \A b, r : b # BANK0 \/ r # reg => RegisterOf(d, b, r) = RegisterOf(c, b, r)

SameRegisters(c, d) == \A b, r : RegisterOf(d, b, r) = RegisterOf(c, b, r)

\* A write to the register is the one, or comes before the one, that counts.
LEMMA WillHoldStep ==
    ASSUME NEW s, NEW s2, Advances(s, s2), s[1][1] = "write",
           NEW c, NEW d, Moves(c, d, s[1][2], s[1][3]),
           NEW reg, NEW val, WillHold(s, c, reg, val)
    PROVE  WillHold(s2, d, reg, val)
<1> DEFINE t == Write(reg, val)
<1>1. /\ t[1] = "write" /\ t[2] = reg /\ t[3] = val
      /\ Concerns(s[1], t) <=> s[1][2] = reg
  BY DEF Write, Concerns
<1>2. CASE Ends(s, t)
  <2>1. Ends(s2, t) \/ (s[1] = t /\ Without(s2, t))
    BY <1>2, StepDone
  <2>2. s[1] = t => RegisterOf(d, BANK0, reg) = val
    BY <1>1 DEF Moves
  <2> QED BY <2>1, <2>2 DEF WillHold
<1>3. CASE Without(s, t) /\ RegisterOf(c, BANK0, reg) = val
  <2>1. Without(s2, t) /\ s[1][2] # reg
    BY <1>1, <1>3, StepDone
  <2> QED BY <1>3, <2>1 DEF WillHold, Moves
<1> QED BY <1>2, <1>3 DEF WillHold

\* What writes no register changes nothing.
LEMMA WillHoldKept ==
    ASSUME NEW s, NEW s2, Waits(s, s2) \/ (Advances(s, s2) /\ s[1][1] # "write"),
           NEW c, NEW d, SameRegisters(c, d),
           NEW reg, NEW val, WillHold(s, c, reg, val)
    PROVE  WillHold(s2, d, reg, val)
<1> DEFINE t == Write(reg, val)
<1>1. t[1] = "write" /\ t[1] \notin Waiting
  BY DEF Write, Waiting
<1>2. RegisterOf(d, BANK0, reg) = RegisterOf(c, BANK0, reg)
  BY DEF SameRegisters
<1>3. CASE Waits(s, s2)
  BY <1>1, <1>2, <1>3, WaitGoesOn DEF WillHold
<1>4. CASE Advances(s, s2) /\ s[1][1] # "write"
  BY <1>1, <1>2, <1>4, StepDone DEF WillHold
<1> QED BY <1>3, <1>4

\* A write
LEMMA ConfiguredWrites ==
    ASSUME NEW s, NEW s2, Advances(s, s2), s[1][1] = "write", NEW c, NEW d, NEW st, NEW channel,
           Configured(s, c, st, channel), Written(c, d, s[1][2], s[1][3])
    PROVE  Configured(s2, d, st, channel) /\ Moves(c, d, s[1][2], s[1][3])
<1> DEFINE r == s[1][2]
           v == s[1][3]
<1>1. c.ready /\ c.bank = BANK0 /\ Fine(s[1]) /\ AllFine(s2)
  BY StepDone DEF Configured
<1>2. r # HW3000_REG_BANKSEL
  BY <1>1 DEF Fine
<1>3. d.ready /\ d.bank = BANK0 /\ Moves(c, d, r, v)
  BY <1>1, <1>2 DEF Written, Moves
<1>4. Bank1Holds(d)
  BY <1>3, Banks DEF Configured, Bank1Holds, Moves
<1>5. ModemWillHold(s2, d)
  <2> SUFFICES ASSUME NEW i \in DOMAIN ModemSettings, ModemSettings[i][2] # HW3000_REG_FIFOSTA
               PROVE  \/ RegisterOf(d, BANK0, ModemSettings[i][2]) = ModemSettings[i][3]
                      \/ \E k \in DOMAIN s2 : s2[k] = ModemSettings[i]
      BY DEF ModemWillHold
  <2> DEFINE m == ModemSettings[i]
  <2>1. m \in Table
    BY TableIs
  <2>2. CASE m[2] = r
    <3>1. m[3] = v
      BY <1>1, <2>1, <2>2 DEF Fine
    <3> QED BY <1>3, <2>2, <3>1 DEF Moves
  <2>3. CASE m[2] # r
    <3>1. RegisterOf(d, BANK0, m[2]) = RegisterOf(c, BANK0, m[2])
      BY <1>3, <2>3 DEF Moves
    <3>2. RegisterOf(c, BANK0, m[2]) = m[3] \/ \E k \in DOMAIN s : s[k] = m
      BY DEF Configured, ModemWillHold
    <3>3. s[1] # m
      BY <2>3
    <3> QED BY <3>1, <3>2, <3>3, StepDone
  <2> QED BY <2>2, <2>3
<1>6. /\ WillHold(s2, d, HW3000_REG_TRCTRL, \h0080)
      /\ WillHold(s2, d, HW3000_REG_LEN0PKLEN, \h000d)
      /\ WillHold(s2, d, HW3000_REG_CHCFG0, (channel % 64) * 256)
  BY <1>3, WillHoldStep DEF Configured
<1>7. Ends(s2, Assign("RX")) \/ (Without(s2, Assign("RX")) /\ st = "RX")
  <2>1. s[1] # Assign("RX")
    BY DEF Assign
  <2> QED BY <2>1, StepDone DEF Configured
<1> QED BY <1>1, <1>3, <1>4, <1>5, <1>6, <1>7 DEF Configured

SameChip(c, d) ==
    /\ d.ready = c.ready /\ d.bank = c.bank /\ d.sending = c.sending /\ d.out = c.out
    /\ SameRegisters(c, d)

\* A step that writes no register and does not assign the state
LEMMA ConfiguredKept ==
    ASSUME NEW s, NEW s2,
           Waits(s, s2) \/ (Advances(s, s2) /\ s[1][1] \notin {"write", "state"}),
           NEW c, NEW d, NEW st, NEW channel,
           Configured(s, c, st, channel),
           d.ready = c.ready, d.bank = c.bank, SameRegisters(c, d)
    PROVE  Configured(s2, d, st, channel)
<1>0. Waits(s, s2) \/ (Advances(s, s2) /\ s[1][1] # "write")
  OBVIOUS
<1>1. d.ready /\ d.bank = BANK0 /\ AllFine(s2)
  BY StepDone, WaitGoesOn DEF Configured
<1>2. Bank1Holds(d)
  BY DEF Configured, Bank1Holds, SameRegisters
<1>3. ModemWillHold(s2, d)
  <2> SUFFICES ASSUME NEW i \in DOMAIN ModemSettings, ModemSettings[i][2] # HW3000_REG_FIFOSTA
               PROVE  \/ RegisterOf(d, BANK0, ModemSettings[i][2]) = ModemSettings[i][3]
                      \/ \E k \in DOMAIN s2 : s2[k] = ModemSettings[i]
      BY DEF ModemWillHold
  <2> DEFINE m == ModemSettings[i]
  <2>1. m[1] = "write"
    BY TableIs
  <2>2. m[1] \notin Waiting
    BY <2>1 DEF Waiting
  <2>3. RegisterOf(c, BANK0, m[2]) = m[3] \/ \E k \in DOMAIN s : s[k] = m
    BY DEF Configured, ModemWillHold
  <2>4. RegisterOf(d, BANK0, m[2]) = RegisterOf(c, BANK0, m[2])
    BY DEF SameRegisters
  <2> HIDE DEF m
  <2>5. (\E k \in DOMAIN s : s[k] = m) => \E k \in DOMAIN s2 : s2[k] = m
    <3>1. CASE Waits(s, s2)
      BY <2>2, <3>1, WaitGoesOn
    <3>2. CASE Advances(s, s2) /\ s[1][1] # "write"
      <4>1. s[1] # m
        BY <2>1, <3>2
      <4> QED BY <3>2, <4>1, StepDone
    <3> QED BY <1>0, <3>1, <3>2
  <2> QED BY <2>3, <2>4, <2>5 DEF m
<1>4. /\ WillHold(s2, d, HW3000_REG_TRCTRL, \h0080)
      /\ WillHold(s2, d, HW3000_REG_LEN0PKLEN, \h000d)
      /\ WillHold(s2, d, HW3000_REG_CHCFG0, (channel % 64) * 256)
  BY <1>0, WillHoldKept DEF Configured
<1>5. Ends(s2, Assign("RX")) \/ (Without(s2, Assign("RX")) /\ st = "RX")
  <2>1. Assign("RX")[1] = "state" /\ Assign("RX")[1] \notin Waiting
    BY DEF Assign, Waiting
  <2>2. Ends(s, Assign("RX")) => Ends(s2, Assign("RX"))
    <3>1. CASE Waits(s, s2)
      BY <2>1, <3>1, WaitGoesOn
    <3>2. CASE Advances(s, s2) /\ s[1][1] \notin {"write", "state"}
      <4>1. s[1] # Assign("RX")
        BY <2>1, <3>2
      <4> QED BY <3>2, <4>1, StepDone
    <3> QED BY <3>1, <3>2
  <2>3. Without(s, Assign("RX")) => Without(s2, Assign("RX"))
    BY <2>1, StepDone, WaitGoesOn
  <2> QED BY <2>2, <2>3 DEF Configured
<1> QED BY <1>1, <1>2, <1>3, <1>4, <1>5 DEF Configured

\* An assignment to the state
LEMMA ConfiguredAssigns ==
    ASSUME NEW s, NEW s2, Advances(s, s2), s[1][1] = "state", NEW c, NEW st, NEW channel,
           Configured(s, c, st, channel)
    PROVE  Configured(s2, c, s[1][2], channel)
<1>1. SameRegisters(c, c) /\ s[1][1] # "write"
  BY DEF SameRegisters
<1>2. c.ready /\ c.bank = BANK0 /\ AllFine(s2) /\ Bank1Holds(c)
  BY StepDone DEF Configured
<1>3. ModemWillHold(s2, c)
  <2> SUFFICES ASSUME NEW i \in DOMAIN ModemSettings, ModemSettings[i][2] # HW3000_REG_FIFOSTA
               PROVE  \/ RegisterOf(c, BANK0, ModemSettings[i][2]) = ModemSettings[i][3]
                      \/ \E k \in DOMAIN s2 : s2[k] = ModemSettings[i]
      BY DEF ModemWillHold
  <2>1. ModemSettings[i][1] = "write"
    BY TableIs
  <2>2. \/ RegisterOf(c, BANK0, ModemSettings[i][2]) = ModemSettings[i][3]
        \/ \E k \in DOMAIN s : s[k] = ModemSettings[i]
    BY DEF Configured, ModemWillHold
  <2>3. s[1] # ModemSettings[i]
    BY <2>1, <1>1
  <2> QED BY <2>2, <2>3, StepDone
<1>4. /\ WillHold(s2, c, HW3000_REG_TRCTRL, \h0080)
      /\ WillHold(s2, c, HW3000_REG_LEN0PKLEN, \h000d)
      /\ WillHold(s2, c, HW3000_REG_CHCFG0, (channel % 64) * 256)
  BY <1>1, WillHoldKept DEF Configured
<1>5. Ends(s2, Assign("RX")) \/ (Without(s2, Assign("RX")) /\ s[1][2] = "RX")
  <2>1. Assign("RX")[2] = "RX" /\ Concerns(s[1], Assign("RX"))
    BY DEF Assign, Concerns
  <2> QED BY <2>1, StepDone DEF Configured
<1> QED BY <1>2, <1>3, <1>4, <1>5 DEF Configured

-----------------------------------------------------------------------------
(* The calls of the loop *)

\* The settings of the table do not contradict each other.
LEMMA TableFine == \A m \in Table : Fine(m)
<1> SUFFICES ASSUME NEW m \in Table PROVE Fine(m)
    OBVIOUS
<1>1. /\ m[1] = "write" /\ m[2] \in 0 .. 127 /\ m[3] \in Words /\ m[2] # HW3000_REG_BANKSEL
      /\ \A n \in Table : n[2] = m[2] => n[3] = m[3]
  BY TableIs
<1> QED BY <1>1 DEF Fine

LEMMA MovingFine ==
    ASSUME NEW r \in Moving \cup {HW3000_REG_FIFOSTA}, NEW v \in Words
    PROVE  Fine(Write(r, v))
<1>1. r \in 0 .. 127 /\ r # HW3000_REG_BANKSEL
  BY DEF Moving, HW3000_REG_TRCTRL, HW3000_REG_FIFOCTRL, HW3000_REG_LEN0PKLEN,
         HW3000_REG_RXPHR1, HW3000_REG_CHCFG0, HW3000_REG_RCCFG1, HW3000_REG_BANKSEL,
         HW3000_REG_FIFOSTA
<1>2. Write(r, v)[1] = "write" /\ Write(r, v)[2] = r /\ Write(r, v)[3] = v
  BY DEF Write
<1>3. \A m \in Table : m[2] = r => m[2] = HW3000_REG_FIFOSTA
  BY TableIs
<1> QED BY <1>1, <1>2, <1>3 DEF Fine

LEMMA OthersFine == \A op : op[1] \notin {"write", "bytes", "power", "ready"} => Fine(op)
BY DEF Fine

LEMMA SomeWords ==
    /\ 0 \in Words /\ 1 \in Words /\ \h000d \in Words /\ \h0016 \in Words /\ \h002b \in Words
    /\ \h0080 \in Words /\ \h0100 \in Words /\ \h0200 \in Words /\ \h8000 \in Words
BY SMT DEF Words

\* A change of channel moves none of the modem's settings.
LEMMA ChangeFine ==
    ASSUME NEW channel \in 0 .. 255, NEW i \in 1 .. 10
    PROVE  Fine(Change(channel)[i])
<1> DEFINE frequency == (channel % 64) * 256
<1>1. frequency \in Words
  <2>1. frequency \in Nat /\ frequency <= 65535
    BY SMT
  <2> QED BY <2>1, InWords
<1> HIDE DEF frequency
<1>2. \A r \in Moving \cup {HW3000_REG_FIFOSTA} : \A v \in Words : Fine(Write(r, v))
  BY MovingFine
<1>3. Fine(Assign("IDLE")) /\ Fine(Assign("RX")) /\ Fine(<<"calibrated", CAL_TRIES>>)
  BY OthersFine DEF Assign
<1>4. /\ Fine(Write(HW3000_REG_TRCTRL, 0)) /\ Fine(Write(HW3000_REG_RXPHR1, 1))
      /\ Fine(Write(HW3000_REG_CHCFG0, frequency)) /\ Fine(Write(HW3000_REG_LEN0PKLEN, \h000d))
      /\ Fine(Write(HW3000_REG_TRCTRL, \h0080)) /\ Fine(Write(HW3000_REG_FIFOSTA, \h0200))
      /\ Fine(Write(HW3000_REG_RCCFG1, \h002b))
  <2>1. /\ HW3000_REG_TRCTRL \in Moving /\ HW3000_REG_RXPHR1 \in Moving
        /\ HW3000_REG_CHCFG0 \in Moving /\ HW3000_REG_LEN0PKLEN \in Moving
        /\ HW3000_REG_RCCFG1 \in Moving
    BY DEF Moving
  <2> QED BY <1>1, <1>2, <2>1, SomeWords
<1>5. LET t == Change(channel)
      IN  /\ t[1] = Write(HW3000_REG_TRCTRL, 0) /\ t[2] = Write(HW3000_REG_RXPHR1, 1)
          /\ t[3] = Assign("IDLE") /\ t[4] = Write(HW3000_REG_CHCFG0, frequency)
          /\ t[5] = Write(HW3000_REG_LEN0PKLEN, \h000d) /\ t[6] = Write(HW3000_REG_TRCTRL, \h0080)
          /\ t[7] = Write(HW3000_REG_FIFOSTA, \h0200) /\ t[8] = Assign("RX")
          /\ t[9] = Write(HW3000_REG_RCCFG1, \h002b) /\ t[10] = <<"calibrated", CAL_TRIES>>
  BY DEF Change, frequency
<1>6. LET t == Change(channel)
      IN  /\ Fine(t[1]) /\ Fine(t[2]) /\ Fine(t[3]) /\ Fine(t[4]) /\ Fine(t[5])
          /\ Fine(t[6]) /\ Fine(t[7]) /\ Fine(t[8]) /\ Fine(t[9]) /\ Fine(t[10])
  BY <1>3, <1>4, <1>5
<1> QED BY <1>6

\* Sending a reply moves none of the modem's settings.
LEMMA SendFine == \A i \in 1 .. 13 : Fine(Send[i])
<1>2. \A r \in Moving \cup {HW3000_REG_FIFOSTA} : \A v \in Words : Fine(Write(r, v))
  BY MovingFine
<1>3. Fine(Assign("IDLE")) /\ Fine(<<"start">>)
  BY OthersFine DEF Assign
<1>4. Fine(<<"bytes", HW3000_REG_FIFODATA, Reply>>)
  BY DEF Fine
<1>5. /\ Fine(Write(HW3000_REG_TRCTRL, 0)) /\ Fine(Write(HW3000_REG_RXPHR1, 1))
      /\ Fine(Write(HW3000_REG_TRCTRL, \h0100)) /\ Fine(Write(HW3000_REG_FIFOSTA, \h0100))
      /\ Fine(Write(HW3000_REG_LEN0PKLEN, \h0016)) /\ Fine(Write(HW3000_REG_FIFOCTRL, 1))
      /\ Fine(Write(HW3000_REG_FIFOCTRL, 0))
  <2>1. /\ HW3000_REG_TRCTRL \in Moving /\ HW3000_REG_RXPHR1 \in Moving
        /\ HW3000_REG_LEN0PKLEN \in Moving /\ HW3000_REG_FIFOCTRL \in Moving
    BY DEF Moving
  <2> QED BY <1>2, <2>1, SomeWords
<1>6. /\ Send[1] = Write(HW3000_REG_TRCTRL, 0) /\ Send[2] = Write(HW3000_REG_RXPHR1, 1)
      /\ Send[3] = Assign("IDLE") /\ Send[4] = Write(HW3000_REG_TRCTRL, \h0100)
      /\ Send[5] = Write(HW3000_REG_FIFOSTA, \h0100)
      /\ Send[6] = Write(HW3000_REG_LEN0PKLEN, \h0016)
      /\ Send[7] = <<"bytes", HW3000_REG_FIFODATA, Reply>>
      /\ Send[8] = Write(HW3000_REG_FIFOCTRL, 1) /\ Send[9] = <<"start">>
      /\ Send[10] = Write(HW3000_REG_FIFOCTRL, 0)
      /\ Send[11] = Write(HW3000_REG_RXPHR1, 1) /\ Send[12] = Write(HW3000_REG_TRCTRL, 0)
      /\ Send[13] = Assign("IDLE")
  BY DEF Send
<1>7. /\ Fine(Send[1]) /\ Fine(Send[2]) /\ Fine(Send[3]) /\ Fine(Send[4]) /\ Fine(Send[5])
      /\ Fine(Send[6]) /\ Fine(Send[7]) /\ Fine(Send[8]) /\ Fine(Send[9]) /\ Fine(Send[10])
      /\ Fine(Send[11]) /\ Fine(Send[12]) /\ Fine(Send[13])
  BY <1>3, <1>4, <1>5, <1>6
<1> QED BY <1>7

\* What ends in a change of channel leaves the receiver on that channel.
LEMMA ChangeEnds ==
    ASSUME NEW s, NEW n \in Nat, NEW channel, DOMAIN s = 1 .. n + 10, Holding(s, n, Change(channel))
    PROVE  /\ Ends(s, Write(HW3000_REG_TRCTRL, \h0080))
           /\ Ends(s, Write(HW3000_REG_LEN0PKLEN, \h000d))
           /\ Ends(s, Write(HW3000_REG_CHCFG0, (channel % 64) * 256))
           /\ Ends(s, Assign("RX"))
<1> DEFINE frequency == (channel % 64) * 256
           t == Change(channel)
<1>0. DOMAIN t = 1 .. 10
  BY DEF Change
<1> HIDE DEF t
<1>1. \A i \in 1 .. 10 : s[n + i] = t[i]
  BY <1>0 DEF Holding, t
<1>2. ASSUME NEW k \in 1 .. 10, NEW op, t[k] = op, \A i \in 1 .. 10 : i > k => ~Concerns(t[i], op)
      PROVE  Ends(s, op)
  <2>1. n + k \in DOMAIN s
    OBVIOUS
  <2>4. s[n + k] = op
    BY <1>1, <1>2
  <2>2. \A j \in DOMAIN s : j > n + k => j - n \in 1 .. 10 /\ j - n > k /\ s[j] = t[j - n]
    <3> SUFFICES ASSUME NEW j \in 1 .. n + 10, j > n + k
                 PROVE  j - n \in 1 .. 10 /\ j - n > k /\ s[j] = t[j - n]
        OBVIOUS
    <3>1. j - n \in 1 .. 10 /\ j - n > k /\ n + (j - n) = j
      OBVIOUS
    <3> QED BY <1>1, <3>1
  <2>3. \A j \in DOMAIN s : j > n + k => ~Concerns(s[j], op)
    BY <1>2, <2>2
  <2> QED BY <2>1, <2>3, <2>4 DEF Ends
<1> USE DEF Write, Assign, Concerns, HW3000_REG_TRCTRL, HW3000_REG_LEN0PKLEN, HW3000_REG_CHCFG0,
            HW3000_REG_FIFOSTA, HW3000_REG_RCCFG1, HW3000_REG_RXPHR1
<1>3. Ends(s, Write(HW3000_REG_TRCTRL, \h0080))
  <2>1. /\ t[6] = Write(HW3000_REG_TRCTRL, \h0080)
        /\ \A i \in 1 .. 10 : i > 6 => ~Concerns(t[i], Write(HW3000_REG_TRCTRL, \h0080))
    BY DEF t, Change
  <2> HIDE DEF Write, Concerns
  <2> QED BY <1>2, <2>1
<1>4. Ends(s, Write(HW3000_REG_LEN0PKLEN, \h000d))
  <2>1. /\ t[5] = Write(HW3000_REG_LEN0PKLEN, \h000d)
        /\ \A i \in 1 .. 10 : i > 5 => ~Concerns(t[i], Write(HW3000_REG_LEN0PKLEN, \h000d))
    BY DEF t, Change
  <2> HIDE DEF Write, Concerns
  <2> QED BY <1>2, <2>1
<1>5. Ends(s, Write(HW3000_REG_CHCFG0, frequency))
  <2>1. /\ t[4] = Write(HW3000_REG_CHCFG0, frequency)
        /\ \A i \in 1 .. 10 : i > 4 => ~Concerns(t[i], Write(HW3000_REG_CHCFG0, frequency))
    BY DEF t, Change
  <2> HIDE DEF Write, Concerns, frequency
  <2> QED BY <1>2, <2>1
<1>6. Ends(s, Assign("RX"))
  <2>1. t[8] = Assign("RX") /\ \A i \in 1 .. 10 : i > 8 => ~Concerns(t[i], Assign("RX"))
    BY DEF t, Change
  <2> HIDE DEF Write, Assign, Concerns
  <2> QED BY <1>2, <2>1
<1> QED BY <1>3, <1>4, <1>5, <1>6

\* When nothing is left to be done, every register holds what it was to hold.
LEMMA NothingLeft ==
    ASSUME NEW c, NEW st, NEW channel, Configured(<<>>, c, st, channel)
    PROVE  /\ c.ready /\ c.bank = BANK0 /\ Bank1Holds(c)
           /\ \A i \in DOMAIN ModemSettings :
                ModemSettings[i][2] # HW3000_REG_FIFOSTA =>
                  RegisterOf(c, BANK0, ModemSettings[i][2]) = ModemSettings[i][3]
           /\ RegisterOf(c, BANK0, HW3000_REG_TRCTRL) = \h0080
           /\ RegisterOf(c, BANK0, HW3000_REG_LEN0PKLEN) = \h000d
           /\ RegisterOf(c, BANK0, HW3000_REG_CHCFG0) = (channel % 64) * 256
           /\ st = "RX"
<1>1. DOMAIN <<>> = {}
  OBVIOUS
<1>2. \A t : ~Ends(<<>>, t)
  BY <1>1 DEF Ends
<1>3. \A i \in DOMAIN ModemSettings :
                ModemSettings[i][2] # HW3000_REG_FIFOSTA =>
                  RegisterOf(c, BANK0, ModemSettings[i][2]) = ModemSettings[i][3]
  BY <1>1, Zenon DEF Configured, ModemWillHold
<1> QED BY <1>2, <1>3 DEF Configured, WillHold

\* A call that ends in a change of channel
LEMMA CallConfigured ==
    ASSUME NEW c, NEW st, NEW old, Configured(<<>>, c, st, old),
           NEW s, NEW n \in Nat, NEW channel, DOMAIN s = 1 .. n + 10, AllFine(s),
           Holding(s, n, Change(channel))
    PROVE  Configured(s, c, st, channel)
BY NothingLeft, ChangeEnds DEF Configured, WillHold, ModemWillHold

\* A call that has nothing to do with the radio
LEMMA OtherCallConfigured ==
    ASSUME NEW c, NEW st, NEW channel, Configured(<<>>, c, st, channel),
           NEW s, \A k \in DOMAIN s : s[k][1] \notin {"write", "bytes", "power", "ready", "state"}
    PROVE  Configured(s, c, st, channel)
<1>1. AllFine(s)
  BY OthersFine DEF AllFine
<1>2. \A r, v : Without(s, Write(r, v))
  BY DEF Without, Concerns, Write
<1>3. Without(s, Assign("RX"))
  BY DEF Without, Concerns, Assign
<1>4. ModemWillHold(s, c)
  BY NothingLeft DEF ModemWillHold
<1>5. /\ WillHold(s, c, HW3000_REG_TRCTRL, \h0080)
      /\ WillHold(s, c, HW3000_REG_LEN0PKLEN, \h000d)
      /\ WillHold(s, c, HW3000_REG_CHCFG0, (channel % 64) * 256)
  BY <1>2, NothingLeft DEF WillHold
<1>6. c.ready /\ c.bank = BANK0 /\ Bank1Holds(c) /\ st = "RX"
  BY NothingLeft
<1> QED BY <1>1, <1>3, <1>4, <1>5, <1>6 DEF Configured

-----------------------------------------------------------------------------
(* Sending the reply *)

StartSending == Write(HW3000_REG_FIFOCTRL, 1)

Quiet(s, c) == ~c.sending /\ Without(s, StartSending)

\* What is being sent is the whole reply, at the reply's length.
Sound(c) ==
    c.sending =>
      /\ RegisterOf(c, BANK0, HW3000_REG_TRCTRL) = \h0100
      /\ RegisterOf(c, BANK0, HW3000_REG_LEN0PKLEN) = \h0016
      /\ c.out = Reply

\* s goes on with step k of Send, and nothing after step 10 starts it again.
AtStep(k, s) ==
    /\ \A j \in 1 .. 11 - k :
         j \in DOMAIN s /\ (s[j] = Send[k - 1 + j] \/ (k = 9 /\ j = 1 /\ s[1][1] = "sent"))
    /\ \A j \in DOMAIN s : j > 11 - k => ~Concerns(s[j], StartSending)

\* Before step k of Send
Sending(k, s, c) ==
    /\ AtStep(k, s)
    /\ c.sending => k \in {9, 10}
    /\ k >= 5 => RegisterOf(c, BANK0, HW3000_REG_TRCTRL) = \h0100
    /\ k >= 7 => RegisterOf(c, BANK0, HW3000_REG_LEN0PKLEN) = \h0016
    /\ k >= 8 => c.out = Reply

\* What the step op does to the chip
Effect(op, c, d) ==
    /\ op[1] = "write" => Written(c, d, op[2], op[3])
    /\ op[1] = "bytes" => /\ d.ready = c.ready /\ d.bank = c.bank /\ d.sending = c.sending
                          /\ SameRegisters(c, d)
                          /\ c.ready => d.out = op[3]
    /\ op[1] \notin {"write", "bytes"} => SameChip(c, d)

\* The registers that a reply writes are different ones.
LEMMA RegistersDiffer ==
    /\ HW3000_REG_TRCTRL # HW3000_REG_FIFOCTRL /\ HW3000_REG_RXPHR1 # HW3000_REG_FIFOCTRL
    /\ HW3000_REG_FIFOSTA # HW3000_REG_FIFOCTRL /\ HW3000_REG_LEN0PKLEN # HW3000_REG_FIFOCTRL
    /\ HW3000_REG_TRCTRL # HW3000_REG_FIFOSTA /\ HW3000_REG_TRCTRL # HW3000_REG_LEN0PKLEN
    /\ HW3000_REG_LEN0PKLEN # HW3000_REG_FIFOSTA
    /\ HW3000_REG_TRCTRL # HW3000_REG_BANKSEL /\ HW3000_REG_RXPHR1 # HW3000_REG_BANKSEL
    /\ HW3000_REG_FIFOSTA # HW3000_REG_BANKSEL /\ HW3000_REG_LEN0PKLEN # HW3000_REG_BANKSEL
    /\ HW3000_REG_FIFOCTRL # HW3000_REG_BANKSEL
BY SMT DEF HW3000_REG_TRCTRL, HW3000_REG_FIFOCTRL, HW3000_REG_RXPHR1, HW3000_REG_FIFOSTA,
       HW3000_REG_LEN0PKLEN, HW3000_REG_BANKSEL

\* Nothing but a start makes the chip send.
LEMMA StaysQuiet ==
    ASSUME NEW s, NEW s2, NEW c, NEW d, Advances(s, s2) \/ Waits(s, s2), Quiet(s, c),
           Advances(s, s2) => Effect(s[1], c, d), Waits(s, s2) => SameChip(c, d)
    PROVE  Quiet(s2, d)
<1>1. StartSending[1] = "write" /\ StartSending[2] = HW3000_REG_FIFOCTRL
  BY DEF StartSending, Write
<1>2. CASE Waits(s, s2)
  <2>1. StartSending[1] \notin Waiting
    BY <1>1 DEF Waiting
  <2> QED BY <1>2, <2>1, WaitGoesOn DEF Quiet, SameChip
<1>3. CASE Advances(s, s2)
  <2>1. ~Concerns(s[1], StartSending) /\ Without(s2, StartSending)
    BY <1>3, StepDone DEF Quiet
  <2>2. CASE s[1][1] = "write"
    <3>1. s[1][2] # HW3000_REG_FIFOCTRL /\ Written(c, d, s[1][2], s[1][3])
      BY <1>1, <1>3, <2>1, <2>2 DEF Concerns, Effect
    <3>2. CASE c.ready
      <4>1. d.sending = c.sending
        BY <3>1, <3>2, Zenon DEF Written
      <4> QED BY <2>1, <4>1 DEF Quiet
    <3>3. CASE ~c.ready
      BY <2>1, <3>1, <3>3 DEF Written, Quiet
    <3> QED BY <3>2, <3>3
  <2>3. CASE s[1][1] # "write"
    BY <1>3, <2>1, <2>3 DEF Effect, SameChip, Quiet
  <2> QED BY <2>2, <2>3
<1> QED BY <1>2, <1>3

\* The step to be made is the k-th of the reply, and k + 1 comes next.
LEMMA NextStep ==
    ASSUME NEW s, NEW s2, Advances(s, s2), NEW k \in 1 .. 10, AtStep(k, s)
    PROVE  /\ s[1] = Send[k] \/ (k = 9 /\ s[1][1] = "sent")
           /\ k < 10 => AtStep(k + 1, s2)
           /\ k = 10 => Without(s2, StartSending)
<1>1. s[1] = Send[k] \/ (k = 9 /\ s[1][1] = "sent")
  <2>1. 1 \in 1 .. 11 - k /\ k - 1 + 1 = k
    OBVIOUS
  <2> QED BY <2>1 DEF AtStep
<1>2. \A j \in DOMAIN s2 : j > 10 - k => ~Concerns(s2[j], StartSending)
  <2> SUFFICES ASSUME NEW j \in DOMAIN s2, j > 10 - k PROVE ~Concerns(s2[j], StartSending)
      OBVIOUS
  <2>1. j \in Nat /\ j + 1 \in DOMAIN s /\ s2[j] = s[j + 1]
    BY DEF Advances
  <2>2. j + 1 > 11 - k
    BY <2>1
  <2> QED BY <2>1, <2>2 DEF AtStep
<1>3. ASSUME k < 10, NEW j \in 1 .. 11 - (k + 1)
      PROVE  j \in DOMAIN s2 /\ s2[j] = Send[k + 1 - 1 + j]
  <2>1. j + 1 \in 1 .. 11 - k /\ j + 1 # 1 /\ j + 1 - 1 = j /\ k - 1 + (j + 1) = k + 1 - 1 + j
    OBVIOUS
  <2>2. j + 1 \in DOMAIN s /\ s[j + 1] = Send[k - 1 + (j + 1)]
    BY <2>1 DEF AtStep
  <2>3. j + 1 - 1 \in DOMAIN s2 /\ s2[j + 1 - 1] = s[j + 1]
    BY <2>1, <2>2 DEF Advances
  <2> QED BY <2>1, <2>2, <2>3
<1>4. k < 10 => AtStep(k + 1, s2)
  <2>1. 11 - (k + 1) = 10 - k
    OBVIOUS
  <2> QED BY <1>2, <1>3, <2>1 DEF AtStep
<1>5. k = 10 => Without(s2, StartSending)
  <2>1. \A j \in DOMAIN s2 : j > 0
    BY DEF Advances
  <2> QED BY <1>2, <2>1 DEF Without
<1> QED BY <1>1, <1>4, <1>5

\* One step of a reply after the other
LEMMA SendingGoesOn ==
    ASSUME NEW s, NEW s2, NEW c, NEW d, NEW k \in 1 .. 10, Sending(k, s, c),
           Advances(s, s2), Effect(s[1], c, d), c.ready, c.bank = BANK0
    PROVE  Quiet(s2, d) \/ \E i \in 1 .. 10 : Sending(i, s2, d)
<1>0. /\ s[1] = Send[k] \/ (k = 9 /\ s[1][1] = "sent")
      /\ k < 10 => AtStep(k + 1, s2)
      /\ k = 10 => Without(s2, StartSending)
  BY NextStep DEF Sending
<1>1. \A r, v : s[1] = Write(r, v) /\ r # HW3000_REG_BANKSEL =>
           /\ Moves(c, d, r, v)
           /\ r # HW3000_REG_FIFOSTA => d.out = c.out
           /\ r # HW3000_REG_FIFOCTRL => d.sending = c.sending
           /\ r = HW3000_REG_FIFOCTRL => d.sending = (v = 1)
  <2> SUFFICES ASSUME NEW r, NEW v, s[1] = Write(r, v), r # HW3000_REG_BANKSEL
               PROVE  /\ Moves(c, d, r, v)
                      /\ r # HW3000_REG_FIFOSTA => d.out = c.out
                      /\ r # HW3000_REG_FIFOCTRL => d.sending = c.sending
                      /\ r = HW3000_REG_FIFOCTRL => d.sending = (v = 1)
      OBVIOUS
  <2>1. Written(c, d, r, v)
    BY DEF Effect, Write
  <2>2. Moves(c, d, r, v) /\ (r # HW3000_REG_FIFOSTA => d.out = c.out)
    BY <2>1 DEF Written, Moves
  <2>3. r # HW3000_REG_FIFOCTRL => d.sending = c.sending
    BY <2>1, Zenon DEF Written
  <2>4. r = HW3000_REG_FIFOCTRL => d.sending = (v = 1)
    BY <2>1, Zenon DEF Written
  <2> QED BY <2>2, <2>3, <2>4
<1>2. CASE k \in {1, 2, 3}
  <2>1. d.sending = c.sending
    <3>1. CASE k = 1
      BY <1>0, <1>1, <3>1, RegistersDiffer DEF Send
    <3>2. CASE k = 2
      BY <1>0, <1>1, <3>2, RegistersDiffer DEF Send
    <3>3. CASE k = 3
      <4>1. s[1] = Assign("IDLE")
        BY <1>0, <3>3 DEF Send
      <4>2. s[1][1] = "state"
        BY <4>1 DEF Assign
      <4> QED BY <4>2 DEF Effect, SameChip
    <3> QED BY <1>2, <3>1, <3>2, <3>3
  <2>2. ~c.sending
    BY <1>2 DEF Sending
  <2>3. AtStep(k + 1, s2) /\ k + 1 \in 1 .. 4
    BY <1>0, <1>2
  <2>4. Sending(k + 1, s2, d)
    BY <2>1, <2>2, <2>3 DEF Sending
  <2> QED BY <2>3, <2>4
<1>3. CASE k = 4
  <2>1. s[1] = Write(HW3000_REG_TRCTRL, \h0100) /\ AtStep(5, s2)
    BY <1>0, <1>3 DEF Send
  <2>2. RegisterOf(d, BANK0, HW3000_REG_TRCTRL) = \h0100 /\ d.sending = c.sending
    BY <1>1, <2>1, RegistersDiffer DEF Moves
  <2>3. Sending(5, s2, d)
    BY <1>3, <2>1, <2>2 DEF Sending
  <2> QED BY <2>3
<1>4. CASE k = 5
  <2>1. s[1] = Write(HW3000_REG_FIFOSTA, \h0100) /\ AtStep(6, s2)
    BY <1>0, <1>4 DEF Send
  <2>2. RegisterOf(d, BANK0, HW3000_REG_TRCTRL) = \h0100 /\ d.sending = c.sending
    BY <1>1, <1>4, <2>1, RegistersDiffer DEF Moves, Sending
  <2>3. Sending(6, s2, d)
    BY <1>4, <2>1, <2>2 DEF Sending
  <2> QED BY <2>3
<1>5. CASE k = 6
  <2>1. s[1] = Write(HW3000_REG_LEN0PKLEN, \h0016) /\ AtStep(7, s2)
    BY <1>0, <1>5 DEF Send
  <2>2. /\ RegisterOf(d, BANK0, HW3000_REG_TRCTRL) = \h0100 /\ d.sending = c.sending
        /\ RegisterOf(d, BANK0, HW3000_REG_LEN0PKLEN) = \h0016
    BY <1>1, <1>5, <2>1, RegistersDiffer DEF Moves, Sending
  <2>3. Sending(7, s2, d)
    BY <1>5, <2>1, <2>2 DEF Sending
  <2> QED BY <2>3
<1>6. CASE k = 7
  <2>1. s[1] = <<"bytes", HW3000_REG_FIFODATA, Reply>> /\ AtStep(8, s2)
    BY <1>0, <1>6 DEF Send
  <2>2. d.out = Reply /\ d.sending = c.sending /\ SameRegisters(c, d)
    BY <2>1 DEF Effect
  <2>3. Sending(8, s2, d)
    BY <1>6, <2>1, <2>2 DEF Sending, SameRegisters
  <2> QED BY <2>3
<1>7. CASE k = 8
  <2>1. s[1] = Write(HW3000_REG_FIFOCTRL, 1) /\ AtStep(9, s2)
    BY <1>0, <1>7 DEF Send
  <2>2. /\ RegisterOf(d, BANK0, HW3000_REG_TRCTRL) = \h0100 /\ d.out = c.out
        /\ RegisterOf(d, BANK0, HW3000_REG_LEN0PKLEN) = \h0016
    BY <1>1, <1>7, <2>1, RegistersDiffer DEF Moves, Sending
  <2>3. Sending(9, s2, d)
    BY <1>7, <2>1, <2>2 DEF Sending
  <2> QED BY <2>3
<1>8. CASE k = 9
  <2>1. s[1][1] \notin {"write", "bytes"} /\ AtStep(10, s2)
    BY <1>0, <1>8 DEF Send
  <2>2. SameChip(c, d)
    BY <2>1 DEF Effect
  <2>3. Sending(10, s2, d)
    BY <1>8, <2>1, <2>2 DEF Sending, SameChip, SameRegisters
  <2> QED BY <2>3
<1>9. CASE k = 10
  <2>1. s[1] = Write(HW3000_REG_FIFOCTRL, 0) /\ Without(s2, StartSending)
    BY <1>0, <1>9 DEF Send
  <2>2. d.sending = (0 = 1)
    BY <1>1, <2>1, RegistersDiffer, Zenon
  <2>3. ~(0 = 1)
    OBVIOUS
  <2>4. ~d.sending
    BY <2>2, <2>3, Zenon
  <2> QED BY <2>1, <2>4 DEF Quiet
<1> QED BY <1>2, <1>3, <1>4, <1>5, <1>6, <1>7, <1>8, <1>9

\* While the wait goes on, so does the transmission.
LEMMA SendingWaits ==
    ASSUME NEW s, NEW s2, NEW c, NEW d, NEW k \in 1 .. 10, Sending(k, s, c), Waits(s, s2),
           SameChip(c, d)
    PROVE  Sending(k, s2, d)
<1>1. s[1] = Send[k] \/ (k = 9 /\ s[1][1] = "sent")
  <2>1. 1 \in 1 .. 11 - k /\ k - 1 + 1 = k
    OBVIOUS
  <2> QED BY <2>1 DEF Sending, AtStep
<1>2. k = 9
  <2>1. \A i \in 1 .. 10 : i # 9 => Send[i][1] \notin Waiting
    BY DEF Send, Write, Assign, Waiting
  <2> QED BY <1>1, <2>1 DEF Waits
<1>3. s[1][1] # "calibrated"
  BY <1>1, <1>2 DEF Send
<1>4. AtStep(k, s2)
  BY <1>2, <1>3 DEF Sending, AtStep, Waits
<1> QED BY <1>4 DEF Sending, SameChip, SameRegisters

\* The steps of the reply itself
LEMMA SendingStarts ==
    ASSUME NEW s, NEW c, NEW channel, DOMAIN s = 1 .. 23, Holding(s, 0, Send),
           Holding(s, 13, Change(channel)), ~c.sending
    PROVE  Sending(1, s, c)
<1>1. DOMAIN Send = 1 .. 13 /\ DOMAIN Change(channel) = 1 .. 10
  BY DEF Send, Change
<1>2. \A i \in 1 .. 13 : s[i] = Send[i]
  BY <1>1 DEF Holding
<1>3. \A i \in 1 .. 10 : s[13 + i] = Change(channel)[i]
  BY <1>1 DEF Holding
<1>4. \A i \in 11 .. 13 : ~Concerns(Send[i], StartSending)
  BY DEF Send, Concerns, StartSending, Write, Assign, HW3000_REG_FIFOCTRL, HW3000_REG_TRCTRL,
         HW3000_REG_RXPHR1
<1>5. \A i \in 1 .. 10 : ~Concerns(Change(channel)[i], StartSending)
  BY DEF Change, Concerns, StartSending, Write, Assign, HW3000_REG_FIFOCTRL, HW3000_REG_TRCTRL,
         HW3000_REG_RXPHR1, HW3000_REG_CHCFG0, HW3000_REG_LEN0PKLEN, HW3000_REG_FIFOSTA,
         HW3000_REG_RCCFG1
<1>6. \A j \in 1 .. 23 : j > 10 => ~Concerns(s[j], StartSending)
  <2> SUFFICES ASSUME NEW j \in 1 .. 23, j > 10 PROVE ~Concerns(s[j], StartSending)
      OBVIOUS
  <2>1. CASE j \in 11 .. 13
    BY <1>2, <1>4, <2>1
  <2>2. CASE j \in 14 .. 23
    <3>1. j - 13 \in 1 .. 10 /\ 13 + (j - 13) = j
      BY <2>2
    <3> QED BY <1>3, <1>5, <3>1
  <2> QED BY <2>1, <2>2
<1>7. AtStep(1, s)
  BY <1>2, <1>6 DEF AtStep
<1> QED BY <1>7 DEF Sending

-----------------------------------------------------------------------------
(* Setting the chip up *)

\* s goes on with step k of hw3000_setup; the wait for the chip has a count of its own.
AtSetup(k, s, channel) ==
    /\ DOMAIN s = 1 .. 42 + Len(ModemSettings) - k
    /\ \A j \in DOMAIN s : \/ s[j] = hw3000_setup(channel)[k - 1 + j]
                           \/ k = 4 /\ j = 1 /\ s[1][1] = "ready"

\* Before step k: the first i constants are in bank 1 at step 6 + i.
SettingUp(k, s, c, channel) ==
    /\ AtSetup(k, s, channel)
    /\ k >= 5 => c.ready
    /\ k >= 6 => /\ c.bank = BANK1
                 /\ \A i \in 1 .. k - 6 :
                      RegisterOf(c, BANK1, Bank1Constants[i][2]) = Bank1Constants[i][3]
    /\ IF k = 1 THEN Sound(c) ELSE ~c.sending

\* The step to be made is the k-th of hw3000_setup, and k + 1 comes next.
LEMMA SetupNext ==
    ASSUME NEW s, NEW s2, Advances(s, s2), NEW k \in 1 .. 30, NEW channel, AtSetup(k, s, channel),
           DOMAIN s2 = 1 .. 41 + Len(ModemSettings) - k
    PROVE  /\ AtSetup(k + 1, s2, channel)
           /\ s[1] = hw3000_setup(channel)[k] \/ (k = 4 /\ s[1][1] = "ready")
           /\ \A j \in DOMAIN s2 : s2[j] = hw3000_setup(channel)[k + j]
<1> DEFINE n == Len(ModemSettings)
           t == hw3000_setup(channel)
<1>0. n \in Nat
  BY TableIs
<1>1. \A j \in DOMAIN s : s[j] = t[k - 1 + j] \/ (k = 4 /\ j = 1 /\ s[1][1] = "ready")
  BY DEF AtSetup
<1>a. \A j \in DOMAIN s2 : j \in Nat /\ j # 0 /\ j + 1 \in DOMAIN s /\ s2[j] = s[j + 1]
  BY DEF Advances
<1>d. \A a \in Nat : a # 0 => a + 1 # 1 /\ k - 1 + (a + 1) = k + a
  OBVIOUS
<1>b. 1 \in DOMAIN s
  BY DEF Advances
<1>c. DOMAIN s2 = 1 .. 41 + n - k
  OBVIOUS
<1> HIDE DEF t, n
<1>2. s[1] = t[k] \/ (k = 4 /\ s[1][1] = "ready")
  <2>1. k - 1 + 1 = k
    OBVIOUS
  <2> QED BY <1>1, <1>b, <2>1
<1>3. \A j \in DOMAIN s2 : s2[j] = t[k + j]
  <2> SUFFICES ASSUME NEW j \in DOMAIN s2 PROVE s2[j] = t[k + j]
      OBVIOUS
  <2>1. j \in Nat /\ j # 0 /\ j + 1 \in DOMAIN s /\ s2[j] = s[j + 1]
    BY <1>a
  <2>2. j + 1 # 1 /\ k - 1 + (j + 1) = k + j
    BY <1>d, <2>1
  <2> QED BY <1>1, <2>1, <2>2
<1>4. DOMAIN s2 = 1 .. 42 + n - (k + 1)
  <2>1. 42 + n - (k + 1) = 41 + n - k
    BY <1>0
  <2> QED BY <1>c, <2>1
<1>5. \A j \in DOMAIN s2 : s2[j] = t[k + 1 - 1 + j]
  <2>1. \A a \in Nat : k + 1 - 1 + a = k + a
    OBVIOUS
  <2> QED BY <1>3, <1>a, <2>1
<1>6. AtSetup(k + 1, s2, channel)
  <2>1. /\ DOMAIN s2 = 1 .. 42 + Len(ModemSettings) - (k + 1)
        /\ \A j \in DOMAIN s2 : s2[j] = hw3000_setup(channel)[k + 1 - 1 + j]
    BY <1>4, <1>5 DEF t, n
  <2> DEFINE e == k + 1
  <2>2. AtSetup(e, s2, channel)
    <3>1. /\ DOMAIN s2 = 1 .. 42 + Len(ModemSettings) - e
          /\ \A j \in DOMAIN s2 : s2[j] = hw3000_setup(channel)[e - 1 + j]
      BY <2>1
    <3> HIDE DEF e
    <3> QED BY <3>1, Zenon DEF AtSetup
  <2> QED BY <2>2
<1> QED BY <1>2, <1>3, <1>6 DEF t

\* The steps of hw3000_setup outside the tables
LEMMA SetupStep ==
    ASSUME NEW s, NEW channel, IsSetup(s, channel)
    PROVE  /\ s[1][1] = "power" /\ s[2][1] = "power" /\ s[4][1] = "ready"
           /\ s[3] = Write(HW3000_REG_BANKSEL, BANK0)
           /\ s[5] = Write(HW3000_REG_BANKSEL, BANK1)
           /\ s[30] = Write(HW3000_REG_BANKSEL, BANK0)
           /\ s[31] = Write(HW3000_REG_RXPHR1, \h8000)
<1>1. Holding(s, 0, SetupHead) /\ Holding(s, 29, SetupBack)
  BY DEF IsSetup
<1>2. /\ s[1] = SetupHead[1] /\ s[2] = SetupHead[2] /\ s[3] = SetupHead[3]
      /\ s[4] = SetupHead[4] /\ s[5] = SetupHead[5]
  <2>1. DOMAIN SetupHead = 1 .. 5
    BY DEF SetupHead
  <2>2. \A i \in 1 .. 5 : s[0 + i] = SetupHead[i]
    BY <1>1, <2>1 DEF Holding
  <2> QED BY <2>2
<1>3. s[30] = SetupBack[1] /\ s[31] = SetupBack[2]
  <2>1. DOMAIN SetupBack = 1 .. 2
    BY DEF SetupBack
  <2>2. \A i \in 1 .. 2 : s[29 + i] = SetupBack[i]
    BY <1>1, <2>1 DEF Holding
  <2> QED BY <2>2
<1>4. s[1][1] = "power" /\ s[2][1] = "power" /\ s[4][1] = "ready"
  BY <1>2 DEF SetupHead
<1>5. s[3] = Write(HW3000_REG_BANKSEL, BANK0) /\ s[5] = Write(HW3000_REG_BANKSEL, BANK1)
  BY <1>2 DEF SetupHead
<1>6. s[30] = Write(HW3000_REG_BANKSEL, BANK0) /\ s[31] = Write(HW3000_REG_RXPHR1, \h8000)
  BY <1>3, SMTT(30) DEF SetupBack
<1> QED BY <1>4, <1>5, <1>6

\* The constants of bank 1 come after the first five steps,
LEMMA SetupBank1 ==
    ASSUME NEW s, NEW channel, IsSetup(s, channel), NEW i \in 1 .. 24
    PROVE  s[5 + i] = Bank1Constants[i]
<1>1. Holding(s, 5, Bank1Constants)
  BY DEF IsSetup
<1> QED BY <1>1, Bank1Is DEF Holding

\* the modem's settings after the way back to bank 0,
LEMMA SetupModem ==
    ASSUME NEW s, NEW channel, IsSetup(s, channel), NEW i \in 1 .. Len(ModemSettings)
    PROVE  s[31 + i] = ModemSettings[i]
<1>1. Holding(s, 31, ModemSettings) /\ DOMAIN ModemSettings = 1 .. Len(ModemSettings)
  BY TableIs DEF IsSetup
<1> QED BY <1>1, Zenon DEF Holding

\* and at the end the channel.
LEMMA SetupChange ==
    ASSUME NEW s, NEW channel, IsSetup(s, channel), NEW i \in 1 .. 10
    PROVE  s[31 + Len(ModemSettings) + i] = Change(channel)[i]
<1>1. Holding(s, 31 + Len(ModemSettings), Change(channel))
  BY DEF IsSetup
<1>2. DOMAIN Change(channel) = 1 .. 10
  BY DEF Change
<1> QED BY <1>1, <1>2, Zenon DEF Holding

\* None of the later steps of hw3000_setup touches the power or waits for the chip.
LEMMA SetupAwake ==
    ASSUME NEW channel \in 0 .. 255, NEW j \in 5 .. 41 + Len(ModemSettings)
    PROVE  hw3000_setup(channel)[j][1] \notin {"power", "ready"}
<1> DEFINE s == hw3000_setup(channel)
           n == Len(ModemSettings)
<1>0. n \in Nat /\ \A i \in 1 .. n : ModemSettings[i] \in Table
  BY TableIs
<1>a. IsSetup(s, channel)
  BY SetupIs
<1>b. s[5][1] = "write" /\ s[30][1] = "write" /\ s[31][1] = "write"
  <2>1. \A r, v : Write(r, v)[1] = "write"
    BY DEF Write
  <2> QED BY <1>a, <2>1, SetupStep
<1>c. \A i \in 1 .. 24 : s[5 + i] = Bank1Constants[i]
  BY <1>a, SetupBank1
<1>d. \A i \in 1 .. n : s[31 + i] = ModemSettings[i]
  BY <1>a, SetupModem
<1>e. \A i \in 1 .. 10 : s[31 + n + i] = Change(channel)[i]
  BY <1>a, SetupChange
<1>2. j \in 5 .. 41 + n
  OBVIOUS
<1> HIDE DEF s, n
<1> SUFFICES s[j][1] \notin {"power", "ready"}
    BY DEF s
<1>3. CASE j \in {5, 30, 31}
  BY <1>b, <1>3
<1>4. CASE j \in 6 .. 29
  <2>1. j - 5 \in 1 .. 24 /\ 5 + (j - 5) = j
    BY <1>4
  <2>2. s[5 + (j - 5)] = Bank1Constants[j - 5]
    BY <1>c, <2>1
  <2>3. Bank1Constants[j - 5][1] = "write"
    BY <2>1, Bank1Is
  <2>4. s[j] = Bank1Constants[j - 5]
    BY <2>1, <2>2
  <2>5. s[j][1] = "write"
    BY <2>3, <2>4
  <2> QED BY <2>5
<1>6. CASE j \in 32 .. 31 + n
  <2>1. j - 31 \in 1 .. n /\ 31 + (j - 31) = j
    BY <1>0, <1>6
  <2>2. s[31 + (j - 31)] = ModemSettings[j - 31]
    BY <1>d, <2>1
  <2>3. s[j] \in Table
    BY <1>0, <2>1, <2>2
  <2>4. s[j][1] = "write"
    BY <2>3, TableIs
  <2> QED BY <2>4
<1>7. CASE j \in 32 + n .. 41 + n
  <2>1. j - (31 + n) \in 1 .. 10 /\ 31 + n + (j - (31 + n)) = j
    BY <1>0, <1>7
  <2>2. s[31 + n + (j - (31 + n))] = Change(channel)[j - (31 + n)]
    BY <1>e, <2>1, SMTT(30)
  <2>3. Fine(s[j])
    BY <2>1, <2>2, ChangeFine
  <2> QED BY <2>3 DEF Fine
<1>8. j \in {5, 30, 31} \/ j \in 6 .. 29 \/ j \in 32 .. 31 + n \/ j \in 32 + n .. 41 + n
  <2>1. n \in Nat
    BY <1>0
  <2> QED BY <1>2, <2>1
<1> QED BY <1>3, <1>4, <1>6, <1>7, <1>8

\* Each step before the last but the wait
LEMMA SettingUpGoesOn ==
    ASSUME NEW s, NEW s2, NEW c, NEW d, NEW channel, NEW k \in 1 .. 29, k # 4,
           SettingUp(k, s, c, channel), Advances(s, s2),
           DOMAIN s2 = 1 .. 41 + Len(ModemSettings) - k,
           s[1][1] = "power" => ~d.sending,
           s[1][1] = "write" => Written(c, d, s[1][2], s[1][3])
    PROVE  SettingUp(k + 1, s2, d, channel)
<1> DEFINE t == hw3000_setup(channel)
<1>0. AtSetup(k + 1, s2, channel) /\ s[1] = t[k]
  BY SetupNext DEF SettingUp
<1>8. IsSetup(t, channel)
  BY SetupIs
<1> HIDE DEF t
<1>9. t[1][1] = "power" /\ t[2][1] = "power"
  BY <1>8, SetupStep
<1>10. t[3] = Write(HW3000_REG_BANKSEL, BANK0) /\ t[5] = Write(HW3000_REG_BANKSEL, BANK1)
  BY <1>8, SetupStep
<1>11. \A i \in 1 .. 24 : t[5 + i] = Bank1Constants[i]
  BY <1>8, SetupBank1
<1>1. BANK0 # BANK1
  BY Banks
<1>2. CASE k \in {1, 2}
  <2>1. s[1][1] = "power"
    BY <1>0, <1>2, <1>9
  <2> QED BY <1>0, <1>2, <2>1 DEF SettingUp
<1>3. CASE k = 3
  <2>1. s[1] = Write(HW3000_REG_BANKSEL, BANK0)
    BY <1>0, <1>3, <1>10
  <2>2. Written(c, d, HW3000_REG_BANKSEL, BANK0)
    BY <2>1 DEF Write
  <2>3. d.sending = c.sending
    BY <2>2, Zenon DEF Written
  <2> QED BY <1>0, <1>3, <2>3 DEF SettingUp
<1>4. CASE k = 5
  <2>1. s[1] = Write(HW3000_REG_BANKSEL, BANK1)
    BY <1>0, <1>4, <1>10
  <2>2. Written(c, d, HW3000_REG_BANKSEL, BANK1)
    BY <2>1 DEF Write
  <2>3. c.ready /\ ~c.sending
    BY <1>4 DEF SettingUp
  <2>4. d.ready = c.ready /\ d.bank = BANK1 /\ d.sending = c.sending
    BY <2>2, <2>3, Zenon DEF Written
  <2> QED BY <1>0, <1>4, <2>3, <2>4 DEF SettingUp
<1>5. CASE k \in 6 .. 29
  <2> DEFINE m == Bank1Constants[k - 5]
  <2>a. k - 5 \in 1 .. 24 /\ 5 + (k - 5) = k
    BY <1>5
  <2>b. t[5 + (k - 5)] = m
    BY <1>11, <2>a
  <2>1. k - 5 \in 1 .. 24 /\ s[1] = m
    BY <1>0, <2>a, <2>b
  <2>2. m[1] = "write" /\ m[2] # HW3000_REG_BANKSEL
    BY <2>1, Bank1Is
  <2>3. /\ c.ready /\ ~c.sending /\ c.bank = BANK1
        /\ \A i \in 1 .. k - 6 :
             RegisterOf(c, BANK1, Bank1Constants[i][2]) = Bank1Constants[i][3]
    <3>1. k >= 5 /\ k >= 6 /\ k # 1
      BY <1>5
    <3> QED BY <3>1, Zenon DEF SettingUp
  <2>4. Written(c, d, m[2], m[3])
    BY <2>1, <2>2
  <2> HIDE DEF m
  <2>5. /\ d.ready = c.ready /\ d.bank = BANK1 /\ RegisterOf(d, BANK1, m[2]) = m[3]
        /\ \A r : r # m[2] => RegisterOf(d, BANK1, r) = RegisterOf(c, BANK1, r)
    BY <2>2, <2>3, <2>4, ZenonT(30) DEF Written
  <2>6. d.sending = c.sending
    BY <1>1, <2>2, <2>3, <2>4, Zenon DEF Written
  <2>7. ASSUME NEW i \in 1 .. k + 1 - 6
        PROVE  RegisterOf(d, BANK1, Bank1Constants[i][2]) = Bank1Constants[i][3]
    <3>1. CASE i = k - 5
      BY <2>5, <3>1 DEF m
    <3>2. CASE i # k - 5
      <4>1. i \in 1 .. k - 6 /\ i \in 1 .. 24
        BY <1>5, <3>2, SMTT(30)
      <4>2. Bank1Constants[i][2] # m[2]
        BY <2>1, <3>2, <4>1, Bank1Is DEF m
      <4> QED BY <2>3, <2>5, <4>1, <4>2
    <3> QED BY <3>1, <3>2
  <2>8. k + 1 >= 5 /\ k + 1 # 1
    BY <1>5
  <2> QED BY <1>0, <2>3, <2>5, <2>6, <2>7, <2>8 DEF SettingUp
<1> QED BY <1>2, <1>3, <1>4, <1>5

\* With the way back to bank 0 the rest of the call is like any other.
LEMMA SetUpDone ==
    ASSUME NEW s, NEW s2, NEW c, NEW d, NEW st, NEW channel \in 0 .. 255,
           SettingUp(30, s, c, channel), Advances(s, s2),
           DOMAIN s2 = 1 .. 11 + Len(ModemSettings),
           s[1][1] = "write" => Written(c, d, s[1][2], s[1][3])
    PROVE  Configured(s2, d, st, channel) /\ Quiet(s2, d)
<1> DEFINE n == Len(ModemSettings)
           t == hw3000_setup(channel)
<1>0. n \in Nat /\ DOMAIN ModemSettings = 1 .. n /\ \A i \in 1 .. n : ModemSettings[i] \in Table
  BY TableIs
<1>1. DOMAIN s2 = 1 .. 11 + n
  OBVIOUS
<1>z. IsSetup(t, channel)
  BY SetupIs
<1>2. /\ t[30] = Write(HW3000_REG_BANKSEL, BANK0)
      /\ t[31] = Write(HW3000_REG_RXPHR1, \h8000)
  BY <1>z, SetupStep
<1>b. \A i \in 1 .. n : t[31 + i] = ModemSettings[i]
  BY <1>z, SetupModem
<1>c. \A i \in 1 .. 10 : t[31 + n + i] = Change(channel)[i]
  BY <1>z, SetupChange
<1>3. /\ c.ready /\ ~c.sending
      /\ \A i \in 1 .. 24 : RegisterOf(c, BANK1, Bank1Constants[i][2]) = Bank1Constants[i][3]
  BY DEF SettingUp
<1>a. s[1] = t[30] /\ \A j \in DOMAIN s2 : s2[j] = t[30 + j]
  <2>1. 41 + n - 30 = 11 + n
    BY <1>0
  <2>2. DOMAIN s2 = 1 .. 41 + n - 30
    BY <1>1, <2>1
  <2>3. AtSetup(30, s, channel)
    BY DEF SettingUp
  <2> QED BY <2>2, <2>3, SetupNext
<1> HIDE DEF t, n
<1>4. /\ d.ready /\ d.bank = BANK0 /\ ~d.sending /\ Bank1Holds(d)
  <2>1. s[1] = Write(HW3000_REG_BANKSEL, BANK0)
    BY <1>a, <1>2
  <2>2. Written(c, d, HW3000_REG_BANKSEL, BANK0)
    BY <2>1 DEF Write
  <2>3. d.ready = c.ready /\ d.bank = BANK0 /\ d.sending = c.sending /\ d.regs = c.regs
    BY <1>3, <2>2, Zenon DEF Written
  <2> QED BY <1>3, <2>3 DEF Bank1Holds, RegisterOf
<1>5. s2[1] = Write(HW3000_REG_RXPHR1, \h8000)
  <2>1. 1 \in DOMAIN s2 /\ 30 + 1 = 31
    BY <1>0, <1>1
  <2> QED BY <1>2, <1>a, <2>1
<1>6. \A i \in 1 .. n : s2[1 + i] = ModemSettings[i]
  <2> SUFFICES ASSUME NEW i \in 1 .. n PROVE s2[1 + i] = ModemSettings[i]
      OBVIOUS
  <2>1. 1 + i \in 1 .. 11 + n /\ 30 + (1 + i) = 31 + i
    BY <1>0
  <2>2. t[31 + i] = ModemSettings[i]
    BY <1>b
  <2> QED BY <1>1, <1>a, <2>1, <2>2
<1>7. DOMAIN Change(channel) = 1 .. 10
  BY DEF Change
<1>8. \A i \in 1 .. 10 : s2[1 + n + i] = Change(channel)[i]
  <2> SUFFICES ASSUME NEW i \in 1 .. 10 PROVE s2[1 + n + i] = Change(channel)[i]
      OBVIOUS
  <2>1. 1 + n + i \in 1 .. 11 + n /\ 30 + (1 + n + i) = 31 + n + i
    BY <1>0
  <2>2. t[31 + n + i] = Change(channel)[i]
    BY <1>c
  <2> QED BY <1>1, <1>a, <2>1, <2>2
<1>9. ASSUME NEW j \in 1 .. 11 + n
      PROVE  j = 1 \/ (\E i \in 1 .. n : j = 1 + i) \/ (\E i \in 1 .. 10 : j = 1 + n + i)
  <2>1. CASE j \in 2 .. 1 + n
    <3>1. j - 1 \in 1 .. n /\ j = 1 + (j - 1)
      BY <1>0, <2>1
    <3> QED BY <3>1
  <2>2. CASE j \in 2 + n .. 11 + n
    <3>1. j - (1 + n) \in 1 .. 10 /\ j = 1 + n + (j - (1 + n))
      BY <1>0, <2>2
    <3> QED BY <3>1
  <2> QED BY <1>0, <2>1, <2>2
<1>10. AllFine(s2)
  <2>1. Fine(s2[1])
    <3>1. HW3000_REG_RXPHR1 \in Moving
      BY DEF Moving
    <3> QED BY <1>5, <3>1, MovingFine, SomeWords
  <2>2. \A i \in 1 .. n : Fine(s2[1 + i])
    BY <1>0, <1>6, TableFine
  <2>3. \A i \in 1 .. 10 : Fine(s2[1 + n + i])
    BY <1>8, ChangeFine
  <2> QED BY <1>1, <1>9, <2>1, <2>2, <2>3 DEF AllFine
<1>11. ModemWillHold(s2, d)
  <2>1. \A i \in 1 .. n : 1 + i \in DOMAIN s2
    BY <1>0, <1>1
  <2> QED BY <1>0, <1>6, <2>1 DEF ModemWillHold
<1>12. /\ Ends(s2, Write(HW3000_REG_TRCTRL, \h0080))
       /\ Ends(s2, Write(HW3000_REG_LEN0PKLEN, \h000d))
       /\ Ends(s2, Write(HW3000_REG_CHCFG0, (channel % 64) * 256))
       /\ Ends(s2, Assign("RX"))
  <2>0. 11 + n = 1 + n + 10
    BY <1>0
  <2>1. DOMAIN s2 = 1 .. 1 + n + 10 /\ 1 + n \in Nat
    BY <1>0, <1>1, <2>0
  <2>2. Holding(s2, 1 + n, Change(channel))
    BY <1>7, <1>8 DEF Holding
  <2> QED BY <2>1, <2>2, ChangeEnds
<1>13. Without(s2, StartSending)
  <2>0. StartSending[1] = "write" /\ StartSending[2] = HW3000_REG_FIFOCTRL
    BY DEF StartSending, Write
  <2>1. ~Concerns(s2[1], StartSending)
    BY <1>5, <2>0, RegistersDiffer DEF Concerns, Write
  <2>2. \A i \in 1 .. n : ~Concerns(s2[1 + i], StartSending)
    <3>1. \A m \in Table : m[2] # HW3000_REG_FIFOCTRL
      BY TableIs DEF Moving
    <3> QED BY <1>0, <1>6, <2>0, <3>1 DEF Concerns
  <2>3. \A i \in 1 .. 10 : ~Concerns(Change(channel)[i], StartSending)
    BY SMTT(30)
    DEF Change, Concerns, StartSending, Write, Assign, HW3000_REG_FIFOCTRL, HW3000_REG_TRCTRL,
           HW3000_REG_RXPHR1, HW3000_REG_CHCFG0, HW3000_REG_LEN0PKLEN, HW3000_REG_FIFOSTA,
           HW3000_REG_RCCFG1
  <2>4. \A i \in 1 .. 10 : ~Concerns(s2[1 + n + i], StartSending)
    BY <1>8, <2>3
  <2> QED BY <1>1, <1>9, <2>1, <2>2, <2>4 DEF Without
<1> QED BY <1>4, <1>10, <1>11, <1>12, <1>13 DEF Configured, Quiet, WillHold

-----------------------------------------------------------------------------
(* The chip is set up, or will be *)

NoWake(s) == \A k \in DOMAIN s : s[k][1] \notin {"power", "ready"}

\* The chip is set up, or will be when what is left of the call has been done; and
\* either nothing is sent and nothing will be, or the reply is.
Runs(s, c, st, channel) ==
    /\ Configured(s, c, st, channel)
    /\ Quiet(s, c) \/ \E k \in 1 .. 10 : Sending(k, s, c)

\* Between two steps of a call, nothing but the chip's FIFO and IRQN changes.
LEMMA RunsSame ==
    ASSUME NEW s, NEW c, NEW d, NEW st, NEW channel, Runs(s, c, st, channel), SameChip(c, d)
    PROVE  Runs(s, d, st, channel)
<1>1. Configured(s, d, st, channel)
  BY DEF Runs, Configured, SameChip, SameRegisters, Bank1Holds, ModemWillHold, WillHold
<1>2. Quiet(s, c) => Quiet(s, d)
  BY DEF Quiet, SameChip
<1>3. \A k \in 1 .. 10 : Sending(k, s, c) => Sending(k, s, d)
  BY DEF Sending, SameChip, SameRegisters
<1> QED BY <1>1, <1>2, <1>3 DEF Runs

\* The next step of a call, or a wait that goes on
LEMMA RunsOn ==
    ASSUME NEW s, NEW s2, NEW c, NEW d, NEW st, NEW st2, NEW channel,
           Runs(s, c, st, channel),
           \/ Waits(s, s2) /\ SameChip(c, d) /\ st2 = st
           \/ /\ Advances(s, s2) /\ Effect(s[1], c, d)
              /\ IF s[1][1] = "state" THEN d = c /\ st2 = s[1][2] ELSE st2 = st
    PROVE  Runs(s2, d, st2, channel)
<1>1. Configured(s, c, st, channel) /\ c.ready /\ c.bank = BANK0
  BY DEF Runs, Configured
<1>2. CASE Waits(s, s2) /\ SameChip(c, d) /\ st2 = st
  <2>1. Configured(s2, d, st2, channel)
    BY <1>1, <1>2, ConfiguredKept DEF SameChip
  <2>2. \A k \in 1 .. 10 : Sending(k, s, c) => Sending(k, s2, d)
    BY <1>2, SendingWaits
  <2>3. Quiet(s, c) => Quiet(s2, d)
    <3>1. ~Advances(s, s2) \/ Effect(s[1], c, d)
      <4>1. s[1][1] \in Waiting
        BY <1>2 DEF Waits
      <4> QED BY <1>2, <4>1 DEF Effect, Waiting
    <3> QED BY <1>2, <3>1, StaysQuiet
  <2> QED BY <2>1, <2>2, <2>3 DEF Runs
<1>3. CASE /\ Advances(s, s2) /\ Effect(s[1], c, d)
           /\ IF s[1][1] = "state" THEN d = c /\ st2 = s[1][2] ELSE st2 = st
  <2>1. Configured(s2, d, st2, channel)
    <3>1. CASE s[1][1] = "write"
      BY <1>1, <1>3, <3>1, ConfiguredWrites DEF Effect
    <3>2. CASE s[1][1] = "state"
      BY <1>1, <1>3, <3>2, ConfiguredAssigns
    <3>3. CASE s[1][1] \notin {"write", "state"}
      <4>1. d.ready = c.ready /\ d.bank = c.bank /\ SameRegisters(c, d)
        BY <1>3, <3>3 DEF Effect, SameChip
      <4> QED BY <1>1, <1>3, <3>3, <4>1, ConfiguredKept, ZenonT(30)
    <3> QED BY <3>1, <3>2, <3>3
  <2>2. \A k \in 1 .. 10 : Sending(k, s, c) =>
           Quiet(s2, d) \/ \E i \in 1 .. 10 : Sending(i, s2, d)
    BY <1>1, <1>3, SendingGoesOn
  <2>3. Quiet(s, c) => Quiet(s2, d)
    <3>1. ~Waits(s, s2) \/ SameChip(c, d)
      <4>1. Waits(s, s2) => s[1][1] \in Waiting
        BY DEF Waits
      <4> QED BY <1>3, <4>1 DEF Effect, Waiting
    <3> QED BY <1>3, <3>1, StaysQuiet
  <2> QED BY <2>1, <2>2, <2>3 DEF Runs
<1> QED BY <1>2, <1>3

\* Between two calls
LEMMA RunsIdle ==
    ASSUME NEW c, NEW st, NEW channel, Runs(<<>>, c, st, channel)
    PROVE  Configured(<<>>, c, st, channel) /\ ~c.sending
<1>1. \A k \in 1 .. 10 : ~AtStep(k, <<>>)
  <2> SUFFICES ASSUME NEW k \in 1 .. 10, AtStep(k, <<>>) PROVE FALSE
      OBVIOUS
  <2>1. 1 \in 1 .. 11 - k /\ 1 \notin DOMAIN <<>>
    OBVIOUS
  <2> QED BY <2>1 DEF AtStep
<1> QED BY <1>1 DEF Runs, Quiet, Sending

\* A change of channel starts no transmission.
LEMMA ChangeQuiet ==
    ASSUME NEW channel, NEW i \in 1 .. 10
    PROVE  ~Concerns(Change(channel)[i], StartSending)
BY DEF Change, Concerns, StartSending, Write, Assign, HW3000_REG_FIFOCTRL, HW3000_REG_TRCTRL,
       HW3000_REG_RXPHR1, HW3000_REG_CHCFG0, HW3000_REG_LEN0PKLEN, HW3000_REG_FIFOSTA,
       HW3000_REG_RCCFG1

\* A change of channel begins.
LEMMA RunsChange ==
    ASSUME NEW c, NEW st, NEW old, Runs(<<>>, c, st, old), NEW channel \in 0 .. 255
    PROVE  Runs(hw3000_channel_change(channel), c, st, channel)
<1> DEFINE s == hw3000_channel_change(channel)
<1>1. Len(s) = 10 /\ Holding(s, 0, Change(channel))
  BY ChangeIs
<1>2. DOMAIN s = 1 .. 10
  BY <1>1, ChangeSteps, StepsBasic
<1> HIDE DEF s
<1>3. \A i \in 1 .. 10 : s[i] = Change(channel)[i]
  <2>1. DOMAIN Change(channel) = 1 .. 10 /\ \A i \in 1 .. 10 : 0 + i = i
    BY DEF Change
  <2> QED BY <1>1, <2>1, SMTT(30) DEF Holding
<1>4. AllFine(s)
  BY <1>2, <1>3, ChangeFine DEF AllFine
<1>5. Configured(s, c, st, channel)
  <2>1. Configured(<<>>, c, st, old)
    BY RunsIdle
  <2>2. DOMAIN s = 1 .. 0 + 10
    BY <1>2
  <2> QED BY <1>1, <1>4, <2>1, <2>2, CallConfigured
<1>6. Quiet(s, c)
  <2>1. ~c.sending
    BY RunsIdle
  <2> QED BY <1>2, <1>3, <2>1, ChangeQuiet DEF Quiet, Without
<1> QED BY <1>5, <1>6 DEF Runs, s

\* The wait for the air makes no difference: the reply is sent in the state RX.
LEMMA RunsSend ==
    ASSUME NEW c, NEW st, NEW channel \in 0 .. 255, Runs(<<>>, c, st, channel)
    PROVE  Runs(hw3000_fifo_tx(st, Reply) \o hw3000_channel_change(channel), c, st, channel)
<1> DEFINE a == hw3000_fifo_tx("RX", Reply)
           b == hw3000_channel_change(channel)
           s == a \o b
<1>1. Configured(<<>>, c, st, channel) /\ ~c.sending
  BY RunsIdle
<1>2. st = "RX"
  BY <1>1, NothingLeft
<1>3. Steps(a, RadioKinds) /\ Len(a) = 13 /\ Holding(a, 0, Send)
  BY SendIs
<1>4. Steps(b, RadioKinds) /\ Len(b) = 10 /\ Holding(b, 0, Change(channel))
  BY ChangeIs, ChangeSteps
<1> HIDE DEF a, b
<1>5. IsChain(s, a, b, 13, 10)
  BY <1>3, <1>4, Chain, Zenon
<1> HIDE DEF s
<1>6. DOMAIN Send = 1 .. 13 /\ DOMAIN Change(channel) = 1 .. 10
  BY DEF Send, Change
<1>7. DOMAIN s = 1 .. 23
  BY <1>5 DEF IsChain
<1>8. \A i \in 1 .. 13 : s[i] = Send[i]
  <2>1. \A i \in 1 .. 13 : a[0 + i] = Send[i] /\ 0 + i = i
    BY <1>3, <1>6 DEF Holding
  <2> QED BY <1>5, <2>1 DEF IsChain
<1>9. \A i \in 1 .. 10 : s[13 + i] = Change(channel)[i]
  <2>1. \A i \in 1 .. 10 : b[0 + i] = Change(channel)[i] /\ 0 + i = i
    BY <1>4, <1>6 DEF Holding
  <2> QED BY <1>5, <2>1 DEF IsChain
<1>10. Holding(s, 0, Send) /\ Holding(s, 13, Change(channel))
  BY <1>6, <1>8, <1>9 DEF Holding
<1>11. AllFine(s)
  <2>1. ASSUME NEW i \in 1 .. 23 PROVE Fine(s[i])
    <3>1. CASE i \in 1 .. 13
      BY <1>8, <3>1, SendFine, SMTT(30)
    <3>2. CASE i \in 14 .. 23
      <4>1. i - 13 \in 1 .. 10 /\ 13 + (i - 13) = i
        BY <3>2, SMTT(30)
      <4>2. s[13 + (i - 13)] = Change(channel)[i - 13] /\ Fine(Change(channel)[i - 13])
        BY <1>9, <4>1, ChangeFine
      <4> QED BY <4>1, <4>2
    <3> QED BY <3>1, <3>2
  <2> QED BY <1>7, <2>1 DEF AllFine
<1>12. Configured(s, c, st, channel)
  <2>1. DOMAIN s = 1 .. 13 + 10
    BY <1>7
  <2> QED BY <1>1, <1>10, <1>11, <2>1, CallConfigured
<1>13. Sending(1, s, c)
  BY <1>1, <1>7, <1>10, SendingStarts
<1>14. Runs(s, c, st, channel)
  BY <1>12, <1>13 DEF Runs
<1> QED BY <1>2, <1>14 DEF s, a, b

\* A call that has nothing to do with the radio
LEMMA RunsOther ==
    ASSUME NEW c, NEW st, NEW channel, Runs(<<>>, c, st, channel),
           NEW s, \A k \in DOMAIN s : s[k][1] \notin {"write", "bytes", "power", "ready", "state"}
    PROVE  Runs(s, c, st, channel)
<1>1. Configured(<<>>, c, st, channel) /\ ~c.sending
  BY RunsIdle
<1>2. StartSending[1] = "write"
  BY DEF StartSending, Write
<1>3. Quiet(s, c)
  BY <1>1, <1>2 DEF Quiet, Without, Concerns
<1> QED BY <1>1, <1>3, OtherCallConfigured DEF Runs

-----------------------------------------------------------------------------
(* Setting up, step by step *)

\* The chip's FIFO and IRQN do not matter.
LEMMA SettingUpSame ==
    ASSUME NEW k \in 1 .. 30, NEW s, NEW c, NEW d, NEW channel,
           SettingUp(k, s, c, channel), SameChip(c, d)
    PROVE  SettingUp(k, s, d, channel)
BY DEF SettingUp, SameChip, SameRegisters, Sound

\* The chip may wake up as long as nothing has been written to bank 1.
LEMMA SettingUpWakes ==
    ASSUME NEW k \in 1 .. 30, NEW s, NEW c, NEW d, NEW channel,
           SettingUp(k, s, c, channel), ~c.ready, ~d.sending
    PROVE  SettingUp(k, s, d, channel)
<1>1. k < 5
  BY DEF SettingUp
<1> QED BY <1>1 DEF SettingUp, Sound

\* The step to be made
LEMMA SettingUpHead ==
    ASSUME NEW k \in 1 .. 30, NEW s, NEW c, NEW channel, SettingUp(k, s, c, channel),
           1 \in DOMAIN s
    PROVE  /\ k \in {1, 2} => s[1][1] = "power"
           /\ k = 4 => s[1][1] = "ready"
           /\ k \notin {1, 2, 4} =>
                s[1][1] = "write" /\ s[1][2] \in 0 .. 127 /\ s[1][3] \in Words
<1> DEFINE t == hw3000_setup(channel)
<1>1. IsSetup(t, channel)
  BY SetupIs
<1>2. s[1] = t[k] \/ (k = 4 /\ s[1][1] = "ready")
  <2>1. k - 1 + 1 = k
    OBVIOUS
  <2> QED BY <2>1 DEF SettingUp, AtSetup
<1> HIDE DEF t
<1>3. t[1][1] = "power" /\ t[2][1] = "power" /\ t[4][1] = "ready"
  BY <1>1, SetupStep
<1>4. \A v \in {BANK0, BANK1} :
         LET w == Write(HW3000_REG_BANKSEL, v)
         IN  w[1] = "write" /\ w[2] \in 0 .. 127 /\ w[3] \in Words
  <2>1. HW3000_REG_BANKSEL \in 0 .. 127
    BY DEF HW3000_REG_BANKSEL
  <2> QED BY <2>1, Banks DEF Write
<1>5. /\ t[3] = Write(HW3000_REG_BANKSEL, BANK0) /\ t[5] = Write(HW3000_REG_BANKSEL, BANK1)
      /\ t[30] = Write(HW3000_REG_BANKSEL, BANK0)
  BY <1>1, SetupStep
<1>6. CASE k \in {1, 2, 4}
  BY <1>2, <1>3, <1>6
<1>7. CASE k \in {3, 5, 30}
  <2>1. s[1] \in {Write(HW3000_REG_BANKSEL, BANK0), Write(HW3000_REG_BANKSEL, BANK1)}
    BY <1>2, <1>5, <1>7
  <2> QED BY <1>4, <1>7, <2>1
<1>8. CASE k \in 6 .. 29
  <2>1. k - 5 \in 1 .. 24 /\ 5 + (k - 5) = k
    BY <1>8
  <2>2. t[5 + (k - 5)] = Bank1Constants[k - 5]
    BY <1>1, <2>1, SetupBank1
  <2>3. s[1] = Bank1Constants[k - 5]
    BY <1>2, <1>8, <2>1, <2>2, SMTT(30)
  <2>4. s[1][1] = "write" /\ s[1][2] \in 0 .. 127 /\ s[1][3] \in Words
    BY <2>1, <2>3, Bank1Is
  <2> QED BY <1>8, <2>4
<1> QED BY <1>6, <1>7, <1>8

\* What is left after the step
LEMMA SettingUpLeft ==
    ASSUME NEW k \in 1 .. 30, NEW s, NEW K, Steps(s, K), NEW c, NEW channel,
           SettingUp(k, s, c, channel)
    PROVE  s # <<>> /\ DOMAIN Tail(s) = 1 .. 41 + Len(ModemSettings) - k
<1> DEFINE n == Len(ModemSettings)
<1>1. n \in Nat
  BY TableIs
<1>2. DOMAIN s = 1 .. 42 + n - k
  BY DEF SettingUp, AtSetup
<1>3. Len(s) \in Nat /\ DOMAIN s = 1 .. Len(s) /\ (s = <<>> <=> Len(s) = 0)
  BY StepsBasic
<1> HIDE DEF n
<1>4. Len(s) = 42 + n - k
  BY <1>1, <1>2, <1>3
<1>5. s # <<>> /\ Len(s) - 1 = 41 + n - k
  BY <1>1, <1>3, <1>4
<1>6. DOMAIN Tail(s) = 1 .. Len(s) - 1
  BY <1>5, StepsTail
<1> QED BY <1>5, <1>6 DEF n

\* The call begins.
LEMMA SettingUpStarts ==
    ASSUME NEW c, NEW channel \in 0 .. 255, Sound(c)
    PROVE  SettingUp(1, hw3000_setup(channel), c, channel)
<1> DEFINE s == hw3000_setup(channel)
<1>0. Len(ModemSettings) \in Nat
  BY TableIs
<1>1. Len(s) = 41 + Len(ModemSettings)
  BY SetupIs DEF IsSetup
<1>2. DOMAIN s = 1 .. 41 + Len(ModemSettings)
  BY <1>1, SetupSteps, StepsBasic
<1> HIDE DEF s
<1>3. DOMAIN s = 1 .. 42 + Len(ModemSettings) - 1
  <2>1. 42 + Len(ModemSettings) - 1 = 41 + Len(ModemSettings)
    BY <1>0
  <2> QED BY <1>2, <2>1
<1>4. \A j \in DOMAIN s : s[j] = s[1 - 1 + j]
  <2>1. \A j \in Nat : 1 - 1 + j = j
    OBVIOUS
  <2>2. \A j \in DOMAIN s : j \in Nat
    BY <1>0, <1>2
  <2> QED BY <2>1, <2>2
<1>5. AtSetup(1, s, channel)
  BY <1>3, <1>4 DEF AtSetup, s
<1> QED BY <1>5 DEF SettingUp, s

\* The chip is awake, or it is waited for once more, or it is not.
LEMMA SettingUpAwake ==
    ASSUME NEW s, NEW s2, NEW c, NEW channel, SettingUp(4, s, c, channel), Advances(s, s2),
           DOMAIN s2 = 1 .. 41 + Len(ModemSettings) - 4, c.ready
    PROVE  SettingUp(5, s2, c, channel)
<1>1. AtSetup(4 + 1, s2, channel)
  BY SetupNext DEF SettingUp
<1>2. AtSetup(5, s2, channel)
  BY <1>1
<1> QED BY <1>2 DEF SettingUp

\* The chip is waited for once more.
LEMMA SettingUpWaits ==
    ASSUME NEW s, NEW s2, NEW c, NEW channel, SettingUp(4, s, c, channel),
           1 \in DOMAIN s, DOMAIN s2 = DOMAIN s, s2[1][1] = "ready",
           \A k \in DOMAIN s : k # 1 => s2[k] = s[k]
    PROVE  SettingUp(4, s2, c, channel)
<1>1. AtSetup(4, s2, channel)
  BY DEF SettingUp, AtSetup
<1> QED BY <1>1 DEF SettingUp

\* After the last try nothing wakes the chip any more.
LEMMA SettingUpGivenUp ==
    ASSUME NEW s, NEW s2, NEW c, NEW channel \in 0 .. 255, SettingUp(4, s, c, channel),
           Advances(s, s2), DOMAIN s2 = 1 .. 41 + Len(ModemSettings) - 4
    PROVE  NoWake(s2)
<1> DEFINE n == Len(ModemSettings)
<1>0. n \in Nat
  BY TableIs
<1>1. \A j \in DOMAIN s2 : s2[j] = hw3000_setup(channel)[4 + j]
  BY SetupNext DEF SettingUp
<1>2. \A j \in 5 .. 41 + n : hw3000_setup(channel)[j][1] \notin {"power", "ready"}
  BY SetupAwake
<1>3. DOMAIN s2 = 1 .. 41 + n - 4
  OBVIOUS
<1> HIDE DEF n
<1>4. \A j \in DOMAIN s2 : 4 + j \in 5 .. 41 + n
  BY <1>0, <1>3
<1> QED BY <1>1, <1>2, <1>4 DEF NoWake

-----------------------------------------------------------------------------
(* Calls of the loop do not wake the chip *)

LoopKinds == {"write", "state", "calibrated", "bytes", "start"}

\* A call of the loop neither powers the chip nor waits for it.
LEMMA LoopAwake == \A s : Steps(s, LoopKinds) => NoWake(s)
BY DEF Steps, NoWake, LoopKinds

\* The steps of the calls of the loop
LEMMA LoopSteps ==
    /\ \A c : Steps(hw3000_channel_change(c), LoopKinds)
    /\ \A s : Steps(hw3000_fifo_tx(s, Reply), LoopKinds)
<1> DEFINE On == <<Write(HW3000_REG_LEN0PKLEN, \h000d), Write(HW3000_REG_TRCTRL, \h0080),
                   Write(HW3000_REG_FIFOSTA, \h0200), Assign("RX")>>
           Out == <<Write(HW3000_REG_TRCTRL, \h0100), Write(HW3000_REG_FIFOSTA, \h0100),
              Write(HW3000_REG_LEN0PKLEN, \h0016), <<"bytes", HW3000_REG_FIFODATA, Reply>>,
              Write(HW3000_REG_FIFOCTRL, 1), <<"start">>, Write(HW3000_REG_FIFOCTRL, 0),
              Write(HW3000_REG_RXPHR1, 1), Write(HW3000_REG_TRCTRL, 0), Assign("IDLE")>>
<1>1. Steps(hw3000_rx_disable, LoopKinds)
  <2>1. \A i \in DOMAIN hw3000_rx_disable : hw3000_rx_disable[i][1] \in LoopKinds
    BY DEF hw3000_rx_disable, Write, Assign, LoopKinds
  <2>2. hw3000_rx_disable \in Seq({hw3000_rx_disable[i] : i \in 1 .. 3})
    BY DEF hw3000_rx_disable
  <2> QED BY <2>1, <2>2, StepsIn
<1>2. Steps(On, LoopKinds)
  <2>1. \A i \in DOMAIN On : On[i][1] \in LoopKinds
    BY DEF Write, Assign, LoopKinds
  <2>2. On \in Seq({On[i] : i \in 1 .. 4})
    OBVIOUS
  <2> QED BY <2>1, <2>2, StepsIn, ZenonT(30)
<1>3. Steps(hw3000_calibrate, LoopKinds)
  <2>1. \A i \in DOMAIN hw3000_calibrate : hw3000_calibrate[i][1] \in LoopKinds
    BY DEF hw3000_calibrate, Write, LoopKinds
  <2>2. hw3000_calibrate \in Seq({hw3000_calibrate[i] : i \in 1 .. 2})
    BY DEF hw3000_calibrate
  <2> QED BY <2>1, <2>2, StepsIn
<1>4. \A c : Steps(hw3000_channel_set(c), LoopKinds)
  <2>1. \A v : Write(HW3000_REG_CHCFG0, v)[1] \in LoopKinds
    BY DEF Write, LoopKinds
  <2> QED BY <2>1, StepsOne DEF hw3000_channel_set
<1>5. Steps(Out, LoopKinds)
  <2>1. \A i \in DOMAIN Out : Out[i][1] \in LoopKinds
    BY DEF Write, Assign, LoopKinds
  <2>2. Out \in Seq({Out[i] : i \in 1 .. 10})
    OBVIOUS
  <2> QED BY <2>1, <2>2, StepsIn
<1> HIDE DEF On, Out
<1>6. \A s : Steps(IF s # "IDLE" THEN hw3000_rx_disable ELSE <<>>, LoopKinds)
  BY <1>1, NoSteps
<1>7. \A s : Steps(hw3000_rx_enable(s), LoopKinds)
  <2>1. \A s : Steps((IF s # "IDLE" THEN hw3000_rx_disable ELSE <<>>) \o On, LoopKinds)
    BY <1>2, <1>6, Chained
  <2> QED BY <2>1, NoSteps, ZenonT(30) DEF hw3000_rx_enable, On
<1>8. \A s : Steps(hw3000_fifo_tx(s, Reply), LoopKinds)
  <2>1. \A s : Steps((IF s # "IDLE" THEN hw3000_rx_disable ELSE <<>>) \o Out, LoopKinds)
    BY <1>5, <1>6, Chained
  <2> QED BY <2>1, NoSteps DEF hw3000_fifo_tx, Out
<1>9. \A c : Steps(hw3000_channel_change(c), LoopKinds)
  BY <1>1, <1>3, <1>4, <1>7, Chained DEF hw3000_channel_change
<1> QED BY <1>8, <1>9

-----------------------------------------------------------------------------
(* Reading a frame *)

\* What a sequence is, element by element
LEMMA Elements ==
    ASSUME NEW T, NEW s \in Seq(T)
    PROVE  /\ Len(s) \in Nat /\ DOMAIN s = 1 .. Len(s) /\ s = [i \in 1 .. Len(s) |-> s[i]]
           /\ \A i \in 1 .. Len(s) : s[i] \in T
           /\ s = <<>> <=> Len(s) = 0
           /\ s # <<>> => Head(s) = s[1]
OBVIOUS

\* x is s and then t.
IsConcat(x, s, t, T) ==
    /\ x \in Seq(T) /\ Len(x) = Len(s) + Len(t)
    /\ \A i \in 1 .. Len(s) : x[i] = s[i]
    /\ \A i \in 1 .. Len(t) : x[Len(s) + i] = t[i]

\* One sequence after another
LEMMA Appended ==
    ASSUME NEW T, NEW s \in Seq(T), NEW t \in Seq(T)
    PROVE  IsConcat(s \o t, s, t, T)
BY DEF IsConcat

\* A function on 1 .. n is a sequence of length n.
LEMMA Row ==
    ASSUME NEW T, NEW n \in Nat, NEW f, f = [i \in 1 .. n |-> f[i]], \A i \in 1 .. n : f[i] \in T
    PROVE  f \in Seq(T) /\ Len(f) = n
OBVIOUS

\* The buffer holds 1 to 255 bytes.
LEMMA BufferSize == RX_SIZE \in Nat /\ RX_SIZE >= 1 /\ RX_SIZE <= 255
<1>1. RX_SIZE \in 1 .. 255
  BY FrameAssumption
<1> QED BY <1>1

\* What comes after the end of a FIFO
Noise(noise) == [i \in 1 .. RX_SIZE |-> noise]

\* As many equal bytes as the buffer holds
LEMMA NoiseIs ==
    ASSUME NEW noise \in {0, 255}
    PROVE  /\ Noise(noise) \in Seq(Octets) /\ Len(Noise(noise)) = RX_SIZE /\ RX_SIZE \in Nat \ {0}
           /\ noise \in Octets /\ \A i \in 1 .. RX_SIZE : Noise(noise)[i] = noise
<1> DEFINE f == Noise(noise)
<1>1. RX_SIZE \in Nat \ {0} /\ noise \in Octets
  BY BufferSize, SMT DEF Octets
<1>2. f = [i \in 1 .. RX_SIZE |-> f[i]] /\ \A i \in 1 .. RX_SIZE : f[i] = noise
  BY DEF Noise
<1> HIDE DEF f
<1>3. f \in Seq(Octets) /\ Len(f) = RX_SIZE
  BY <1>1, <1>2, Row
<1> QED BY <1>1, <1>2, <1>3 DEF f

\* The bytes a FIFO yields
Yields(fifo, noise, bytes) ==
    /\ bytes \in Seq(Octets) /\ Head(bytes) = bytes[1]
    /\ \A i \in 1 .. RX_SIZE : bytes[i] \in Octets
    /\ \A i \in 1 .. Len(fifo) : bytes[i] = fifo[i]
    /\ fifo = <<>> => bytes[1] = noise
    /\ bytes[1] \in 0 .. 255

\* First come the bytes of the frame, then those after its end.
LEMMA FifoYields ==
    ASSUME NEW fifo \in Seq(Octets), NEW noise \in {0, 255}
    PROVE  Yields(fifo, noise, fifo \o Noise(noise))
<1> DEFINE e == Noise(noise)
           bytes == fifo \o e
<1>1. /\ e \in Seq(Octets) /\ Len(e) = RX_SIZE /\ RX_SIZE \in Nat \ {0}
      /\ \A i \in 1 .. RX_SIZE : e[i] = noise
  BY NoiseIs
<1> HIDE DEF e
<1>2. /\ bytes \in Seq(Octets) /\ Len(bytes) = Len(fifo) + RX_SIZE
      /\ \A i \in 1 .. Len(fifo) : bytes[i] = fifo[i]
      /\ \A i \in 1 .. RX_SIZE : bytes[Len(fifo) + i] = e[i]
  <2>1. IsConcat(bytes, fifo, e, Octets)
    BY <1>1, Appended
  <2> HIDE DEF bytes
  <2> QED BY <1>1, <2>1 DEF IsConcat
<1>3. Len(fifo) \in Nat /\ (fifo = <<>> => Len(fifo) = 0)
  BY Elements
<1> HIDE DEF bytes
<1>4. Len(bytes) \in Nat \ {0} /\ Len(bytes) >= RX_SIZE
  BY <1>1, <1>2, <1>3
<1>5. Head(bytes) = bytes[1] /\ \A i \in 1 .. Len(bytes) : bytes[i] \in Octets
  BY <1>2, <1>4, Elements
<1>6. \A i \in 1 .. RX_SIZE : bytes[i] \in Octets
  BY <1>1, <1>4, <1>5
<1>7. fifo = <<>> => bytes[1] = noise
  <2>1. 0 + 1 = 1 /\ 1 \in 1 .. RX_SIZE
    BY <1>1
  <2> QED BY <1>1, <1>2, <1>3, <2>1
<1>8. bytes[1] \in 0 .. 255
  BY <1>1, <1>6 DEF Octets
<1>9. Yields(fifo, noise, bytes)
  BY <1>2, <1>5, <1>6, <1>7, <1>8, Zenon DEF Yields
<1> QED BY <1>9 DEF bytes, e

\* What a buffer of RX_SIZE bytes takes of the bytes the chip yields
ReadBack(bytes) ==
    LET len == IF bytes[1] > RX_SIZE THEN RX_SIZE ELSE bytes[1]
    IN  IF len = 0 THEN <<>> ELSE <<len>> \o [i \in 1 .. len - 1 |-> bytes[i + 1]]

\* A byte is read as the chip puts it on the wire.
ReadsByte(a, Miso, v) == spi_read8(a, Miso) = v

\* spi_read8 returns the byte that is shifted out.
LEMMA ByteReadThrough ==
    ASSUME NEW a \in 0 .. 127, NEW v \in 0 .. 255, NEW Miso, Miso[ReadCommand(a)] = ShiftOut(v, 8)
    PROVE  ReadsByte(a, Miso, v)
<1> DEFINE s == ShiftOut(v, 8)
           bits == SubSeq(s, 1, 8)
<1>1. AreOut(s, v, 8, 256, 128)
  BY ByteOut
<1>2. spi_read8(a, Miso) = ShiftIn(0, bits, 8)
  BY DEF spi_read8
<1> HIDE DEF s
<1>3. bits = s
  BY <1>1 DEF AreOut
<1>4. 0 \in 0 .. 255
  BY SMTT(30)
<1> HIDE DEF bits
<1>5. spi_read8(a, Miso) = v
  BY <1>1, <1>2, <1>3, <1>4, ByteThrough
<1> QED BY <1>5 DEF ReadsByte

\* The bits of n bytes, one byte after another
BitsOf(bytes, n) ==
    [i \in 1 .. 8 * n |-> ShiftOut(bytes[2 + (i - 1) \div 8], 8)[1 + ((i - 1) % 8)]]

\* These bits are what spi_readbytes takes for an answer of these bytes.
LEMMA BitsAnswer ==
    ASSUME NEW n \in Nat, NEW bytes, \A i \in 1 .. n : bytes[i + 1] \in Octets,
           NEW len \in 1 .. n + 1
    PROVE  Answers(BitsOf(bytes, n), [i \in 1 .. len - 1 |-> bytes[i + 1]])
<1> DEFINE bits == [i \in 1 .. 8 * n |-> ShiftOut(bytes[2 + (i - 1) \div 8], 8)[1 + ((i - 1) % 8)]]
           buffer == [i \in 1 .. len - 1 |-> bytes[i + 1]]
<1>1. Len(buffer) = len - 1 /\ \A i \in 1 .. len - 1 : buffer[i] = bytes[i + 1]
  <2>1. len - 1 \in Nat
    OBVIOUS
  <2>2. DOMAIN buffer = 1 .. len - 1 /\ \A i \in 1 .. len - 1 : buffer[i] = bytes[i + 1]
    OBVIOUS
  <2> HIDE DEF buffer
  <2> QED BY <2>1, <2>2
<1>2. ASSUME NEW i \in 1 .. len - 1
      PROVE  SubSeq(bits, 8 * i - 7, 8 * i) = ShiftOut(bytes[i + 1], 8)
  <2> DEFINE out == ShiftOut(bytes[i + 1], 8)
  <2>1. bytes[i + 1] \in Octets
    OBVIOUS
  <2>2. out \in Seq(0 .. 1) /\ Len(out) = 8
    BY <2>1, ByteLength
  <2>3. \A j \in 1 .. 8 :
           LET k == 8 * i - 8 + j
           IN  k \in 1 .. 8 * n /\ 2 + (k - 1) \div 8 = i + 1 /\ 1 + ((k - 1) % 8) = j
    OBVIOUS
  <2>4. \A j \in 1 .. 8 : bits[8 * i - 8 + j] = out[j]
    BY <2>3
  <2>5. SubSeq(bits, 8 * i - 7, 8 * i) = [j \in 1 .. 8 |-> bits[8 * i - 8 + j]]
    <3> HIDE DEF bits
    <3>1. SubSeq(bits, 8 * i - 7, 8 * i) =
            [j \in 1 .. (1 + 8 * i) - (8 * i - 7) |-> bits[(j + (8 * i - 7)) - 1]]
      BY DEF SubSeq
    <3>2. (1 + 8 * i) - (8 * i - 7) = 8 /\ \A j \in 1 .. 8 : (j + (8 * i - 7)) - 1 = 8 * i - 8 + j
      OBVIOUS
    <3> QED BY <3>1, <3>2
  <2> HIDE DEF bits, out
  <2>6. out = [j \in 1 .. 8 |-> out[j]]
    BY <2>2
  <2>7. SubSeq(bits, 8 * i - 7, 8 * i) = out
    BY <2>4, <2>5, <2>6
  <2> QED BY <2>7 DEF out
<1> HIDE DEF bits, buffer
<1>3. Answers(bits, buffer)
  BY <1>1, <1>2, SMTT(30) DEF Answers
<1> QED BY <1>3 DEF bits, buffer, BitsOf

\* What is read from a FIFO is what hw3000_fifo_read makes of its bytes and of what
\* comes after its end.
LEMMA FifoRead ==
    ASSUME hw3000_process, chip.irq = TRUE, chip.fifo \in Seq(Octets)
    PROVE  \E noise \in {0, 255}, again \in BOOLEAN :
             /\ rx_buffer' = ReadBack(chip.fifo \o Noise(noise))
             /\ chip' = [chip EXCEPT !.fifo = <<>>, !.irq = again]
<1> DEFINE Stream(noise) == chip.fifo \o Noise(noise)
           First(bytes) == [command \in ReadCommands |-> ShiftOut(Head(bytes), 8)]
           Rest(bytes) == [command \in ReadCommands |->
                 [i \in 1 .. 8 * (RX_SIZE - 1) |->
                    ShiftOut(bytes[2 + (i - 1) \div 8], 8)[1 + ((i - 1) % 8)]]]
<1>1. PICK noise \in {0, 255}, again \in BOOLEAN :
        /\ rx_buffer' = hw3000_fifo_read(First(Stream(noise)), Rest(Stream(noise)))
        /\ chip' = [chip EXCEPT !.fifo = <<>>, !.irq = again]
  BY DEF hw3000_process, Noise
<1> DEFINE bytes == Stream(noise)
           byte == bytes[1]
           len == IF byte > RX_SIZE THEN RX_SIZE ELSE byte
           buffer == [i \in 1 .. len - 1 |-> bytes[i + 1]]
           a == HW3000_REG_FIFODATA
<1>2. RX_SIZE \in Nat /\ RX_SIZE >= 1 /\ a \in 0 .. 127
  <2>1. a \in 0 .. 127
    BY SMT DEF HW3000_REG_FIFODATA
  <2> QED BY <2>1, BufferSize
<1>3. /\ bytes \in Seq(Octets) /\ Head(bytes) = byte /\ byte \in 0 .. 255
      /\ \A i \in 1 .. RX_SIZE : bytes[i] \in Octets
  <2>1. Yields(chip.fifo, noise, bytes)
    BY FifoYields
  <2> HIDE DEF bytes, First, Rest, len, buffer
  <2> QED BY <2>1 DEF Yields
<1> HIDE DEF Stream, bytes
<1>4. rx_buffer' = hw3000_fifo_read(First(bytes), Rest(bytes))
  BY <1>1 DEF bytes
<1>5. len \in 0 .. RX_SIZE
  <2> HIDE DEF byte
  <2>1. CASE byte > RX_SIZE
    BY <1>2, <2>1
  <2>2. CASE ~(byte > RX_SIZE)
    BY <1>2, <1>3, <2>2
  <2> QED BY <2>1, <2>2
<1>6. spi_read8(a, First(bytes)) = byte
  <2>1. ReadCommand(a) \in ReadCommands
    BY <1>2, ReadAddress
  <2>2. First(bytes)[ReadCommand(a)] = ShiftOut(byte, 8)
    BY <1>3, <2>1
  <2>3. a \in 0 .. 127 /\ byte \in 0 .. 255
    BY <1>2, <1>3
  <2> HIDE DEF First, Rest, byte, a, len, buffer
  <2>4. ReadsByte(a, First(bytes), byte)
    BY <2>2, <2>3, ByteReadThrough
  <2> QED BY <2>4 DEF ReadsByte
<1>7. len # 0 => spi_readbytes(a, len - 1, Rest(bytes)) = buffer
  <2> SUFFICES ASSUME len # 0 PROVE spi_readbytes(a, len - 1, Rest(bytes)) = buffer
      OBVIOUS
  <2>1. ReadCommand(a) \in ReadCommands
    BY <1>2, ReadAddress
  <2>2. Rest(bytes)[ReadCommand(a)] = [i \in 1 .. 8 * (RX_SIZE - 1) |->
                    ShiftOut(bytes[2 + (i - 1) \div 8], 8)[1 + ((i - 1) % 8)]]
    BY <2>1
  <2> HIDE DEF Rest, byte, a
  <2>3. RX_SIZE - 1 \in Nat /\ len \in 1 .. (RX_SIZE - 1) + 1
    BY <1>2, <1>5
  <2>4. \A i \in 1 .. RX_SIZE - 1 : bytes[i + 1] \in Octets
    BY <1>2, <1>3
  <2> HIDE DEF len
  <2>5. Answers(Rest(bytes)[ReadCommand(a)], buffer)
    <3> DEFINE n == RX_SIZE - 1
    <3>1. n \in Nat /\ len \in 1 .. n + 1 /\ \A i \in 1 .. n : bytes[i + 1] \in Octets
      BY <2>3, <2>4
    <3>2. Rest(bytes)[ReadCommand(a)] = BitsOf(bytes, n)
      BY <2>2 DEF BitsOf
    <3> HIDE DEF n
    <3>3. Answers(BitsOf(bytes, n), buffer)
      BY <3>1, BitsAnswer
    <3> HIDE DEF buffer
    <3> QED BY <3>2, <3>3
  <2>6. buffer \in Seq(Octets) /\ Len(buffer) = len - 1
    BY <2>3, <2>4, <1>2
  <2> HIDE DEF buffer
  <2>7. spi_readbytes(a, Len(buffer), Rest(bytes)) = buffer
    BY <1>2, <2>5, <2>6, ReadBytesThrough
  <2> QED BY <2>6, <2>7
<1>8. rx_buffer' = ReadBack(bytes)
  <2> HIDE DEF First, Rest
  <2>1. rx_buffer' = IF len = 0 THEN <<>>
                       ELSE <<len>> \o spi_readbytes(a, len - 1, Rest(bytes))
    BY <1>4, <1>6 DEF hw3000_fifo_read
  <2>2. rx_buffer' = IF len = 0 THEN <<>> ELSE <<len>> \o buffer
    BY <1>7, <2>1
  <2> QED BY <2>2 DEF ReadBack
<1> QED BY <1>1, <1>8 DEF bytes, Stream

\* A pendant's frame is read as it is.  What is read of another, or of nothing, is
\* never one of the pendant's, and is nothing if its first byte is 0.
LEMMA FrameIsRead ==
    ASSUME NEW noise \in {0, 255}, NEW fifo \in {<<>>} \cup PendantFrames \cup ForeignFrames
    PROVE  LET read == ReadBack(fifo \o Noise(noise))
           IN  IF fifo \in PendantFrames THEN read = fifo /\ read # <<>>
               ELSE IF fifo = <<>> THEN read = <<>> \/ read \notin PendantFrames
               ELSE IF fifo[1] = 0 THEN read = <<>>
               ELSE read # <<>> /\ read \notin PendantFrames
<1> DEFINE bytes == fifo \o Noise(noise)
           n == Len(fifo)
           byte == bytes[1]
           len == IF byte > RX_SIZE THEN RX_SIZE ELSE byte
           read == ReadBack(bytes)
<1>1. RX_SIZE \in Nat /\ RX_SIZE >= 1 /\ RX_SIZE <= 255 /\ fifo \in Seq(Octets)
  <2>1. fifo = <<>> => fifo \in Seq(Octets)
    OBVIOUS
  <2>2. /\ \A g \in PendantFrames : g \in Seq(Octets)
        /\ \A f \in ForeignFrames : f \in Seq(Octets)
    BY FrameAssumption DEF Octets
  <2>3. fifo = <<>> \/ fifo \in PendantFrames \/ fifo \in ForeignFrames
    OBVIOUS
  <2> QED BY <2>1, <2>2, <2>3, BufferSize, Zenon
<1>3. n \in Nat /\ DOMAIN fifo = 1 .. n /\ (fifo = <<>> <=> n = 0) /\ fifo = [i \in 1 .. n |-> fifo[i]]
  BY <1>1, Elements
<1>4. /\ \A i \in 1 .. n : bytes[i] = fifo[i]
      /\ fifo = <<>> => byte = noise
      /\ byte \in 0 .. 255 /\ byte = bytes[1]
  <2>1. Yields(fifo, noise, bytes)
    BY <1>1, FifoYields
  <2> HIDE DEF bytes
  <2> QED BY <2>1 DEF Yields
<1> HIDE DEF bytes, n, byte
<1>5. /\ len \in 0 .. RX_SIZE /\ (len = 0 <=> byte = 0)
      /\ (byte > RX_SIZE => len = RX_SIZE) /\ (~(byte > RX_SIZE) => len = byte)
  <2>0. byte \in 0 .. 255
    BY <1>4
  <2>1. CASE byte > RX_SIZE
    BY <2>0, <2>1, BufferSize
  <2>2. CASE ~(byte > RX_SIZE)
    BY <2>0, <2>2, BufferSize
  <2> QED BY <2>1, <2>2
<1>6. read = IF len = 0 THEN <<>> ELSE <<len>> \o [i \in 1 .. len - 1 |-> bytes[i + 1]]
  BY DEF ReadBack, byte
<1> HIDE DEF read, len
<1>7. len # 0 => /\ Len(read) = len /\ DOMAIN read = 1 .. len /\ read # <<>> /\ read[1] = len
                 /\ \A i \in 2 .. len : read[i] = bytes[i]
                 /\ read = [i \in 1 .. len |-> read[i]]
  <2> SUFFICES ASSUME len # 0
               PROVE  /\ Len(read) = len /\ DOMAIN read = 1 .. len /\ read # <<>> /\ read[1] = len
                      /\ \A i \in 2 .. len : read[i] = bytes[i]
                      /\ read = [i \in 1 .. len |-> read[i]]
      OBVIOUS
  <2> DEFINE rest == [i \in 1 .. len - 1 |-> bytes[i + 1]]
  <2>1. len - 1 \in Nat /\ len \in Nat /\ len >= 1
    BY <1>1, <1>5
  <2> HIDE DEF len
  <2>2. /\ rest = [i \in 1 .. len - 1 |-> rest[i]]
        /\ \A i \in 1 .. len - 1 : rest[i] = bytes[i + 1]
    OBVIOUS
  <2> HIDE DEF rest
  <2> DEFINE T == {len} \cup {rest[i] : i \in 1 .. len - 1}
  <2> DEFINE one == <<len>>
  <2>3. rest \in Seq(T) /\ Len(rest) = len - 1 /\ one \in Seq(T) /\ Len(one) = 1
        /\ one[1] = len
    <3>1. \A i \in 1 .. len - 1 : rest[i] \in T
      OBVIOUS
    <3>2. len \in T
      OBVIOUS
    <3> HIDE DEF T
    <3>3. rest \in Seq(T) /\ Len(rest) = len - 1
      BY <2>1, <2>2, <3>1, Row
    <3> QED BY <3>2, <3>3
  <2> HIDE DEF T
  <2>4. read = one \o rest
    BY <1>6, <2>1 DEF rest
  <2> HIDE DEF one
  <2>5. /\ Len(read) = 1 + (len - 1) /\ read \in Seq(T) /\ read[1] = len
        /\ \A i \in 1 .. len - 1 : read[1 + i] = rest[i]
    <3>1. 1 \in 1 .. Len(one)
      BY <2>3
    <3>2. IsConcat(read, one, rest, T)
      BY <2>3, <2>4, Appended
    <3> QED BY <2>3, <3>1, <3>2 DEF IsConcat
  <2>6. \A i \in 2 .. len : i - 1 \in 1 .. len - 1 /\ 1 + (i - 1) = i /\ (i - 1) + 1 = i
    BY <2>1
  <2>7. Len(read) = len
    BY <2>1, <2>5
  <2>8. DOMAIN read = 1 .. len /\ read # <<>> /\ read = [i \in 1 .. len |-> read[i]]
    BY <2>1, <2>5, <2>7, Elements
  <2>9. ASSUME NEW i \in 2 .. len PROVE read[i] = bytes[i]
    <3>1. i - 1 \in 1 .. len - 1 /\ 1 + (i - 1) = i /\ (i - 1) + 1 = i
      BY <2>6
    <3>2. read[1 + (i - 1)] = rest[i - 1] /\ rest[i - 1] = bytes[(i - 1) + 1]
      BY <2>2, <2>5, <3>1
    <3> QED BY <3>1, <3>2
  <2> QED BY <2>5, <2>7, <2>8, <2>9
<1>8. ASSUME fifo \in PendantFrames PROVE read = fifo /\ read # <<>>
  <2>1. n \in 2 .. RX_SIZE - 1 /\ fifo[1] = n
    BY <1>8, FrameAssumption DEF n
  <2>2. byte = n
    BY <1>4, <1>5, <2>1
  <2>3. len = n
    BY <1>1, <1>5, <2>1, <2>2
  <2>4. \A i \in 1 .. n : read[i] = fifo[i]
    <3> SUFFICES ASSUME NEW i \in 1 .. n PROVE read[i] = fifo[i]
        OBVIOUS
    <3>1. CASE i = 1
      BY <1>7, <2>1, <2>3, <3>1
    <3>2. CASE i # 1
      <4>1. i \in 2 .. n
        BY <1>3, <3>2
      <4> QED BY <1>4, <1>7, <2>1, <2>3, <4>1
    <3> QED BY <3>1, <3>2
  <2>5. fifo = [i \in 1 .. n |-> fifo[i]]
    BY <1>3
  <2>6. read = [i \in 1 .. n |-> read[i]] /\ read # <<>>
    BY <1>7, <2>1, <2>3
  <2> QED BY <2>4, <2>5, <2>6
<1>9. ASSUME fifo = <<>> PROVE read = <<>> \/ read \notin PendantFrames
  <2>1. byte = noise
    BY <1>4, <1>9
  <2>2. CASE noise = 0
    BY <1>5, <1>6, <2>1, <2>2
  <2>3. CASE noise = 255
    <3>1. len = RX_SIZE /\ len # 0
      BY <1>1, <1>5, <2>1, <2>3
    <3>2. Len(read) = RX_SIZE
      BY <1>7, <3>1
    <3>3. \A g \in PendantFrames : Len(g) # RX_SIZE
      BY <1>1, FrameAssumption
    <3> QED BY <3>2, <3>3
  <2> QED BY <2>2, <2>3
<1>10. ASSUME fifo # <<>>, fifo[1] = 0 PROVE read = <<>>
  <2>1. n # 0
    BY <1>3, <1>10
  <2>2. byte = 0
    BY <1>3, <1>4, <1>5, <1>10, <2>1
  <2> QED BY <1>5, <1>6, <2>2
<1>11. ASSUME fifo \notin PendantFrames, fifo # <<>>, fifo[1] # 0
       PROVE  read # <<>> /\ read \notin PendantFrames
  <2>1. n # 0
    BY <1>3, <1>11
  <2>2. byte = fifo[1] /\ len # 0
    BY <1>3, <1>4, <1>5, <1>11, <2>1
  <2>3. ASSUME read \in PendantFrames PROVE FALSE
    <3>1. Len(read) \in 2 .. RX_SIZE - 1 /\ read \in PendantFrames /\ Len(read) = len
      BY <1>7, <2>2, <2>3, FrameAssumption
    <3>2. len = byte
      BY <1>1, <1>4, <1>5, <3>1
    <3>3. PICK i \in DOMAIN fifo \cap DOMAIN read : fifo[i] # read[i]
      BY <1>11, <2>3, FrameAssumption
    <3>4. i \in 1 .. n /\ i \in 1 .. len /\ bytes[i] = fifo[i]
      BY <1>3, <1>4, <1>7, <2>2, <3>3
    <3>5. CASE i = 1
      BY <1>5, <1>7, <2>2, <3>2, <3>3, <3>4, <3>5
    <3>6. CASE i # 1
      <4>1. i \in 2 .. len
        BY <1>1, <1>5, <3>4, <3>6
      <4> QED BY <1>7, <2>2, <3>3, <3>4, <4>1
    <3> QED BY <3>5, <3>6
  <2> QED BY <1>7, <2>2, <2>3
<1> QED BY <1>8, <1>9, <1>10, <1>11 DEF read, bytes
=============================================================================
