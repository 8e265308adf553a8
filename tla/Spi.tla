-------------------------------- MODULE Spi --------------------------------
(***************************************************************************)
(* firmware/dongle/spi.c: the bits a transfer puts on MOSI, and the value   *)
(* it makes of the bits it finds on MISO.  A transfer is synchronous and    *)
(* keeps no state; Miso[command] is what the chip answers to a command.     *)
(***************************************************************************)
EXTENDS Naturals, Sequences

TopBit(val, w) == val \div 2 ^ (w - 1)

\* The top bit is put on the wire, then the value shifted, w times.
ShiftOut(val, w) == [i \in 1 .. w |-> TopBit((val * 2 ^ (i - 1)) % 2 ^ w, w)]

\* Each bit comes in from below and pushes the value up, out of w bits.
ShiftIn(start, bits, w) ==
    LET val[n \in 0 .. Len(bits)] ==
            IF n = 0 THEN start ELSE ((2 * val[n - 1]) % 2 ^ w) + bits[n]
    IN  val[Len(bits)]

\* The most significant bit of the address says whether this is a write.
WriteCommand(addr) == ShiftOut((addr % 128) + 128, 8)
ReadCommand(addr) == ShiftOut(addr % 128, 8)

ReadCommands == {ReadCommand(addr) : addr \in 0 .. 127}

spi_write16(addr, val) == WriteCommand(addr) \o ShiftOut(val, 16)

spi_writebytes(addr, buffer) ==
    LET wire[n \in 0 .. Len(buffer)] ==
            IF n = 0 THEN WriteCommand(addr) ELSE wire[n - 1] \o ShiftOut(buffer[n], 8)
    IN  wire[Len(buffer)]

spi_read16(addr, Miso) == ShiftIn(0, SubSeq(Miso[ReadCommand(addr)], 1, 16), 16)

spi_read8(addr, Miso) == ShiftIn(0, SubSeq(Miso[ReadCommand(addr)], 1, 8), 8)

\* The value is not cleared between two bytes; eight shifts push the old one out.
spi_readbytes(addr, len, Miso) ==
    LET bits == Miso[ReadCommand(addr)]
        val[n \in 0 .. len] ==
            IF n = 0 THEN 0 ELSE ShiftIn(val[n - 1], SubSeq(bits, 8 * n - 7, 8 * n), 8)
    IN  [i \in 1 .. len |-> val[i]]

-----------------------------------------------------------------------------
(* The other end of the wire *)

IsWrite(wire) == wire[1] = 1
Address(wire) == ShiftIn(0, SubSeq(wire, 2, 8), 7)
Word(wire) == ShiftIn(0, SubSeq(wire, 9, 24), 16)
Bytes(wire) ==
    [i \in 1 .. (Len(wire) - 8) \div 8 |-> ShiftIn(0, SubSeq(wire, 8 * i + 1, 8 * i + 8), 8)]
=============================================================================
