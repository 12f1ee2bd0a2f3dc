------------------------------ MODULE Checksum ------------------------------
(***************************************************************************)
(* calculate_checksum(): a CRC of eight bits with the polynomial           *)
(* x^8 + x^2 + x + 1, fed most significant bit first.                      *)
(***************************************************************************)
EXTENDS Integers, Sequences

\* One bit enters the register at its low end; 0x07 is subtracted for a bit
\* that leaves it at its high end, which flips the three lowest bits.
Shift(crc, bit) ==
  LET next == ((2 * crc) % 256) + bit
  IN  IF crc >= 128 THEN 8 * (next \div 8) + (7 - (next % 8)) ELSE next

\* The same as a table.
Shifted == [crc \in 0 .. 255 |-> [bit \in 0 .. 1 |-> Shift(crc, bit)]]

\* The bits of a byte, from the most significant one, which is bit 0.
Bit(byte, i) == (byte \div 2^(7 - i)) % 2

\* The register after each bit; it starts at 0xB5.
Register(bytes) ==
  LET crc[n \in 0 .. 8 * Len(bytes)] ==
        IF n = 0 THEN 181
        ELSE Shifted[crc[n - 1]][Bit(bytes[((n - 1) \div 8) + 1], (n - 1) % 8)]
  IN  crc

\* The data and a zero byte go in; what comes out is xor-ed with 0x02.
CalculateChecksum(data) ==
  LET crc == Register(Append(data, 0))[8 * (Len(data) + 1)]
  IN  IF (crc \div 2) % 2 = 1 THEN crc - 2 ELSE crc + 2
=============================================================================
