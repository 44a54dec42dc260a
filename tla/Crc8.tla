-------------------------------- MODULE Crc8 --------------------------------
(* The checksum of a packet: AddToCRC of utils/crc8.py.                     *)
EXTENDS Integers, Sequences

Byte == 0..255

Bit(x, i) == (x \div 2^i) % 2

(* The byte with these bits, bit 0 the lowest.                              *)
Number(bit) ==
  bit[0] + 2 * bit[1] + 4 * bit[2] + 8 * bit[3] + 16 * bit[4] + 32 * bit[5]
    + 64 * bit[6] + 128 * bit[7]

(* x ^ y on bytes.                                                          *)
Xor(x, y) == Number([i \in 0..7 |-> (Bit(x, i) + Bit(y, i)) % 2])

(* Mutant: the usual polynomial, not reflected.                             *)
ShiftWrongPolynomial(s) ==
  LET half == s[2] \div 2
  IN  <<s[1] \div 2, IF s[1] % 2 # s[2] % 2 THEN Xor(half, 49) ELSE half>>

(* One turn of the loop: s is the pair of b and crc.                        *)
Shift(s) ==
  LET half == s[2] \div 2
  IN  <<s[1] \div 2, IF s[1] % 2 # s[2] % 2 THEN Xor(half, 140) ELSE half>>

AddToCRC(b, crc) ==
  LET turn[i \in 0..8] ==
        IF i = 0 THEN <<IF b < 0 THEN b + 256 ELSE b, crc>>
        ELSE Shift(turn[i - 1])
  IN  turn[8][2]

(* calc_crc_for_byte_array()                                                *)
CrcOfBytes(bytes) ==
  LET crc[i \in 0..Len(bytes)] ==
        IF i = 0 THEN 0 ELSE AddToCRC(bytes[i], crc[i - 1])
  IN  crc[Len(bytes)]

(* The same with the values of AddToCRC computed once: it depends on its    *)
(* arguments only through b ^ crc (lemma TableIsLoop of Crc8Proofs).        *)
CrcTable == [x \in Byte |-> AddToCRC(x, 0)]

NextCRC(b) == [crc \in Byte |-> CrcTable[Xor(b, crc)]]

(* The checksum of a sequence of bytes, as send_string() and receive()      *)
(* accumulate it.                                                           *)
Checksum(bytes) ==
  LET crc[i \in 0..Len(bytes)] ==
        IF i = 0 THEN 0 ELSE NextCRC(bytes[i])[crc[i - 1]]
  IN  crc[Len(bytes)]

(* append() and check().                                                    *)
AppendChecksum(bytes) == Append(bytes, Checksum(bytes))

Check(bytes) == Checksum(bytes) = 0

=============================================================================
