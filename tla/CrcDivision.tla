---------------------------- MODULE CrcDivision -----------------------------
(* What the checksum of Crc8 should be: the remainder of the message as a   *)
(* polynomial, divided by x^8 + x^5 + x^4 + 1.                              *)
EXTENDS Crc8

(* Bit k of the message, k = 0 first: byte 1 first, low bit first, and then *)
(* eight zeros.                                                             *)
MessageBit(m, k) ==
  IF k < 8 * Len(m) THEN Bit(m[(k \div 8) + 1], k % 8) ELSE 0

(* A step of long division: the register holds eight bits, the highest      *)
(* power first.                                                             *)
DivisionStep(reg, next) ==
  LET shifted == [i \in 0..7 |-> IF i < 7 THEN reg[i + 1] ELSE next]
  IN  IF reg[0] = 1
      THEN [i \in 0..7 |-> IF i \in {2, 3, 7} THEN 1 - shifted[i] ELSE shifted[i]]
      ELSE shifted

Remainder(m) ==
  LET n == 8 * Len(m) + 8
      reg[k \in 0..n] ==
        IF k = 0 THEN [i \in 0..7 |-> 0]
        ELSE DivisionStep(reg[k - 1], MessageBit(m, k - 1))
  IN  Number(reg[n])
=============================================================================
