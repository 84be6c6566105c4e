-------------------------------- MODULE Word --------------------------------
(***************************************************************************)
(* Machine words for the models of the instruction engines.  Every width of *)
(* the source is divided by eight, which keeps the ratios between the       *)
(* register (64), the sub-register (32), the half word (16) and the byte    *)
(* (8): a register has 8 bits, a sub-register 4, a half word 2 and a byte 1. *)
(* An immediate has the width of a sub-register and is signed.              *)
(***************************************************************************)
EXTENDS Integers, Bitwise

W64 == 8
W32 == 4
W16 == 2
W8  == 1

(* The width that an access-size or sign-extension field of the source names. *)
Bits(n) == CASE n = 64 -> W64 [] n = 32 -> W32 [] n = 16 -> W16 [] OTHER -> W8

Words(w)  == 0 .. 2^w - 1
Imms      == -(2^(W32 - 1)) .. 2^(W32 - 1) - 1

(* The C conversions: to an unsigned type, to a signed type, and the sign
   extension of the low w bits into a word of v bits.                        *)
Low(x, w)       == x % 2^w
Signed(x, w)    == IF Low(x, w) >= 2^(w - 1) THEN Low(x, w) - 2^w ELSE Low(x, w)
SExt(x, w, v)   == Low(Signed(x, w), v)
IntMin(w)       == -(2^(w - 1))
SignMask(w)     == 2^(w - 1)

(* Division that truncates toward zero, as C's / and %, div, idiv and sdiv.  *)
Abs(x)     == IF x < 0 THEN -x ELSE x
Quot(a, b) == LET q == Abs(a) \div Abs(b) IN IF (a < 0) = (b < 0) THEN q ELSE -q
Rem(a, b)  == a - b * Quot(a, b)

Shl(x, n, w) == Low(x * 2^n, w)
Shr(x, n, w) == Low(x, w) \div 2^n
Sar(x, n, w) == Low(Signed(x, w) \div 2^n, w)

Bit(x, i) == (x \div 2^i) % 2

(* Byte reversal of the low w bits; a byte is one bit wide.                  *)
ByteSwap(x, w) ==
    LET rev[i \in 0 .. w] ==
          IF i = 0 THEN 0 ELSE rev[i - 1] + Bit(x, i - 1) * 2^(w - i)
    IN rev[w]

Band(x, y) == x & y
Bor(x, y)  == x | y
Bxor(x, y) == x ^^ y
=============================================================================
