------------------------------ MODULE Machine -------------------------------
(***************************************************************************)
(* What the three instruction engines of the virtual machine share: guest   *)
(* registers r0..r10, a guest memory with one writable and one read-only    *)
(* map, the scaled IEEE formats the virtual floating-point instructions     *)
(* compute on, and the form of an instruction and of a result.              *)
(*                                                                          *)
(* A machine is [r |-> registers, mem |-> memory].  An engine applied to a  *)
(* machine yields [ok, r, mem, taken]: ok is FALSE when the engine stops    *)
(* the task (interpreter) or takes its abort exit (compiled code), taken is *)
(* the outcome of a conditional jump.                                       *)
(***************************************************************************)
EXTENDS Word

Regs == 0 .. 10

RwBase == 64
RwSize == 9
RoBase == 128
RoSize == 8

RwAddrs == RwBase .. RwBase + RwSize - 1
RoAddrs == RoBase .. RoBase + RoSize - 1
Addrs   == RwAddrs \cup RoAddrs

(* vm::mmu and vm::mmu_w by what they decide: the whole access lies in one
   map, and that map is writable.                                            *)
mmu(a, n)  == {a + k : k \in 0 .. n - 1} \subseteq RwAddrs
              \/ {a + k : k \in 0 .. n - 1} \subseteq RoAddrs
mmu_w(a, n) == {a + k : k \in 0 .. n - 1} \subseteq RwAddrs

(* A byte is one bit wide, so an access of n bytes is a word of n bits.       *)
Load(mem, a, n) ==
    LET sum[k \in 0 .. n] ==
          IF k = 0 THEN 0 ELSE sum[k - 1] + mem[a + k - 1] * 2^(k - 1)
    IN sum[n]
Store(mem, a, n, v) ==
    [b \in Addrs |-> IF b \in a .. a + n - 1 THEN Bit(v, b - a) ELSE mem[b]]

Bytes(sz) == sz \div 8

Stop(m)         == [ok |-> FALSE, r |-> m.r, mem |-> m.mem, taken |-> FALSE]
Regd(m, r)      == [ok |-> TRUE, r |-> r, mem |-> m.mem, taken |-> FALSE]
Put(m, d, v)    == Regd(m, [m.r EXCEPT ![d] = v])
Stored(m, mem)  == [ok |-> TRUE, r |-> m.r, mem |-> mem, taken |-> FALSE]
Branched(m, t)  == [ok |-> TRUE, r |-> m.r, mem |-> m.mem, taken |-> t]
(* emit_* returned false: the function keeps being interpreted.              *)
Refused         == [ok |-> FALSE, refused |-> TRUE]

-----------------------------------------------------------------------------
(* The scaled IEEE formats: double is sign, 4 exponent and 3 fraction bits in
   8 bits; float is sign, 2 exponent bits and 1 fraction bit in 4.           *)

Frac(w) == IF w = W64 THEN 3 ELSE 1
Mag(x, w)     == Low(x, w - 1)
SignBit(x, w) == Bit(x, w - 1)
InfMag(w)     == 2^(w - 1) - 2^Frac(w)
IsNaN(x, w)   == Mag(x, w) > InfMag(w)

(* IEEE ordering is the ordering of sign-magnitude integers; -0 equals +0.   *)
Rank(x, w)   == IF SignBit(x, w) = 1 THEN -Mag(x, w) ELSE Mag(x, w)
FLt(a, b, w) == ~IsNaN(a, w) /\ ~IsNaN(b, w) /\ Rank(a, w) < Rank(b, w)
FEq(a, b, w) == ~IsNaN(a, w) /\ ~IsNaN(b, w) /\ Rank(a, w) = Rank(b, w)
Unord(a, b, w) == IsNaN(a, w) \/ IsNaN(b, w)

(* The value of a magnitude, in units of 2^-9 (the smallest double).          *)
Unit == 2^9
Value(mag, w) ==
    LET e == mag \div 2^Frac(w)
        f == mag % 2^Frac(w)
        scale == IF w = W64 THEN 1 ELSE 2^8
    IN scale * (IF e = 0 THEN f ELSE (2^Frac(w) + f) * 2^(e - 1))

(* Truncation toward zero of a finite value, as an integer.                   *)
TruncInt(x, w) ==
    LET v == Value(Mag(x, w), w) \div Unit
    IN IF SignBit(x, w) = 1 THEN -v ELSE v
Finite(x, w) == Mag(x, w) < InfMag(w)

(* Round to nearest, ties to even: the magnitude g for which v lies between the
   midpoints to g's two neighbours, and on a midpoint only if g is even.  The
   magnitude of infinity is the upper neighbour of the largest finite one,
   which is IEEE's overflow rule.                                            *)
Nearest(v, w) ==
    LET Mid(g) == Value(g, w) + Value(g + 1, w)
    IN (IF v < 0 THEN SignMask(w) ELSE 0)
       + CHOOSE g \in 0 .. InfMag(w) :
           /\ g > 0 => 2 * Abs(v) >= Mid(g - 1) + (g % 2)
           /\ g < InfMag(w) => 2 * Abs(v) + (g % 2) <= Mid(g)
FromInt(n, w) == Nearest(n * Unit, w)
Convert(x, from, to) ==
    IF IsNaN(x, from) THEN InfMag(to) + 1
    ELSE IF Mag(x, from) = InfMag(from) THEN InfMag(to) + SignBit(x, from) * SignMask(to)
    ELSE LET g == Nearest(Value(Mag(x, from), from), to)
         IN g + SignBit(x, from) * SignMask(to)

(* Addition, multiplication, square root...: every engine issues the host's
   own operation on the operand patterns, so one fixed function of the
   patterns at the operation's width stands for it.                          *)
HostFp(op, a, b, w) ==
    LET k == CASE op = "ADD" -> 1 [] op = "SUB" -> 2 [] op = "MUL" -> 3
               [] op = "DIV" -> 4 [] OTHER -> 5
    IN Low(k + 3 * Low(a, w) + 5 * k * Low(b, w), w)

FpArith == {"ADD", "SUB", "MUL", "DIV"}
FpBits  == {"NEG", "FABS", "COPYSIGN"}
FpToInt == {"2SI", "2DI", "2USI", "2UDI"}
IntToFp == {"SI2", "DI2", "USI2", "UDI2"}
Div128  == {"UDIV128", "UREM128", "SDIV128", "SREM128"}

(* The operations that compute in a floating-point format, each for both
   formats, and the ones that do not.                                       *)
FpOps == FpArith \cup FpBits \cup FpToInt \cup IntToFp \cup {"SQRT", "CMP", "UNORD"}
FpCalls == [op : FpOps, w : {W64, W32}]
           \cup [op : {"EXTEND", "TRUNC", "UMULH", "UNKNOWN"} \cup Div128, w : {W64}]
=============================================================================
