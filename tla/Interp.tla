------------------------------- MODULE Interp -------------------------------
(***************************************************************************)
(* The value semantics of the interpreter (src/insn.cpp): one operator per  *)
(* instruction class, from a machine and an instruction to a result.        *)
(* Offsets and immediates that name a width (sign extension, byte swap) keep *)
(* the source's numbers 8, 16, 32 and 64.                                   *)
(***************************************************************************)
EXTENDS Machine

SrcOf(m, i) == IF i.x THEN m.r[i.src] ELSE Low(i.imm, W64)

(* The operation of an ALU instruction on operands of w bits; alu64 and alu
   differ only in the width.                                                 *)
AluValue(op, off, dst, src, w) ==
    LET sd == Signed(dst, w)
        ss == Signed(src, w)
        sh == src % w
        overflow == ss = -1 /\ sd = IntMin(w)
    IN CASE op = "ADD"  -> Low(dst + src, w)
         [] op = "SUB"  -> Low(dst - src, w)
         [] op = "MUL"  -> Low(dst * src, w)
         [] op = "DIV"  -> IF src = 0 THEN 0
                           ELSE IF off = 0 THEN dst \div src
                           ELSE IF overflow THEN Low(IntMin(w), w)
                           ELSE Low(Quot(sd, ss), w)
         [] op = "MOD"  -> IF src = 0 THEN dst
                           ELSE IF off = 0 THEN dst % src
                           ELSE IF overflow THEN 0
                           ELSE Low(Rem(sd, ss), w)
         [] op = "OR"   -> Bor(dst, src)
         [] op = "AND"  -> Band(dst, src)
         [] op = "XOR"  -> Bxor(dst, src)
         [] op = "LSH"  -> Shl(dst, sh, w)
         [] op = "RSH"  -> Shr(dst, sh, w)
         [] op = "ARSH" -> Sar(dst, sh, w)
         [] op = "NEG"  -> Low(-dst, w)
         [] op = "MOV"  -> IF off = 0 THEN src
                           ELSE IF off \in {8, 16} \/ (off = 32 /\ w = W64)
                                THEN SExt(src, Bits(off), w) ELSE dst

alu64(m, i) ==
    IF i.dst >= 10 THEN Stop(m)
    ELSE IF i.op = "END"
         THEN IF i.imm \in {16, 32, 64}
              THEN Put(m, i.dst, ByteSwap(m.r[i.dst], Bits(i.imm))) ELSE Stop(m)
    ELSE Put(m, i.dst, AluValue(i.op, i.off, m.r[i.dst], SrcOf(m, i), W64))

(* alu, whose END converts to big endian (X) or to little endian (K), the
   64-bit forms working on the full register.                                *)
alu(m, i) ==
    LET full == m.r[i.dst] IN
    IF i.dst >= 10 THEN Stop(m)
    ELSE IF i.op = "END"
         THEN IF i.imm \notin {16, 32, 64} THEN Stop(m)
              ELSE Put(m, i.dst, IF i.x THEN ByteSwap(full, Bits(i.imm))
                                 ELSE Low(full, Bits(i.imm)))
    ELSE Put(m, i.dst,
             AluValue(i.op, i.off, Low(full, W32), Low(SrcOf(m, i), W32), W32))

(* A conditional jump on operands of w bits.                                  *)
JumpTaken(op, dst, src, w) ==
    LET sd == Signed(dst, w)
        ss == Signed(src, w)
    IN CASE op = "JEQ"  -> dst = src
         [] op = "JNE"  -> dst # src
         [] op = "JGT"  -> dst > src
         [] op = "JGE"  -> dst >= src
         [] op = "JLT"  -> dst < src
         [] op = "JLE"  -> dst <= src
         [] op = "JSET" -> Band(dst, src) # 0
         [] op = "JSGT" -> sd > ss
         [] op = "JSGE" -> sd >= ss
         [] op = "JSLT" -> sd < ss
         [] op = "JSLE" -> sd <= ss

jmp(m, i)   == Branched(m, JumpTaken(i.op, m.r[i.dst], SrcOf(m, i), W64))
jmp32(m, i) == Branched(m, JumpTaken(i.op, Low(m.r[i.dst], W32),
                                     Low(SrcOf(m, i), W32), W32))

-----------------------------------------------------------------------------
(* lddw: the high immediate is the next slot's, the low one is unsigned.  An
   instruction is given with both its slots, so neither can be unmapped.       *)
ld(m, i) ==
    IF i.dst >= 10 THEN Stop(m)
    ELSE Put(m, i.dst, Low(i.imm2 * 2^W32 + Low(i.imm, W32), W64))

(* The effective address of a memory instruction.                             *)
Target(m, base, off) == Low(m.r[base] + off, W64)

ldx(m, i) ==
    LET a == Target(m, i.src, i.off)
        v == Load(m.mem, a, Bytes(i.sz))
    IN IF i.dst >= 10 \/ ~mmu(a, Bytes(i.sz)) \/ (i.mode = "MEMSX" /\ i.sz = 64)
       THEN Stop(m)
       ELSE Put(m, i.dst, IF i.mode = "MEM" THEN v ELSE SExt(v, Bits(i.sz), W64))

st(m, i) ==
    LET a == Target(m, i.dst, i.off)
    IN IF ~mmu_w(a, Bytes(i.sz)) THEN Stop(m)
       ELSE Stored(m, Store(m.mem, a, Bytes(i.sz), Low(i.imm, W64)))

AtomicNew(op, old, src, w) ==
    CASE op = "ADD" -> Low(old + src, w)
      [] op = "OR"  -> Bor(old, src)
      [] op = "AND" -> Band(old, src)
      [] op = "XOR" -> Bxor(old, src)

(* do_atomic<T>: the old value goes, zero-extended, to the source register
   (FETCH, XCHG) or to r0 (CMPXCHG).                                         *)
do_atomic(m, i, a, w) ==
    LET n   == Bytes(i.sz)
        old == Load(m.mem, a, n)
        src == Low(m.r[i.src], w)
    IN CASE i.op = "XCHG" ->
              [Put(m, i.src, old) EXCEPT !.mem = Store(m.mem, a, n, src)]
         [] i.op = "CMPXCHG" ->
              [Put(m, 0, old) EXCEPT !.mem =
                 IF old = Low(m.r[0], w) THEN Store(m.mem, a, n, src) ELSE m.mem]
         [] i.op \in {"ADD", "OR", "AND", "XOR"} ->
              [(IF i.fetch THEN Put(m, i.src, old) ELSE Regd(m, m.r)) EXCEPT
                 !.mem = Store(m.mem, a, n, AtomicNew(i.op, old, src, w))]
         [] OTHER -> Stop(m)

stx(m, i) ==
    LET a == Target(m, i.dst, i.off)
        n == Bytes(i.sz)
    IN IF i.mode = "ATOMIC" /\ i.sz \notin {64, 32} THEN Stop(m)
       ELSE IF ~mmu_w(a, n) THEN Stop(m)
       ELSE IF i.mode = "ATOMIC" THEN do_atomic(m, i, a, Bits(i.sz))
       ELSE Stored(m, Store(m.mem, a, n, m.r[i.src]))

-----------------------------------------------------------------------------
(* do_softfp: the virtual floating-point and wide-integer instructions, whose
   operands are bit patterns in r1 and r2 and whose result is r0.            *)

(* The three-way comparison; a NaN compares as equal.                         *)
CmpValue(a, b, w) == IF FLt(a, b, w) THEN Low(-1, W64) ELSE IF FLt(b, a, w) THEN 1 ELSE 0

FpValue(op, a, b, w) ==
    CASE op \in FpArith \cup {"SQRT"} -> HostFp(op, a, IF op = "SQRT" THEN 0 ELSE b, w)
      [] op = "NEG"      -> Bxor(Low(a, w), SignMask(w))
      [] op = "FABS"     -> Mag(a, w)
      [] op = "COPYSIGN" -> Mag(a, w) + SignBit(b, w) * SignMask(w)
      [] op = "2SI"      -> Low(TruncInt(a, w), W64)
      [] op = "2DI"      -> Low(TruncInt(a, w), W64)
      [] op = "2USI"     -> Low(TruncInt(a, w), W32)
      [] op = "2UDI"     -> Low(TruncInt(a, w), W64)
      [] op = "SI2"      -> FromInt(Signed(a, W32), w)
      [] op = "DI2"      -> FromInt(Signed(a, W64), w)
      [] op = "USI2"     -> FromInt(Low(a, W32), w)
      [] op = "UDI2"     -> FromInt(a, w)
      [] op = "EXTEND"   -> Convert(Low(a, W32), W32, W64)
      [] op = "TRUNC"    -> Convert(a, W64, W32)
      [] op = "CMP"      -> CmpValue(a, b, w)
      [] op = "UNORD"    -> IF Unord(a, b, w) THEN 1 ELSE 0
      [] op = "UMULH"    -> (a * b) \div 2^W64
      [] OTHER           -> Low(-38, W64)

(* The 128-bit divisions: r2:r3 by r4:r5, the high half stored through r1.     *)
Div128Value(op, a, b) ==
    LET sa == Signed(a, 2 * W64)
        sb == Signed(b, 2 * W64)
    IN IF b = 0 THEN 0
       ELSE CASE op = "UDIV128" -> a \div b
              [] op = "UREM128" -> a % b
              [] op = "SDIV128" -> Low(Quot(sa, sb), 2 * W64)
              [] op = "SREM128" -> Low(Rem(sa, sb), 2 * W64)

do_softfp(m, c) ==
    IF c.op \in Div128
    THEN LET res == Div128Value(c.op, m.r[3] * 2^W64 + m.r[2], m.r[5] * 2^W64 + m.r[4])
         IN IF ~mmu_w(m.r[1], 8) THEN Stop(m)
            ELSE [Put(m, 0, Low(res, W64)) EXCEPT
                    !.mem = Store(m.mem, m.r[1], 8, res \div 2^W64)]
    ELSE Put(m, 0, FpValue(c.op, m.r[1], m.r[2], c.w))
=============================================================================
