------------------------------- MODULE SoftFp --------------------------------
(***************************************************************************)
(* The LLVM pass that replaces floating-point and 128-bit instructions by    *)
(* virtual instructions (src/passes/BpfSoftFp.cpp), as what the rewritten    *)
(* program computes on engine e: the interpreter or the code of an emitter.  *)
(* A 128-bit integer is a word of 2 * W64 bits.                              *)
(***************************************************************************)
EXTENDS Interp, X86, A64

(* The register file the samples are placed in: every register differs.       *)
Filler == [k \in Regs |-> 17 * k + 3]
Memory(p) == [a \in Addrs |-> Bit(p, (a - RwBase) % 9)]

M(r, p) == [r |-> r, mem |-> Memory(p)]

FpInsn(c) == [class |-> "FP", op |-> c.op, w |-> c.w]

emit_call_softfp_slow(engine, res) ==
    CASE engine = "x86" -> x86_emit_call_softfp_slow(res)
      [] engine = "a64" -> a64_emit_call_softfp_slow(res)
      [] OTHER -> res

\* The engine's own code for a virtual instruction, or do_softfp: called by the
\* interpreter, and by compiled code through the helper.
emit_softfp(engine, m, i) ==
    CASE engine = "x86" /\ x86_native(i.op) -> x86_emit_call_softfp(m, i)
      [] engine = "a64" /\ a64_native(i.op) -> a64_emit_call_softfp(m, i)
      [] OTHER -> emit_call_softfp_slow(engine, do_softfp(m, i))

\* r0 after the virtual instruction on engine n.
Call(n, op, a, b, w) ==
    emit_softfp(n, M([Filler EXCEPT ![1] = a, ![2] = b], 0), FpInsn([op |-> op, w |-> w])).r[0]

-----------------------------------------------------------------------------
W128 == 2 * W64

(* toI64Bits: the pattern of a value of w bits, zero-extended.                *)
toI64Bits(v, w) == Low(v, w)

(* emitDirectFpCall: the call, and its i64 result truncated to the n bits of
   the type that replaces the instruction.                                   *)
emitDirectFpCall(e, op, a, b, w, n) == Low(Call(e, op, a, b, w), n)

emitMul128Hi(e, a, b) == emitDirectFpCall(e, "UMULH", a, b, W64, W64)

(* narrowToI64 on the shapes of an operand of mul i128: a zero-extended i64, a
   value under a mask 2^k - 1, a constant, and anything else.  form is
   [shape, v] or ["mask", v, k].                                             *)
narrowToI64(form) ==
    CASE form.shape = "zext"  -> form.v
      [] form.shape = "mask" /\ form.k < W64 -> Band(Low(form.v, W64), 2^form.k - 1)
      [] OTHER -> Low(form.v, W64)

(* The value a form denotes.                                                  *)
Denotes(form) == IF form.shape = "mask" THEN form.v % 2^form.k ELSE form.v

Join(hi, lo) == Low(hi * 2^W64, W128) + lo

soften_mul128(e, f, g) ==
    LET a == narrowToI64(f)
        b == narrowToI64(g)
    IN Join(emitMul128Hi(e, a, b), Low(a * b, W64))

(* The operands of a 128-bit division as the five arguments hold them.         *)
split128(v) == [lo |-> Low(v, W64), hi |-> v \div 2^W64]

\* Mutant: the bits that cross the middle are shifted by 64 - K at once, which is no
\* shift at all when K is 0.
soften_shift_once(op, x, k) ==
    LET lo == split128(x).lo
        hi == split128(x).hi
        amt(n) == Low(n, W64) % W64
    IN IF op = "Shl"
       THEN IF k < W64 THEN Join(Bor(Shl(hi, k, W64), Shr(lo, amt(W64 - k), W64)), Shl(lo, k, W64))
            ELSE Join(Shl(lo, amt(k - W64), W64), 0)
       ELSE IF k < W64 THEN Join(Shr(hi, k, W64), Bor(Shr(lo, k, W64), Shl(hi, amt(W64 - k), W64)))
            ELSE Join(0, Shr(hi, amt(k - W64), W64))

(* The variable shifts: (64 - K) is written as two shifts, by 63 - K and by 1,
   each a legal amount.  A shift by an amount out of range takes it modulo the
   width, as the target does; the select discards that arm.                   *)
soften_shift128(op, x, k) ==
    LET lo      == split128(x).lo
        hi      == split128(x).hi
        amt(n)  == Low(n, W64) % W64
        small   == k < W64
        kInvM1  == W64 - 1 - k
        shl(v, n) == Shl(v, amt(n), W64)
        shr(v, n) == Shr(v, amt(n), W64)
    IN IF op = "Shl"
       THEN IF small THEN Join(Bor(shl(hi, k), shr(shr(lo, kInvM1), 1)), shl(lo, k))
            ELSE Join(shl(lo, k - W64), 0)
       ELSE IF small THEN Join(shr(hi, k), Bor(shr(lo, k), shl(shl(hi, kInvM1), 1)))
            ELSE Join(0, shr(hi, k - W64))

soften_umul_overflow(e, a, b) ==
    [lo |-> Low(a * b, W64), ov |-> emitMul128Hi(e, a, b) # 0]

-----------------------------------------------------------------------------
(* fptosi and fptoui to n bits: everything up to i32 goes through the 32-bit
   conversion and is truncated.                                              *)
soften_fptoint(e, signed, x, w, n) ==
    LET op == IF signed THEN (IF n <= W32 THEN "2SI" ELSE "2DI")
              ELSE (IF n <= W32 THEN "2USI" ELSE "2UDI")
    IN emitDirectFpCall(e, op, x, 0, w, n)

(* sitofp and uitofp from n bits: a narrow source is first extended to i32.    *)
soften_inttofp(e, signed, x, n, w) ==
    LET src == IF n < W32 THEN (IF signed THEN SExt(x, n, W32) ELSE Low(x, n)) ELSE x
        op  == IF signed THEN (IF n <= W32 THEN "SI2" ELSE "DI2")
               ELSE (IF n <= W32 THEN "USI2" ELSE "UDI2")
    IN emitDirectFpCall(e, op, toI64Bits(src, IF n <= W32 THEN W32 ELSE W64), 0, w, w)

(* fadd...fdiv, fneg, fptrunc, fpext, and the intrinsics and library calls
   sqrt, fabs and copysign: one call each.                                   *)
soften_direct(e, op, x, y, w) ==
    emitDirectFpCall(e, op, x, y, w, IF op = "EXTEND" THEN W64
                                      ELSE IF op = "TRUNC" THEN W32 ELSE w)

(* fcmp: CMP and UNORD come back as i32 and are combined by predicate.         *)
UnorderedPreds == {"ULT", "UGT", "UEQ", "UNE", "ULE", "UGE"}
OrderedPreds   == {"OLT", "OGT", "OEQ", "ONE", "OLE", "OGE"}
FCmpPreds == UnorderedPreds \cup OrderedPreds \cup {"FALSE", "TRUE", "ORD", "UNO"}

soften_fcmp(e, pred, x, y, w) ==
    LET cmp == Signed(emitDirectFpCall(e, "CMP", x, y, w, W32), W32)
        uno == emitDirectFpCall(e, "UNORD", x, y, w, W32)
        ord == CASE pred \in {"OLT", "ULT"} -> cmp < 0
                 [] pred \in {"OGT", "UGT"} -> cmp > 0
                 [] pred \in {"OEQ", "UEQ"} -> cmp = 0
                 [] pred \in {"ONE", "UNE"} -> cmp # 0
                 [] pred \in {"OLE", "ULE"} -> cmp <= 0
                 [] pred \in {"OGE", "UGE"} -> cmp >= 0
    IN CASE pred = "FALSE" -> FALSE
         [] pred = "TRUE"  -> TRUE
         [] pred = "ORD"   -> uno = 0
         [] pred = "UNO"   -> uno # 0
         [] pred \in UnorderedPreds -> ord \/ uno # 0
         [] OTHER          -> ord /\ uno = 0
=============================================================================
