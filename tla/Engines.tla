------------------------------- MODULE Engines -------------------------------
(***************************************************************************)
(* The three instruction engines side by side: the interpreter, the code of *)
(* the x86-64 emitter and the code of the AArch64 emitter execute the same   *)
(* instruction from the same machine, and the rewritten forms of the LLVM    *)
(* pass are computed on each of them.  emit_instruction (jit_compiler.cpp)   *)
(* is the dispatch from an instruction class to its emitter.                 *)
(***************************************************************************)
EXTENDS SoftFp

CONSTANTS
    Vals,       \* register samples
    Fps,        \* floating-point patterns
    Bases,      \* base addresses of memory operands
    Pats,       \* contents of guest memory, as one number
    Wides       \* 128-bit samples

VARIABLES
    insn,       \* the instruction (or rewritten operation) executed, or NoInsn
    pre,        \* the machine it was executed from
    out         \* what each engine made of it

machineVars == <<insn, pre, out>>

NoInsn == [class |-> "idle"]
Engine == {"interp", "x86", "a64"}

Tlbs == { [guest_base |-> 0, guest_end |-> 0, writable |-> FALSE, cow |-> FALSE],
          [guest_base |-> RwBase, guest_end |-> RwBase + RwSize, writable |-> TRUE, cow |-> FALSE],
          [guest_base |-> RwBase, guest_end |-> RwBase + RwSize, writable |-> TRUE, cow |-> TRUE],
          [guest_base |-> RoBase, guest_end |-> RoBase + RoSize, writable |-> FALSE, cow |-> FALSE] }

I(class, op, x, dst, src, off, imm) ==
    [class |-> class, op |-> op, x |-> x, dst |-> dst, src |-> src, off |-> off, imm |-> imm,
     imm2 |-> 0, sz |-> 64, mode |-> "MEM", fetch |-> FALSE]

-----------------------------------------------------------------------------
(* vm::step's dispatch on the class, and emit_instruction's.  The emitters of
   ALU and LDX are not called for a destination of r10 and above.             *)
InterpStep(m, i) ==
    CASE i.class = "ALU64" -> alu64(m, i)
      [] i.class = "ALU"   -> alu(m, i)
      [] i.class = "JMP"   -> jmp(m, i)
      [] i.class = "JMP32" -> jmp32(m, i)
      [] i.class = "LD"    -> ld(m, i)
      [] i.class = "LDX"   -> ldx(m, i)
      [] i.class = "ST"    -> st(m, i)
      [] i.class = "STX"   -> stx(m, i)
      [] i.class = "FP"    -> do_softfp(m, i)

emit_instruction(engine, m, i, e) ==
    LET x == engine = "x86" IN
    CASE i.class \in {"ALU64", "ALU"} ->
           IF i.dst >= 10 THEN Refused
           ELSE IF x THEN x86_emit_alu(m, i, i.class = "ALU64")
                ELSE a64_emit_alu(m, i, i.class = "ALU64")
      [] i.class \in {"JMP", "JMP32"} ->
           IF x THEN x86_emit_jmp(m, i, i.class = "JMP") ELSE a64_emit_jmp(m, i, i.class = "JMP")
      [] i.class = "LD"  -> IF x THEN x86_emit_ld(m, i) ELSE a64_emit_ld(m, i)
      [] i.class = "LDX" -> IF x THEN x86_emit_ldx(m, i, e) ELSE a64_emit_ldx(m, i, e)
      [] i.class = "ST"  -> IF x THEN x86_emit_st(m, i, e) ELSE a64_emit_st(m, i, e)
      [] i.class = "STX" /\ i.mode = "ATOMIC" ->
           IF x THEN x86_emit_stx_atomic(m, i, e) ELSE a64_emit_stx_atomic(m, i, e)
      [] i.class = "STX" -> IF x THEN x86_emit_stx(m, i, e) ELSE a64_emit_stx(m, i, e)
      [] i.class = "FP"  -> emit_softfp(engine, m, i)

Some(S) == CHOOSE x \in S : TRUE
AnyTlb == Some(Tlbs)

\* An instruction, the machine it is executed from and the translation cached.
Try(m, i, e) == [m |-> m, i |-> i, e |-> e]

-----------------------------------------------------------------------------
AluOps == {"ADD", "SUB", "MUL", "DIV", "MOD", "OR", "AND", "XOR", "LSH", "RSH", "ARSH",
           "NEG", "MOV"}
Offs(op) == CASE op \in {"DIV", "MOD"} -> {0, 1} [] op = "MOV" -> {0, 8, 16, 32} [] OTHER -> {0}
AluForms == {f \in [op : AluOps, off : {0, 1, 8, 16, 32}] : f.off \in Offs(f.op)}

(* r0, the result register; r5, which x86-64 keeps in RDX; a callee-saved one.   *)
Probed == {0, 5, 6}

AluReg(vals) ==
    {Try(M([[Filler EXCEPT ![d] = v] EXCEPT ![s] = u], 0),
         I(class, f.op, TRUE, d, s, f.off, 0), AnyTlb) :
       class \in {"ALU64", "ALU"}, f \in AluForms, d \in Probed, s \in Probed, v \in vals, u \in vals}

AluImm(vals) ==
    {Try(M([Filler EXCEPT ![d] = v], 0), I(class, f.op, FALSE, d, 0, f.off, imm), AnyTlb) :
       class \in {"ALU64", "ALU"}, f \in AluForms, d \in Probed \cup {10}, v \in vals, imm \in Imms}

Endian(vals) ==
    {Try(M([Filler EXCEPT ![d] = v], 0), I(class, "END", x, d, 0, 0, n), AnyTlb) :
       class \in {"ALU64", "ALU"}, x \in BOOLEAN, d \in Probed, v \in vals,
       n \in {8, 16, 32, 64}}

JumpOps == {"JEQ", "JNE", "JGT", "JGE", "JLT", "JLE", "JSET", "JSGT", "JSGE", "JSLT", "JSLE"}

Jump(vals) ==
    {Try(M([Filler EXCEPT ![5] = v, ![6] = u], 0), I(class, op, TRUE, 5, 6, 0, 0), AnyTlb) :
       class \in {"JMP", "JMP32"}, op \in JumpOps, v \in vals, u \in vals}
    \cup
    {Try(M([Filler EXCEPT ![5] = v], 0), I(class, op, FALSE, 5, 6, 0, imm), AnyTlb) :
       class \in {"JMP", "JMP32"}, op \in JumpOps, v \in vals, imm \in Imms}

LoadImm(imms) ==
    {Try(M(Filler, 0), [I("LD", "LDDW", FALSE, d, 0, 0, lo) EXCEPT !.imm2 = hi], AnyTlb) :
       d \in Probed \cup {10}, lo \in imms, hi \in imms}

-----------------------------------------------------------------------------
Sizes == {64, 32, 16, 8}

LoadMem(bases) ==
    {Try(M([Filler EXCEPT ![base] = a], p),
         [I("LDX", "LDX", FALSE, d, base, off, 0) EXCEPT !.sz = sz, !.mode = mode], e) :
       d \in Probed, base \in {5, 10}, a \in bases, off \in {-1, 0, 1}, sz \in Sizes,
       mode \in {"MEM", "MEMSX"}, p \in Pats, e \in Tlbs}

StoreImm(bases) ==
    {Try(M([Filler EXCEPT ![base] = a], p),
         [I("ST", "ST", FALSE, base, 0, 0, imm) EXCEPT !.sz = sz], e) :
       base \in {5, 10}, a \in bases, sz \in Sizes, imm \in {-8, -1, 0, 5}, p \in Pats, e \in Tlbs}

StoreReg(vals) ==
    {Try(M([Filler EXCEPT ![10] = a, ![s] = v], Some(Pats)),
         [I("STX", "STX", TRUE, 10, s, 0, 0) EXCEPT !.sz = sz], e) :
       s \in Probed, a \in Bases, sz \in Sizes, v \in vals, e \in Tlbs}

AtomicForms == [op : {"ADD", "OR", "AND", "XOR"}, fetch : BOOLEAN]
               \cup [op : {"XCHG", "CMPXCHG"}, fetch : {TRUE}]

(* r0 and the source are also taken from the bytes in memory, so that the
   compare-exchange both succeeds and fails.                                  *)
Atomic(pats) ==
    LET R0(cmp, a, p) == IF cmp = 0 /\ mmu(a, 8) THEN Load(Memory(p), a, 8) ELSE cmp
    IN {Try(M([Filler EXCEPT ![0] = R0(cmp, a, p), ![10] = a,
                             ![s] = IF s = 0 THEN R0(cmp, a, p) ELSE v], p),
            [I("STX", f.op, TRUE, 10, s, 0, 0) EXCEPT !.sz = sz, !.mode = "ATOMIC",
                                                      !.fetch = f.fetch], e) :
          f \in AtomicForms, s \in Probed, a \in {63, 64, 65, 67, 128}, sz \in {64, 32, 16},
          v \in {1, 90, 255}, cmp \in {0, 90}, p \in pats, e \in Tlbs}

-----------------------------------------------------------------------------
(* A conversion to an integer out of the target's range has no defined result.  *)
Convertible(op, x, w) ==
    /\ Finite(x, w)
    /\ LET v == TruncInt(x, w) IN
       CASE op = "2SI"  -> v \in IntMin(W32) .. -IntMin(W32) - 1
         [] op = "2DI"  -> v \in IntMin(W64) .. -IntMin(W64) - 1
         [] op = "2USI" -> v \in Words(W32)
         [] op = "2UDI" -> v \in Words(W64)

SoftFpCall(fps) ==
    {Try(M([Filler EXCEPT ![1] = a, ![2] = b], 0), FpInsn(c), AnyTlb) :
       c \in {f \in FpCalls : f.op \notin Div128 \cup FpToInt}, a \in fps, b \in fps}
    \cup
    UNION {{Try(M([Filler EXCEPT ![1] = a], 0), FpInsn(c), AnyTlb) :
              a \in {x \in fps : Convertible(c.op, x, c.w)}} :
            c \in {f \in FpCalls : f.op \in FpToInt}}

SoftDiv128(wides) ==
    {Try(M([Filler EXCEPT ![1] = slot, ![2] = Low(a, W64), ![3] = a \div 2^W64,
                          ![4] = Low(b, W64), ![5] = b \div 2^W64], 0),
         FpInsn([op |-> op, w |-> W64]), AnyTlb) :
       op \in Div128, slot \in {64, 66, 128}, a \in wides, b \in wides}

Execute(tries) ==
    \E t \in tries :
      /\ insn' = t.i
      /\ pre'  = t.m
      /\ out'  = [n \in Engine |-> IF n = "interp" THEN InterpStep(t.m, t.i)
                                   ELSE emit_instruction(n, t.m, t.i, t.e)]

-----------------------------------------------------------------------------
(* The slot of the high half, and what the program reads back from it.          *)
Divide(n, op, a, b) ==
    LET m == M([Filler EXCEPT ![1] = RwBase, ![2] = split128(a).lo, ![3] = split128(a).hi,
                              ![4] = split128(b).lo, ![5] = split128(b).hi], 0)
        res == emit_softfp(n, m, FpInsn([op |-> op, w |-> W64]))
    IN Join(Load(res.mem, RwBase, 8), res.r[0])

Rewrite(c, V(_), ref) ==
    /\ insn' = [class |-> "pass", of |-> c]
    /\ pre'  = ref
    /\ out'  = [n \in Engine |-> V(n)]

(* IEEE 754 predicates and LLVM's integer semantics, as the reference.           *)
IeeeHolds(pred, a, b, w) ==
    LET lt == FLt(a, b, w)
        gt == FLt(b, a, w)
        eq == FEq(a, b, w)
        un == Unord(a, b, w)
    IN CASE pred = "FALSE" -> FALSE  [] pred = "TRUE" -> TRUE
         [] pred = "ORD" -> ~un      [] pred = "UNO" -> un
         [] pred = "OLT" -> lt       [] pred = "ULT" -> lt \/ un
         [] pred = "OGT" -> gt       [] pred = "UGT" -> gt \/ un
         [] pred = "OEQ" -> eq       [] pred = "UEQ" -> eq \/ un
         [] pred = "ONE" -> lt \/ gt [] pred = "UNE" -> ~eq
         [] pred = "OLE" -> lt \/ eq [] pred = "ULE" -> ~gt
         [] pred = "OGE" -> gt \/ eq [] pred = "UGE" -> ~lt

RewriteFCmp ==
    \E pred \in FCmpPreds, w \in {W64, W32}, a, b \in Fps :
      LET x == toI64Bits(a, w)
          y == toI64Bits(b, w)
          V(n) == soften_fcmp(n, pred, x, y, w)
      IN Rewrite([pred |-> pred, a |-> x, b |-> y, w |-> w], V, IeeeHolds(pred, x, y, w))

RewriteFpToInt ==
    \E signed \in BOOLEAN, w \in {W64, W32}, n \in {1, 2, 4, 8}, a \in Fps :
      LET x == toI64Bits(a, w)
          V(e) == soften_fptoint(e, signed, x, w, n)
      IN /\ Finite(x, w)
         /\ TruncInt(x, w) \in IF signed THEN IntMin(n) .. -IntMin(n) - 1 ELSE Words(n)
         /\ Rewrite([to |-> n, signed |-> signed, a |-> x, w |-> w], V, Low(TruncInt(x, w), n))

RewriteIntToFp ==
    \E signed \in BOOLEAN, w \in {W64, W32}, n \in {1, 2, 4, 8}, v \in Words(W64) :
      LET x == Low(v, n)
          V(e) == soften_inttofp(e, signed, x, n, w)
      IN Rewrite([from |-> n, signed |-> signed, a |-> x, w |-> w], V,
                 FromInt(IF signed THEN Signed(x, n) ELSE x, w))

(* Operands of mul i128.  The pass takes their value to fit in 64 bits; of one
   that does not it drops the rest, and only the low half is the product's.      *)
MulForms == [shape : {"zext"}, v : Vals] \cup [shape : {"const", "other"}, v : Vals \cup Wides]
            \cup [shape : {"mask"}, v : Wides, k : {1, 3, W64 - 1, W64}]

RewriteMul ==
    \E f, g \in MulForms :
      LET exact == IF Denotes(f) < 2^W64 /\ Denotes(g) < 2^W64 THEN W128 ELSE W64
          V(e) == Low(soften_mul128(e, f, g), exact)
      IN Rewrite([f |-> f, g |-> g], V,
                 Low(Low(Denotes(f), exact) * Low(Denotes(g), exact), exact))

RewriteUMulOverflow ==
    \E a, b \in Vals :
      LET V(e) == soften_umul_overflow(e, a, b)
      IN Rewrite([mul |-> a, by |-> b], V,
                 [lo |-> Low(a * b, W64), ov |-> a * b >= 2^W64])

RewriteShift ==
    \E op \in {"Shl", "LShr"}, x \in Wides, k \in 0 .. W128 - 1 :
      LET V(e) == soften_shift128(op, x, k)
      IN Rewrite([op |-> op, a |-> x, k |-> k], V,
                 IF op = "Shl" THEN Low(x * 2^k, W128) ELSE x \div 2^k)

(* Signed overflow and division by zero have no defined result.                  *)
RewriteDiv ==
    \E op \in Div128, a, b \in Wides :
      LET sa == Signed(a, W128)
          sb == Signed(b, W128)
          V(e) == Divide(e, op, a, b)
      IN /\ b # 0
         /\ Rewrite([op |-> op, a |-> a, b |-> b], V,
              CASE op = "UDIV128" -> a \div b
                [] op = "UREM128" -> a % b
                [] op = "SDIV128" -> Low(Quot(sa, sb), W128)
                [] op = "SREM128" -> Low(Rem(sa, sb), W128))

RewriteDirect ==
    \E op \in FpArith \cup FpBits \cup {"SQRT", "EXTEND", "TRUNC"}, w \in {W64, W32}, a, b \in Fps :
      LET x == toI64Bits(a, w)
          y == toI64Bits(b, w)
          wide == IF op = "EXTEND" THEN W32 ELSE IF op = "TRUNC" THEN W64 ELSE w
          V(e) == soften_direct(e, op, x, y, wide)
          ref  == CASE op \in FpArith -> HostFp(op, x, y, w)
                    [] op = "SQRT"    -> HostFp(op, x, 0, w)
                    [] op = "NEG"     -> (IF SignBit(x, w) = 1 THEN 0 ELSE SignMask(w)) + Mag(x, w)
                    [] op = "FABS"    -> Mag(x, w)
                    [] op = "COPYSIGN" -> SignBit(y, w) * SignMask(w) + Mag(x, w)
                    [] op = "EXTEND"  -> Convert(x, W32, W64)
                    [] op = "TRUNC"   -> Convert(x, W64, W32)
      IN /\ op \in {"EXTEND", "TRUNC"} => w = wide
         /\ Rewrite([direct |-> op, a |-> x, b |-> y, w |-> w], V, ref)

-----------------------------------------------------------------------------
Instructions == {"AluReg", "AluImm", "Endian", "Jump", "LoadImm", "LoadMem", "StoreImm",
                 "StoreReg", "Atomic", "SoftFpCall", "SoftDiv128"}
Rewritings == {"FCmp", "FpToInt", "IntToFp", "Mul", "Wide", "Direct"}

Tries(kind) ==
    CASE kind = "AluReg" -> AluReg(Vals)     [] kind = "AluImm" -> AluImm(Vals)
      [] kind = "Endian" -> Endian(Words(W64))     [] kind = "Jump" -> Jump(Vals)
      [] kind = "LoadImm" -> LoadImm(Imms)   [] kind = "LoadMem" -> LoadMem(Bases)
      [] kind = "StoreImm" -> StoreImm(Bases) [] kind = "StoreReg" -> StoreReg(Vals)
      [] kind = "Atomic" -> Atomic(Pats)     [] kind = "SoftFpCall" -> SoftFpCall(Fps)
      [] kind = "SoftDiv128" -> SoftDiv128(Wides)

(* One initial state for each kind of instruction or rewriting.                  *)
MachineInit ==
    insn \in [class : {"idle"}, next : Instructions \cup Rewritings] /\ pre = NoInsn /\ out = NoInsn

Chosen(a) == out = NoInsn /\ insn.next = a

MachineNext ==
    \/ out = NoInsn /\ insn.next \in Instructions /\ Execute(Tries(insn.next))
    \/ Chosen("FCmp") /\ RewriteFCmp
    \/ Chosen("FpToInt") /\ RewriteFpToInt
    \/ Chosen("IntToFp") /\ RewriteIntToFp
    \/ Chosen("Mul") /\ RewriteMul
    \/ Chosen("Wide") /\ RewriteUMulOverflow
    \/ Chosen("Wide") /\ RewriteShift
    \/ Chosen("Wide") /\ RewriteDiv
    \/ Chosen("Direct") /\ RewriteDirect

MachineSpec == MachineInit /\ [][MachineNext]_machineVars

-----------------------------------------------------------------------------
(* What the guest can tell apart after an instruction.  A virtual instruction
   is a call, so r1..r5 are dead after it, and the pass consumes the 32-bit
   results truncated; the three-way result of an unordered pair is never
   consumed without UNORD, and an unknown call only ever returns ENOSYS.      *)
Consumed(i, v) == IF i.op \in {"2SI", "2USI", "CMP", "UNORD"} THEN Low(v, W32) ELSE v
Dead(i, m) == i.class = "FP" /\ i.op = "CMP" /\ Unord(m.r[1], m.r[2], i.w)

Same(i, m, a, b) ==
    /\ a.ok = b.ok /\ a.mem = b.mem /\ a.taken = b.taken
    /\ IF i.class = "FP"
       THEN /\ \A k \in 6 .. 10 : a.r[k] = b.r[k]
            /\ Dead(i, m) \/ Consumed(i, a.r[0]) = Consumed(i, b.r[0])
       ELSE a.r = b.r

(* Three instructions on which the engines differ (README, section 4).         *)
FetchIntoR5(i)   == i.class = "STX" /\ i.mode = "ATOMIC" /\ i.src = 5 /\ i.op # "CMPXCHG"
                    /\ (i.fetch \/ i.op = "XCHG")
JsetNegative(i)  == i.class = "JMP" /\ i.op = "JSET" /\ ~i.x /\ i.imm < 0
FaultyDiv128(i, m) == i.class = "FP" /\ i.op \in Div128 /\ ~mmu_w(m.r[1], 8)

IsRefused(res) == "refused" \in DOMAIN res

(* Every instruction the compiler does not refuse has, in the code of either
   emitter, the effect it has in the interpreter: on every register, on
   memory, on the outcome of a jump, and on whether the task is stopped; and
   code that takes its abort exit leaves the machine as it found it, for the
   interpreter to execute the instruction again.                               *)
EnginesAgree ==
    (out # NoInsn /\ insn.class # "pass") =>
      \A n \in {"x86", "a64"} :
        \/ IsRefused(out[n])
        \/ n = "x86" /\ FetchIntoR5(insn)
        \/ n = "a64" /\ JsetNegative(insn)
        \/ FaultyDiv128(insn, pre)
        \/ Same(insn, pre, out["interp"], out[n])

(* A program rewritten by the floating-point pass computes, on every engine,
   what the instruction it replaces computes: each fcmp predicate including
   its answer on a NaN, each conversion through its narrow form, and the
   128-bit multiplication (its low half, of operands over 64 bits), shifts and
   divisions.                                                                  *)
LoweringCorrect ==
    (out # NoInsn /\ insn.class = "pass") => \A n \in Engine : out[n] = pre
=============================================================================
