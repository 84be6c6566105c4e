-------------------------------- MODULE X86 ---------------------------------
(***************************************************************************)
(* The code the x86-64 emitter (src/jit/x86_emitter.cpp) generates for each *)
(* instruction class, as a transformer of the register file.  BPF registers *)
(* live in host registers (r0 = R8 ... r5 = RDX ... r10 = R15), so m.r is   *)
(* the host's view of them; RAX, RCX and R11 are scratch and appear as LET  *)
(* names.  A 32-bit host operation clears the upper half of its target.     *)
(***************************************************************************)
EXTENDS Machine

Junk == 165
CallerSaved == 0 .. 5

(* A C helper leaves arbitrary values in the caller-saved registers; the
   generated code saves them on the host stack around the call.              *)
x86_call_helper(r)          == [k \in Regs |-> IF k \in CallerSaved THEN Junk ELSE r[k]]
x86_restore_caller_saved(r, saved) ==
    [k \in Regs |-> IF k \in CallerSaved THEN saved[k] ELSE r[k]]

Imm64(imm) == Low(imm, W64)
Imm32(imm) == Low(imm, W32)
Width(is64) == IF is64 THEN W64 ELSE W32

(* store_bpf after an operation of w bits: the 32-bit form zero-extends.      *)
x86_op(v, w) == Low(v, w)

-----------------------------------------------------------------------------
x86_mov(m, i, is64) ==
    LET src == IF i.x THEN m.r[i.src] ELSE IF is64 THEN Imm64(i.imm) ELSE Imm32(i.imm)
    IN IF i.off = 0
       THEN Put(m, i.dst, x86_op(src, Width(is64)))
       ELSE LET rax == IF i.x THEN m.r[i.src] ELSE Imm64(i.imm)
            IN IF i.off \in {8, 16} \/ (is64 /\ i.off = 32)
               THEN Put(m, i.dst, SExt(rax, Bits(i.off), Width(is64)))
               ELSE Refused

(* rol ax, 8 with movzx, and bswap on the register of the named width.         *)
x86_end(m, i, is64) ==
    LET rax == m.r[i.dst] IN
    IF is64
    THEN IF i.imm \in {16, 32, 64} THEN Put(m, i.dst, ByteSwap(rax, Bits(i.imm))) ELSE Refused
    ELSE IF ~i.x /\ i.imm = 64 THEN Regd(m, m.r)
    ELSE IF i.imm \notin {16, 32} THEN Refused
    ELSE Put(m, i.dst, IF i.x THEN ByteSwap(rax, Bits(i.imm)) ELSE Low(rax, Bits(i.imm)))

\* Mutant: RDX is not popped, so BPF r5 holds the remainder.
x86_inline_div_plain(rax, rcx, rdx, w, unsigned, mod) ==
    LET a == IF unsigned THEN Low(rax, w) ELSE Signed(rax, w)
        b == IF unsigned THEN Low(rcx, w) ELSE Signed(rcx, w)
    IN [rax |-> IF b = 0 THEN (IF mod THEN x86_op(rax, w) ELSE 0)
                ELSE Low(IF mod THEN Rem(a, b) ELSE Quot(a, b), w),
        rdx |-> IF b = 0 THEN rdx ELSE Low(Rem(a, b), w)]

(* emit_inline_div: RDX holds BPF r5 and is pushed around the division; the
   zero divisor and INT_MIN / -1 leave the straight path before the host's
   div or idiv could trap.  The result is [rax, rdx].                         *)
x86_emit_inline_div(rax, rcx, rdx, w, unsigned, mod) ==
    LET a  == Low(rax, w)
        b  == Low(rcx, w)
        sa == Signed(rax, w)
        sb == Signed(rcx, w)
        zero     == b = 0
        overflow == ~unsigned /\ sb = -1 /\ sa = IntMin(w)
        quot == IF unsigned THEN a \div b ELSE Low(Quot(sa, sb), w)
        rem  == IF unsigned THEN a % b ELSE Low(Rem(sa, sb), w)
    IN [rax |-> IF zero THEN (IF mod THEN x86_op(rax, w) ELSE 0)
                ELSE IF overflow THEN (IF mod THEN 0 ELSE x86_op(rax, w))
                ELSE IF mod THEN rem ELSE quot,
        rdx |-> rdx]

PowerOfTwo(n) == n > 0 /\ \E k \in 0 .. W64 : n = 2^k
Log2(n) == CHOOSE k \in 0 .. W64 : n = 2^k

(* BPF_DIV and BPF_MOD with their constant-divisor shortcuts.                  *)
x86_divmod(m, i, is64) ==
    LET w   == Width(is64)
        rax == m.r[i.dst]
        mod == i.op = "MOD"
        d   == x86_emit_inline_div(rax, IF i.x THEN m.r[i.src] ELSE Imm64(i.imm),
                                   m.r[5], w, i.off = 0, mod)
    IN IF ~i.x /\ i.imm = 0
       THEN IF mod THEN Put(m, i.dst, x86_op(rax, w)) ELSE Put(m, i.dst, 0)
       ELSE IF ~i.x /\ i.off = 0 /\ PowerOfTwo(i.imm)
       THEN Put(m, i.dst, IF mod THEN Band(Low(rax, w), i.imm - 1)
                          ELSE Shr(rax, Log2(i.imm), w))
       ELSE Regd(m, [[m.r EXCEPT ![5] = d.rdx] EXCEPT ![i.dst] = d.rax])

(* Immediates that make the operation a no-op: the 32-bit form still clears
   the upper half.                                                           *)
x86_peephole(i) ==
    ~i.x /\ \/ i.imm = 0 /\ i.op \in {"ADD", "SUB", "OR", "XOR", "LSH", "RSH", "ARSH"}
            \/ i.imm = 1 /\ i.op \in {"MUL", "DIV"}

x86_arith(m, i, is64) ==
    LET w   == Width(is64)
        rax == Low(m.r[i.dst], w)
        rcx == Low(IF i.x THEN m.r[i.src] ELSE Imm64(i.imm), w)
        cl  == rcx % w
    IN Put(m, i.dst,
           CASE i.op = "ADD"  -> x86_op(rax + rcx, w)
             [] i.op = "SUB"  -> x86_op(rax - rcx, w)
             [] i.op = "OR"   -> Bor(rax, rcx)
             [] i.op = "AND"  -> Band(rax, rcx)
             [] i.op = "XOR"  -> Bxor(rax, rcx)
             [] i.op = "LSH"  -> Shl(rax, cl, w)
             [] i.op = "RSH"  -> Shr(rax, cl, w)
             [] i.op = "ARSH" -> Sar(rax, cl, w)
             [] i.op = "MUL"  -> x86_op(rax * rcx, w)
             [] i.op = "NEG"  -> x86_op(-rax, w))

x86_emit_alu(m, i, is64) ==
    IF i.op = "MOV" THEN x86_mov(m, i, is64)
    ELSE IF i.op = "END" THEN x86_end(m, i, is64)
    ELSE IF x86_peephole(i) THEN Put(m, i.dst, x86_op(m.r[i.dst], Width(is64)))
    ELSE IF i.op \in {"DIV", "MOD"} THEN x86_divmod(m, i, is64)
    ELSE x86_arith(m, i, is64)

x86_emit_ld(m, i) ==
    IF i.dst >= 10 THEN Refused
    ELSE Put(m, i.dst, Imm32(i.imm2) * 2^W32 + Imm32(i.imm))

-----------------------------------------------------------------------------
(* begin_mem_access: the inline lookup in TLB entry e, and on a miss the slow
   path through helper_mmu / helper_mmu_w.  The result is the host pointer
   (guest addresses stand for host ones) or "null", and the registers.        *)
x86_begin_mem_access(r, a, n, write, e) ==
    LET end  == Low(a + n, W64)
        hit  == /\ a >= e.guest_base
                /\ end >= a
                /\ end <= e.guest_end
                /\ write => e.writable /\ ~e.cow
        found == IF write THEN mmu_w(a, n) ELSE mmu(a, n)
    IN IF hit THEN [ok |-> TRUE, r |-> r]
       ELSE [ok |-> found, r |-> x86_restore_caller_saved(x86_call_helper(r), r)]

(* flush_and_exit, the target of every abort jump.                            *)
Abort(m, r) == [Stop(m) EXCEPT !.r = r]

x86_emit_ldx(m, i, e) ==
    LET a == Low(m.r[i.src] + i.off, W64)
        n == Bytes(i.sz)
        p == x86_begin_mem_access(m.r, a, n, FALSE, e)
        v == Load(m.mem, a, n)
    IN IF i.dst >= 10 \/ (i.mode = "MEMSX" /\ i.sz = 64) THEN Refused
       ELSE IF ~p.ok THEN Abort(m, p.r)
       ELSE Regd(m, [p.r EXCEPT ![i.dst] =
                       IF i.mode = "MEM" THEN v ELSE SExt(v, Bits(i.sz), W64)])

x86_emit_st(m, i, e) ==
    LET a == Low(m.r[i.dst] + i.off, W64)
        p == x86_begin_mem_access(m.r, a, Bytes(i.sz), TRUE, e)
    IN IF ~p.ok THEN Abort(m, p.r)
       ELSE [Regd(m, p.r) EXCEPT !.mem = Store(m.mem, a, Bytes(i.sz), Imm64(i.imm))]

x86_emit_stx(m, i, e) ==
    LET a == Low(m.r[i.dst] + i.off, W64)
        p == x86_begin_mem_access(m.r, a, Bytes(i.sz), TRUE, e)
    IN IF ~p.ok THEN Abort(m, p.r)
       ELSE [Regd(m, p.r) EXCEPT !.mem = Store(m.mem, a, Bytes(i.sz), p.r[i.src])]

(* emit_stx_atomic: the host pointer is in R11 and the source in RCX.  RDX
   (BPF r5) is stored to vm->reg[5] first, serves as the temporary of the
   compare-exchange loop, and is loaded back from vm->reg[5] at the end, after
   the fetched value has been written to its register.                        *)
x86_emit_stx_atomic(m, i, e) ==
    LET a     == Low(m.r[i.dst] + i.off, W64)
        n     == Bytes(i.sz)
        w     == Bits(i.sz)
        p     == x86_begin_mem_access(m.r, a, n, TRUE, e)
        rcx   == Low(p.r[i.src], w)
        reg5  == p.r[5]
        old   == Load(m.mem, a, n)
        r0    == Low(p.r[0], w)
        new   == CASE i.op = "ADD" -> Low(old + rcx, w)
                   [] i.op = "OR"  -> Bor(old, rcx)
                   [] i.op = "AND" -> Band(old, rcx)
                   [] i.op = "XOR" -> Bxor(old, rcx)
                   [] i.op = "XCHG" -> rcx
                   [] i.op = "CMPXCHG" -> IF old = r0 THEN rcx ELSE old
        fetched == CASE i.op = "CMPXCHG" -> [p.r EXCEPT ![0] = old]
                     [] i.op = "XCHG" \/ i.fetch -> [p.r EXCEPT ![i.src] = old]
                     [] OTHER -> p.r
    IN IF i.sz \notin {64, 32} THEN Refused
       ELSE IF ~p.ok THEN Abort(m, p.r)
       ELSE [Regd(m, [fetched EXCEPT ![5] = reg5]) EXCEPT !.mem = Store(m.mem, a, n, new)]

-----------------------------------------------------------------------------
(* The host flags a cmp or test leaves, and the condition codes on them.       *)
x86_cmp(a, b, w) ==
    LET d == Low(a - b, w) IN
    [zf |-> d = 0, cf |-> Low(a, w) < Low(b, w), sf |-> Bit(d, w - 1) = 1,
     of |-> Signed(a, w) - Signed(b, w) # Signed(d, w)]
x86_test(a, b, w) ==
    LET d == Band(Low(a, w), Low(b, w)) IN
    [zf |-> d = 0, cf |-> FALSE, sf |-> Bit(d, w - 1) = 1, of |-> FALSE]

x86_cc(op, f) ==
    CASE op = "JEQ"  -> f.zf
      [] op \in {"JNE", "JSET"} -> ~f.zf
      [] op = "JGT"  -> ~f.cf /\ ~f.zf
      [] op = "JGE"  -> ~f.cf
      [] op = "JLT"  -> f.cf
      [] op = "JLE"  -> f.cf \/ f.zf
      [] op = "JSGT" -> ~f.zf /\ f.sf = f.of
      [] op = "JSGE" -> f.sf = f.of
      [] op = "JSLT" -> f.sf # f.of
      [] op = "JSLE" -> f.zf \/ f.sf # f.of

x86_jmp_load_operands(m, i, is64) ==
    LET src == IF i.x THEN m.r[i.src] ELSE Imm64(i.imm)
    IN IF i.op = "JSET" THEN x86_test(m.r[i.dst], src, Width(is64))
       ELSE x86_cmp(m.r[i.dst], src, Width(is64))

x86_emit_jmp(m, i, is64) ==
    Branched(m, x86_cc(i.op, x86_jmp_load_operands(m, i, is64)))

-----------------------------------------------------------------------------
(* emit_call_softfp.  ucomisd sets ZF and CF on an unordered pair; the
   three-way result is a 32-bit move, so -1 is zero-extended.  The unsigned
   conversions and the 128-bit divisions have no native form.                 *)
x86_ucomis(a, b, w) ==
    [zf |-> FEq(a, b, w) \/ Unord(a, b, w), cf |-> FLt(a, b, w) \/ Unord(a, b, w),
     pf |-> Unord(a, b, w)]

x86_cmp3(a, b, w) ==
    LET f == x86_ucomis(a, b, w)
    IN IF f.zf THEN 0 ELSE IF f.cf THEN Low(-1, W32) ELSE 1

x86_softfp_value(op, a, b, w) ==
    CASE op \in FpArith \cup {"SQRT"} -> HostFp(op, a, IF op = "SQRT" THEN 0 ELSE b, w)
      [] op = "NEG"      -> Bxor(Low(a, w), SignMask(w))
      [] op = "FABS"     -> Band(Low(a, w), SignMask(w) - 1)
      [] op = "COPYSIGN" -> Bor(Band(Low(a, w), SignMask(w) - 1),
                                Band(Low(b, w), SignMask(w)))
      [] op \in {"2SI", "2DI"} -> Low(TruncInt(a, w), W64)
      [] op = "DI2"      -> FromInt(Signed(a, W64), w)
      [] op = "SI2"      -> FromInt(Signed(a, W32), w)
      [] op = "EXTEND"   -> Convert(Low(a, W32), W32, W64)
      [] op = "TRUNC"    -> Convert(a, W64, W32)
      [] op = "CMP"      -> x86_cmp3(a, b, w)
      [] op = "UNORD"    -> IF x86_ucomis(a, b, w).pf THEN 1 ELSE 0

x86_native(op) == op \notin {"2USI", "2UDI", "USI2", "UDI2", "UNKNOWN"} \cup Div128

x86_emit_call_softfp(m, c) ==
    IF c.op = "UMULH"
    THEN LET prod == m.r[1] * m.r[2]
         IN Regd(m, [m.r EXCEPT ![0] = prod \div 2^W64, ![5] = prod \div 2^W64])
    ELSE Put(m, 0, x86_softfp_value(c.op, m.r[1], m.r[2], c.w))

(* emit_call_softfp_slow: flush r0..r9, helper_do_softfp, whose result is not
   looked at, and reload r0..r9.                                             *)
x86_emit_call_softfp_slow(res) == [res EXCEPT !.ok = TRUE]
=============================================================================
