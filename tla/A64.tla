-------------------------------- MODULE A64 ---------------------------------
(***************************************************************************)
(* The code the AArch64 emitter (src/jit/aarch64_emitter.cpp) generates for *)
(* each instruction class, as a transformer of the register file.  BPF      *)
(* registers live in X9..X14 (r0..r5, caller-saved) and X19..X23; X0..X3,   *)
(* X15 and X16 are scratch and appear as LET names.  A W-form operation     *)
(* clears the upper half of its target.                                     *)
(***************************************************************************)
EXTENDS Machine, Sequences, FiniteSets

A64Junk == 90

a64_call_helper(r) == [k \in Regs |-> IF k \in 0 .. 5 THEN A64Junk ELSE r[k]]
a64_restore_caller_saved(r, saved) ==
    [k \in Regs |-> IF k \in 0 .. 5 THEN saved[k] ELSE r[k]]

A64Width(is64) == IF is64 THEN W64 ELSE W32

(* mov_imm: a MOVZ or a MOVN sets every 16-bit chunk to all zeros or all ones,
   whichever leaves fewer chunks for MOVK; a W form has two chunks.           *)
a64_mov_imm(val, is64) ==
    LET n      == IF is64 THEN 4 ELSE 2
        chunk  == 2^W16
        p      == [k \in 0 .. n - 1 |-> (val \div chunk^k) % chunk]
        nz     == Cardinality({k \in 0 .. n - 1 : p[k] # 0})
        nf     == Cardinality({k \in 0 .. n - 1 : p[k] # chunk - 1})
        fill   == IF nf < nz THEN chunk - 1 ELSE 0
        placed == [k \in 0 .. n - 1 |-> IF p[k] # fill THEN p[k] ELSE fill]
        sum[k \in 0 .. n] == IF k = 0 THEN 0 ELSE sum[k - 1] + placed[k - 1] * chunk^(k - 1)
    IN sum[n]

(* The sign-extended immediate, as every (uint64_t)(int64_t)imm passes it.     *)
a64_simm(imm, is64) == a64_mov_imm(Low(imm, W64), is64)
a64_zimm(imm, is64) == a64_mov_imm(Low(imm, W32), is64)

(* store_bpf: the W form of MOV zero-extends.                                  *)
a64_store_bpf(v, w) == Low(v, w)

-----------------------------------------------------------------------------
a64_mov(m, i, is64) ==
    LET x0 == IF i.x THEN m.r[i.src] ELSE a64_simm(i.imm, TRUE)
        w  == A64Width(is64)
    IN IF i.off = 0
       THEN Put(m, i.dst, IF i.x THEN Low(m.r[i.src], w)
                          ELSE IF is64 THEN x0 ELSE a64_zimm(i.imm, FALSE))
       ELSE IF i.off \in {8, 16} \/ (is64 /\ i.off = 32)
       THEN Put(m, i.dst, SExt(x0, Bits(i.off), w))
       ELSE Refused

(* rev16 swaps the bytes of every half word, so the mask that follows keeps
   the lowest; rev32 is the W form.                                          *)
a64_rev16(x, w) ==
    LET half[k \in 0 .. w \div W16] ==
          IF k = 0 THEN 0
          ELSE half[k - 1] + ByteSwap((x \div 2^(W16 * (k - 1))) % 2^W16, W16) * 2^(W16 * (k - 1))
    IN half[w \div W16]

a64_end(m, i, is64) ==
    LET x0 == m.r[i.dst]
        swapped == CASE i.imm = 16 -> Band(a64_rev16(x0, A64Width(is64)), 2^W16 - 1)
                     [] i.imm = 32 -> ByteSwap(Low(x0, W32), W32)
                     [] OTHER      -> ByteSwap(x0, W64)
    IN IF is64
       THEN IF i.imm \in {16, 32, 64} THEN Put(m, i.dst, swapped) ELSE Refused
       ELSE IF ~i.x /\ i.imm = 64 THEN Regd(m, m.r)
       ELSE IF i.imm \notin {16, 32} THEN Refused
       ELSE Put(m, i.dst, a64_store_bpf(IF i.x THEN swapped ELSE Low(x0, Bits(i.imm)), W32))

(* udiv and sdiv yield 0 on a zero divisor and wrap on INT_MIN / -1.           *)
a64_udiv(a, b) == IF b = 0 THEN 0 ELSE a \div b
a64_sdiv(a, b, w) ==
    IF b = 0 THEN 0 ELSE Low(Quot(Signed(a, w), Signed(b, w)), w)

a64_divmod(m, i, is64) ==
    LET w  == A64Width(is64)
        x0 == Low(m.r[i.dst], w)
        x1 == IF i.x THEN Low(m.r[i.src], w) ELSE a64_simm(i.imm, is64)
        q  == IF i.off = 0 THEN a64_udiv(x0, x1) ELSE a64_sdiv(x0, x1, w)
    IN IF ~i.x /\ i.imm = 0
       THEN Put(m, i.dst, IF i.op = "DIV" THEN 0 ELSE x0)
       ELSE Put(m, i.dst, IF i.op = "DIV" THEN q ELSE Low(x0 - q * x1, w))

a64_peephole(i) ==
    ~i.x /\ \/ i.imm = 0 /\ i.op \in {"ADD", "SUB", "OR", "XOR", "LSH", "RSH", "ARSH"}
            \/ i.imm = 1 /\ i.op \in {"MUL", "DIV"}

(* add_imm and sub_imm choose between an immediate form and a register form,
   with the sign folded into the choice; shifts mask the count.               *)
a64_arith(m, i, is64) ==
    LET w  == A64Width(is64)
        x0 == Low(m.r[i.dst], w)
        x1 == IF i.x THEN Low(m.r[i.src], w) ELSE a64_simm(i.imm, is64)
        sh == x1 % w
    IN Put(m, i.dst, a64_store_bpf(
         CASE i.op = "ADD"  -> x0 + x1
           [] i.op = "SUB"  -> x0 - x1
           [] i.op = "OR"   -> Bor(x0, x1)
           [] i.op = "AND"  -> Band(x0, x1)
           [] i.op = "XOR"  -> Bxor(x0, x1)
           [] i.op = "LSH"  -> Shl(x0, sh, w)
           [] i.op = "RSH"  -> Shr(x0, sh, w)
           [] i.op = "ARSH" -> Sar(x0, sh, w)
           [] i.op = "MUL"  -> x0 * x1
           [] i.op = "NEG"  -> -x0, w))

a64_emit_alu(m, i, is64) ==
    IF i.op = "MOV" THEN a64_mov(m, i, is64)
    ELSE IF i.op = "END" THEN a64_end(m, i, is64)
    ELSE IF a64_peephole(i) THEN Put(m, i.dst, Low(m.r[i.dst], A64Width(is64)))
    ELSE IF i.op \in {"DIV", "MOD"} THEN a64_divmod(m, i, is64)
    ELSE a64_arith(m, i, is64)

a64_emit_ld(m, i) ==
    IF i.dst >= 10 THEN Refused
    ELSE Put(m, i.dst, a64_mov_imm(Low(i.imm2, W32) * 2^W32 + Low(i.imm, W32), TRUE))

-----------------------------------------------------------------------------
a64_begin_mem_access(r, a, n, write, e) ==
    LET x2  == Low(a + n, W64)
        hit == /\ ~(a < e.guest_base)
               /\ ~(x2 < a)
               /\ ~(x2 > e.guest_end)
               /\ write => e.writable /\ ~e.cow
        found == IF write THEN mmu_w(a, n) ELSE mmu(a, n)
    IN IF hit THEN [ok |-> TRUE, r |-> r]
       ELSE [ok |-> found, r |-> a64_restore_caller_saved(a64_call_helper(r), r)]

a64_abort(m, r) == [Stop(m) EXCEPT !.r = r]

a64_emit_ldx(m, i, e) ==
    LET a == Low(m.r[i.src] + i.off, W64)
        n == Bytes(i.sz)
        p == a64_begin_mem_access(m.r, a, n, FALSE, e)
        v == Load(m.mem, a, n)
    IN IF i.dst >= 10 \/ (i.mode = "MEMSX" /\ i.sz = 64) THEN Refused
       ELSE IF ~p.ok THEN a64_abort(m, p.r)
       ELSE Regd(m, [p.r EXCEPT ![i.dst] =
                       IF i.mode = "MEM" THEN v ELSE SExt(v, Bits(i.sz), W64)])

a64_emit_st(m, i, e) ==
    LET a == Low(m.r[i.dst] + i.off, W64)
        p == a64_begin_mem_access(m.r, a, Bytes(i.sz), TRUE, e)
    IN IF ~p.ok THEN a64_abort(m, p.r)
       ELSE [Regd(m, p.r) EXCEPT !.mem =
               Store(m.mem, a, Bytes(i.sz), a64_simm(i.imm, TRUE))]

a64_emit_stx(m, i, e) ==
    LET a == Low(m.r[i.dst] + i.off, W64)
        p == a64_begin_mem_access(m.r, a, Bytes(i.sz), TRUE, e)
    IN IF ~p.ok THEN a64_abort(m, p.r)
       ELSE [Regd(m, p.r) EXCEPT !.mem = Store(m.mem, a, Bytes(i.sz), p.r[i.src])]

(* emit_stx_atomic: an LDAXR/STLXR loop; the loaded value is zero-extended and
   goes to the source register (FETCH, XCHG) or to r0 (CMPXCHG).              *)
a64_emit_stx_atomic(m, i, e) ==
    LET a   == Low(m.r[i.dst] + i.off, W64)
        n   == Bytes(i.sz)
        w   == Bits(i.sz)
        p   == a64_begin_mem_access(m.r, a, n, TRUE, e)
        x1  == Low(p.r[i.src], w)
        x0  == Load(m.mem, a, n)
        new == CASE i.op = "ADD" -> Low(x0 + x1, w)
                 [] i.op = "OR"  -> Bor(x0, x1)
                 [] i.op = "AND" -> Band(x0, x1)
                 [] i.op = "XOR" -> Bxor(x0, x1)
                 [] i.op = "XCHG" -> x1
                 [] i.op = "CMPXCHG" -> IF x0 = Low(p.r[0], w) THEN x1 ELSE x0
        r   == CASE i.op = "CMPXCHG" -> [p.r EXCEPT ![0] = x0]
                 [] i.op = "XCHG" \/ i.fetch -> [p.r EXCEPT ![i.src] = x0]
                 [] OTHER -> p.r
    IN IF i.sz \notin {64, 32} THEN Refused
       ELSE IF ~p.ok THEN a64_abort(m, p.r)
       ELSE [Regd(m, r) EXCEPT !.mem = Store(m.mem, a, n, new)]

-----------------------------------------------------------------------------
(* NZCV after CMP (C is "no borrow") and after TST, and the conditions.         *)
a64_cmp(a, b, w) ==
    LET d == Low(a - b, w) IN
    [n |-> Bit(d, w - 1) = 1, z |-> d = 0, c |-> Low(a, w) >= Low(b, w),
     v |-> Signed(a, w) - Signed(b, w) # Signed(d, w)]
a64_tst(a, b, w) ==
    LET d == Band(Low(a, w), Low(b, w)) IN
    [n |-> Bit(d, w - 1) = 1, z |-> d = 0, c |-> FALSE, v |-> FALSE]

a64_cond(op, f) ==
    CASE op = "JEQ"  -> f.z
      [] op \in {"JNE", "JSET"} -> ~f.z
      [] op = "JGT"  -> f.c /\ ~f.z
      [] op = "JGE"  -> f.c
      [] op = "JLT"  -> ~f.c
      [] op = "JLE"  -> ~f.c \/ f.z
      [] op = "JSGT" -> ~f.z /\ f.n = f.v
      [] op = "JSGE" -> f.n = f.v
      [] op = "JSLT" -> f.n # f.v
      [] op = "JSLE" -> f.z \/ f.n # f.v

(* The immediate of JSET is zero-extended, the ones of the comparisons are
   sign-extended.                                                            *)
a64_jmp_load_operands(m, i, is64) ==
    LET w == A64Width(is64) IN
    IF i.op = "JSET"
    THEN a64_tst(m.r[i.dst], IF i.x THEN m.r[i.src] ELSE a64_zimm(i.imm, is64), w)
    ELSE a64_cmp(m.r[i.dst], IF i.x THEN m.r[i.src] ELSE a64_simm(i.imm, is64), w)

a64_emit_jmp(m, i, is64) ==
    Branched(m, a64_cond(i.op, a64_jmp_load_operands(m, i, is64)))

-----------------------------------------------------------------------------
(* emit_call_softfp.  FCMP raises C and V on an unordered pair, so LT holds and
   the three-way result of a NaN is -1.                                       *)
a64_fcmp(a, b, w) ==
    [n |-> FLt(a, b, w), z |-> FEq(a, b, w), c |-> ~FLt(a, b, w), v |-> Unord(a, b, w)]

a64_cmp3(a, b, w) ==
    LET f == a64_fcmp(a, b, w)
    IN IF f.n # f.v THEN Low(-1, W64) ELSE IF ~f.z THEN 1 ELSE 0

a64_softfp_value(op, a, b, w) ==
    CASE op \in FpArith \cup {"SQRT"} -> HostFp(op, a, IF op = "SQRT" THEN 0 ELSE b, w)
      [] op = "NEG"      -> Low(a + SignMask(w), w)
      [] op = "FABS"     -> Mag(a, w)
      [] op = "COPYSIGN" -> Bor(Band(Low(a, w), SignMask(w) - 1),
                                Band(Low(b, w), SignMask(w)))
      [] op \in {"2SI", "2USI"} -> Low(TruncInt(a, w), W32)
      [] op \in {"2DI", "2UDI"} -> Low(TruncInt(a, w), W64)
      [] op = "DI2"      -> FromInt(Signed(a, W64), w)
      [] op = "SI2"      -> FromInt(Signed(a, W32), w)
      [] op = "UDI2"     -> FromInt(a, w)
      [] op = "USI2"     -> FromInt(Low(a, W32), w)
      [] op = "EXTEND"   -> Convert(Low(a, W32), W32, W64)
      [] op = "TRUNC"    -> Convert(a, W64, W32)
      [] op = "CMP"      -> a64_cmp3(a, b, w)
      [] op = "UNORD"    -> IF a64_fcmp(a, b, w).v THEN 1 ELSE 0
      [] op = "UMULH"    -> (a * b) \div 2^W64

a64_native(op) == op \notin {"UNKNOWN"} \cup Div128

a64_emit_call_softfp(m, c) == Put(m, 0, a64_softfp_value(c.op, m.r[1], m.r[2], c.w))

a64_emit_call_softfp_slow(res) == [res EXCEPT !.ok = TRUE]
=============================================================================
