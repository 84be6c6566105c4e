------------------------------- MODULE Linker -------------------------------
(***************************************************************************)
(* bpfvm-ld (elf_linker.cpp) and the program loader (elf_loader.cpp): a     *)
(* build is a sequence of links, whose last one makes the program that is   *)
(* then loaded.  The unit of contents and addresses is the 4-byte word, so  *)
(* that an instruction is 2 words, a lddw 4 and a pointer 2; an address     *)
(* that fills a 64-bit field is split into two 32-bit halves, here the      *)
(* remainder and quotient by Half.                                          *)
(*                                                                          *)
(* A word of contents is a cell: its value and a tag, the object, section   *)
(* and offset it was assembled at.  No operation reads a tag; the           *)
(* properties use them to ask where a piece of the inputs ended up.         *)
(***************************************************************************)
EXTENDS Integers, Sequences, FiniteSets, FiniteSetsExt, SequencesExt, TLC

CONSTANTS
  Build,       \* the builds that are tried: sequences of links
  Page,        \* words of a page
  Half,        \* what a 32-bit field holds
  StaticBase,  \* guest_base_ of a static program
  AllocBase,   \* where the loader places the first position-independent module
  Names        \* the symbol names, as a sequence

VARIABLES
  build,    \* the sequence of links
  step,     \* the link under way
  phase,    \* where it stands in run() and write_elf()
  todo,     \* inputs of this link not loaded yet
  objects,  \* objects_
  globals,  \* globals_: the defining symbol of each name
  synth,    \* synthetic_globals_
  shared,   \* what the shared libraries of this link define and need
  got,      \* got_syms_: the names with a GOT slot and a PLT stub
  place,    \* the layout: segments, and guest_addr of every section
  outs,     \* outputs of the links done
  image     \* memory of the program after load_elf and the dynamic linker

link == <<objects, globals, synth, shared, got, place>>
linkVars == <<build, step, phase, todo, link, outs, image>>

Cell(t, v) == [tag |-> t, val |-> v]
Blank == Cell(<<"", "", 0>>, 0)
Name == ToSet(Names)
NoDef == <<0, 0>>
Nowhere == -1
NoPlace == [seg |-> <<>>, addr |-> <<>>]
NoShared == [defs |-> {}, needs |-> {}]
Segs == <<"text", "rodata", "data">>
Mode == build[step].mode
Pic == Mode \in {"shared", "dynamic"}

\* Section boundary symbols: the section each one bounds.
Boundary == [n \in {"__start_x", "__stop_x"} |-> "x"]
ArrayStart == [init |-> "__init_array_start", fini |-> "__fini_array_start"]
ArrayEnd == [init |-> "__init_array_end", fini |-> "__fini_array_end"]
Magic == 2 * Half
Fallback == 3 * Half
FpName == "__bpf_fp_5"
FpId == 5

Align8(n) == n + (n % 2)
PageUp(n) == ((n + Page - 1) \div Page) * Page
RoundUp(n, a) == ((n + a - 1) \div a) * a

\* Words a relocation writes, counted from its offset: the imm fields of lddw
\* and call, a data pointer, a 32-bit datum.
Fields(type) ==
  CASE type = 1 -> <<1, 3>> [] type = 2 -> <<0, 1>> [] type = 10 -> <<1>>
    [] OTHER -> <<0>>

WriteLen(type) == CASE type = 1 -> 4 [] type = 4 -> 1 [] OTHER -> 2

Halves(v, n) == IF n = 2 THEN <<v % Half, v \div Half>> ELSE <<v>>

\* The value the relocated place at address a holds, of a memory or section of cells.
Decode(cells, a, type) ==
  LET f == Fields(type)
      at(i) == cells[a + f[i]].val
  IN  IF Len(f) = 2 THEN at(1) + Half * at(2) ELSE at(1)

Patch(data, off, type, v) ==
  LET f == Fields(type)
      h == Halves(v, Len(f))
  IN  [i \in DOMAIN data |->
         IF \E j \in DOMAIN f : i = off + f[j] + 1
         THEN [data[i] EXCEPT !.val = h[CHOOSE j \in DOMAIN f : i = off + f[j] + 1]]
         ELSE data[i]]

-----------------------------------------------------------------------------
(* Loading an object *)

SymOf(o, r) == o.syms[r.sym]
Size(sec) == Len(sec.data)
Defined(s) == s.sec # 0

Slotted(sec, mode) ==
  mode # "relocatable" /\ sec.seg = "text" /\ sec.type = "prog" /\ sec.data # <<>>

\* read_embedded_addend: SHT_REL keeps its addend in the place it patches; what
\* the compiler leaves in a call is none.  What is read past the end of a
\* section is of no consequence: Apply refuses such a relocation.
Addend(o, r) ==
  IF o.rela THEN r.addend
  ELSE IF r.type = 10 \/ r.off + WriteLen(r.type) > Size(o.secs[r.sec]) THEN 0
  ELSE Decode(o.secs[r.sec].data, r.off + 1, r.type)

\* load_rel_memory: every executable section of a final link gets a frame slot
\* of two words at its head, and what points into the section moves with it.
load_rel_memory(o, mode) ==
  LET shift(i) == IF i # 0 /\ Slotted(o.secs[i], mode) THEN 2 ELSE 0
  IN  [o EXCEPT
        !.secs = [i \in DOMAIN @ |->
                    [@[i] EXCEPT !.slotted = (shift(i) = 2),
                                 !.data = IF shift(i) = 2 THEN <<Blank, Blank>> \o @ ELSE @]],
        !.syms = [i \in DOMAIN @ |-> [@[i] EXCEPT !.value = @ + shift(o.syms[i].sec)]],
        !.rels = [i \in DOMAIN @ |->
                    [@[i] EXCEPT !.addend = Addend(o, o.rels[i]),
                                 !.off = @ + shift(o.rels[i].sec)]],
        !.rela = TRUE]

Pairs(objs, field(_)) ==
  FlattenSeq([i \in DOMAIN objs |-> [j \in DOMAIN field(objs[i]) |-> <<i, j>>]])
SymPairs(objs) == Pairs(objs, LAMBDA o : o.syms)
SecPairs(objs) == Pairs(objs, LAMBDA o : o.secs)
RelPairs(objs) == Pairs(objs, LAMBDA o : o.rels)

Sym(objs, c) == objs[c[1]].syms[c[2]]
Sec(objs, c) == objs[c[1]].secs[c[2]]
Rel(objs, c) == objs[c[1]].rels[c[2]]
RelSym(objs, c) == SymOf(objs[c[1]], Rel(objs, c))

\* load_bpfso_symbols: what a library defines, and what it needs strongly.
load_bpfso_symbols(sh, m) ==
  [defs |-> sh.defs \cup DOMAIN m.exports,
   needs |-> sh.needs \cup {n \in DOMAIN m.imports : m.imports[n] = "global"}]

\* run: a position-independent module reads its dependencies before its objects.
Loading(l) ==
  LET dependency(in) == in.kind # "object"
      input(in) == ~dependency(in)
  IN  IF l.mode \in {"shared", "dynamic"}
      THEN SelectSeq(l.inputs, dependency) \o SelectSeq(l.inputs, input)
      ELSE l.inputs

\* load_input: an object, all members of an archive, or a library's symbols.
\* A partial link refuses a library.
LoadInput ==
  /\ phase = "load"
  /\ todo # <<>>
  /\ LET in == Head(todo)
         out == outs[in.n]
         objs == CASE in.kind = "object" -> <<in.obj>>
                   [] in.kind = "archive" -> in.objs
                   [] in.kind = "output" -> IF out.kind = "rel" THEN <<out.obj>> ELSE <<>>
         lib == in.kind = "output" /\ out.kind = "dyn"
     IN  /\ objects' = objects \o [i \in DOMAIN objs |-> load_rel_memory(objs[i], Mode)]
         /\ shared' = IF lib THEN load_bpfso_symbols(shared, out) ELSE shared
         /\ phase' = IF lib /\ Mode = "relocatable" THEN "failed" ELSE "load"
  /\ todo' = Tail(todo)
  /\ UNCHANGED <<build, step, globals, synth, got, place, outs, image>>

-----------------------------------------------------------------------------
(* Symbols *)

Registers(s) ==
  Defined(s) /\ s.bind \in {"global", "weak"} /\ s.type \in {"func", "object"}
Definitions(objs) == SelectSeq(SymPairs(objs), LAMBDA c : Registers(Sym(objs, c)))

\* Mutant: a later strong definition replaces an earlier strong one.
register_last(objs) ==
  LET Enter(G, c) ==
        LET s == Sym(objs, c)
        IN  IF G[s.name] = NoDef \/ s.bind = "global" THEN [G EXCEPT ![s.name] = c] ELSE G
  IN  FoldLeft(Enter, [n \in Name |-> NoDef], Definitions(objs))

\* register_globals: the first definition, unless it is weak and a later one
\* is not.
register_globals(objs) ==
  LET Enter(G, c) ==
        LET s == Sym(objs, c)
            old == G[s.name]
        IN  IF old = NoDef \/ (Sym(objs, old).bind = "weak" /\ s.bind = "global")
            THEN [G EXCEPT ![s.name] = c]
            ELSE G
  IN  FoldLeft(Enter, [n \in Name |-> NoDef], Definitions(objs))

SecNames(objs) == {Sec(objs, c).name : c \in ToSet(SecPairs(objs))}

\* The synthetic symbols that need no layout: __dso_handle and the boundaries
\* that are referred to, of sections that exist.  Their value is filled later.
collect_section_boundary_refs(objs) ==
  {"__dso_handle"} \cup
  {n \in DOMAIN Boundary :
     /\ Boundary[n] \in SecNames(objs)
     /\ \E c \in ToSet(SymPairs(objs)) : Sym(objs, c).name = n /\ ~Defined(Sym(objs, c))}

\* check_undefined_symbols: every strong reference has a definition somewhere.
check_undefined_symbols(objs, G, syn, sh) ==
  \A c \in ToSet(RelPairs(objs)) :
     LET s == RelSym(objs, c)
     IN  \/ Defined(s) \/ s.bind = "weak"
         \/ G[s.name] # NoDef \/ s.name \in syn \/ s.name \in sh.defs
         \/ s.name = FpName

Register ==
  /\ phase = "load"
  /\ todo = <<>>
  /\ LET G == register_globals(objects)
         syn == collect_section_boundary_refs(objects)
         ok == Mode = "shared" \/ check_undefined_symbols(objects, G, syn, shared)
     IN  /\ globals' = G
         /\ synth' = IF Mode = "relocatable" THEN <<>> ELSE [n \in syn |-> 1]
         /\ phase' = CASE Mode = "relocatable" -> "write_rel"
                       [] Mode # "relocatable" /\ ~ok -> "failed"
                       [] OTHER -> IF Pic THEN "got" ELSE "layout"
  /\ UNCHANGED <<build, step, todo, objects, shared, got, place, outs, image>>

\* synthesize_got_plt: a slot and a stub for every function that is called and
\* not defined in this link, and for the entry point of a dynamic program.
GotNames(objs, G) ==
  LET calls == SelectSeq(RelPairs(objs),
        LAMBDA c : LET s == RelSym(objs, c)
                   IN  Rel(objs, c).type = 10 /\ ~Defined(s)
                       /\ G[s.name] = NoDef /\ s.name # FpName)
      Once(q, n) == IF n \in ToSet(q) THEN q ELSE Append(q, n)
      names == FoldLeft(LAMBDA q, c : Once(q, RelSym(objs, c).name), <<>>, calls)
  IN  IF Mode = "dynamic" /\ G[build[step].entry] = NoDef
      THEN Once(names, build[step].entry) ELSE names

Synthetic(id, sec) == [id |-> id, secs |-> <<sec>>, syms |-> <<>>, rels |-> <<>>,
                       sizes |-> <<>>, rela |-> TRUE]

GotSection(names) ==
  [name |-> ".got.plt", type |-> "prog", seg |-> "data", align |-> 1, slotted |-> FALSE,
   data |-> FlattenSeq([i \in DOMAIN names |->
              [k \in 1..2 |-> Cell(<<"got", names[i], k - 1>>, 0)]])]

\* A stub: lddw r6, slot; ldx r6, [r6]; call *r6; exit, after a frame slot.
PltSection(names) ==
  [name |-> ".plt", type |-> "prog", seg |-> "text", align |-> 1, slotted |-> FALSE,
   data |-> FlattenSeq([i \in DOMAIN names |->
              <<Cell(<<"plt", names[i], -2>>, 0), Cell(<<"plt", names[i], -1>>, Magic)>>
              \o [k \in 1..10 |-> Cell(<<"plt", names[i], k - 1>>, 0)]])]

SynthesizeGotPlt ==
  /\ phase = "got"
  /\ got' = GotNames(objects, globals)
  /\ objects' = IF got' = <<>> THEN objects
                ELSE objects \o <<Synthetic("got", GotSection(got')),
                                  Synthetic("plt", PltSection(got'))>>
  /\ phase' = "layout"
  /\ UNCHANGED <<build, step, todo, globals, synth, shared, place, outs, image>>

-----------------------------------------------------------------------------
(* Layout *)

Arrays(objs, type) ==
  SelectSeq(SecPairs(objs), LAMBDA c : Sec(objs, c).seg = "data" /\ Sec(objs, c).type = type)

\* The sections of a segment, in input order, constructors and destructors
\* last, so that each kind is contiguous.
Bucket(objs, seg) ==
  SelectSeq(SecPairs(objs),
     LAMBDA c : Sec(objs, c).seg = seg
                /\ ~(seg = "data" /\ Sec(objs, c).type \in {"init", "fini"}))
  \o (IF seg = "data" THEN Arrays(objs, "init") \o Arrays(objs, "fini") ELSE <<>>)

\* Offsets of the given sections one after the other, each aligned to 8 bytes.
Stack(objs, secs) ==
  FoldLeft(LAMBDA a, c : [at |-> Append(a.at, Align8(a.end)),
                          end |-> Align8(a.end) + Size(Sec(objs, c))],
           [at |-> <<>>, end |-> 0], secs)

\* One segment: the sections with contents first, the zero ones after them.
Segment(objs, seg) ==
  LET all == Bucket(objs, seg)
      prog == SelectSeq(all, LAMBDA c : Sec(objs, c).type # "nobits")
      bss == SelectSeq(all, LAMBDA c : Sec(objs, c).type = "nobits")
      p == Stack(objs, prog)
      b == Stack(objs, bss)
  IN  [secs |-> prog \o bss,
       off |-> p.at \o [i \in DOMAIN b.at |-> p.end + b.at[i]],
       filesz |-> p.end, memsz |-> p.end + b.end]

Base == IF Mode = "static" THEN StaticBase ELSE 0

\* layout_segments: the segments that have sections, page after page; the
\* first page is left for the file header.
layout_segments(objs) ==
  LET Add(L, name) ==
        LET s == Segment(objs, name)
        IN  IF s.secs = <<>> THEN L
            ELSE [seg |-> Append(L.seg, s @@ [name |-> name, vaddr |-> L.cur]),
                  cur |-> PageUp(L.cur + s.memsz)]
      L == FoldLeft(Add, [seg |-> <<>>, cur |-> Base + Page], Segs)
      At(c) == LET s == CHOOSE x \in ToSet(L.seg) : c \in ToSet(x.secs)
                   i == CHOOSE j \in DOMAIN s.secs : s.secs[j] = c
               IN  s.vaddr + s.off[i]
  IN  [seg |-> L.seg, addr |-> [c \in ToSet(SecPairs(objs)) |-> At(c)]]

\* Mutant: the end of the destructors is where their last array begins.
fini_array_short(objs, p) ==
  LET bounds(type) ==
        LET secs == Arrays(objs, type)
        IN  IF secs = <<>> THEN <<>>
            ELSE (ArrayStart[type] :> p.addr[Head(secs)])
                 @@ (ArrayEnd[type] :> p.addr[Last(secs)]
                       + IF type = "init" THEN Size(Sec(objs, Last(secs))) ELSE 0)
  IN  bounds("init") @@ bounds("fini")

\* compute_array_boundary and define_init_fini_symbols: where the constructors
\* and the destructors begin and end, if there are any.
define_init_fini_symbols(objs, p) ==
  LET bounds(type) ==
        LET secs == Arrays(objs, type)
        IN  IF secs = <<>> THEN <<>>
            ELSE (ArrayStart[type] :> p.addr[Head(secs)])
                 @@ (ArrayEnd[type] :> p.addr[Last(secs)] + Size(Sec(objs, Last(secs))))
  IN  bounds("init") @@ bounds("fini")

\* __start_x and __stop_x, both when either is referred to: the least address
\* and the greatest end.
define_section_boundary_symbols(objs, p, syn) ==
  LET wanted == {Boundary[n] : n \in DOMAIN Boundary \cap DOMAIN syn}
      named(n) == {c \in DOMAIN p.addr : Sec(objs, c).name = Boundary[n]}
      bound(n) == IF n = "__start_x" THEN Min({p.addr[c] : c \in named(n)})
                  ELSE Max({p.addr[c] + Size(Sec(objs, c)) : c \in named(n)})
  IN  [n \in {b \in DOMAIN Boundary : Boundary[b] \in wanted} |-> bound(n)] @@ syn

\* The index of a name in the GOT, and the addresses of its slot and its stub.
GotObj(objs) == Len(objs) - 1
GotIdx(n) == CHOOSE i \in DOMAIN got : got[i] = n
GotSlot(objs, p, n) == p.addr[<<GotObj(objs), 1>>] + 2 * (GotIdx(n) - 1)
PltStub(objs, p, n) == p.addr[<<GotObj(objs) + 1, 1>>] + 12 * (GotIdx(n) - 1) + 2

\* finalize_plt_stubs: each stub loads the address of its own slot.
finalize_plt_stubs(objs, p) ==
  LET fill(data, n) == Patch(data, 12 * (GotIdx(n) - 1) + 2, 1, GotSlot(objs, p, n))
  IN  IF got = <<>> THEN objs
      ELSE [objs EXCEPT ![GotObj(objs) + 1].secs[1].data = FoldLeft(fill, @, got)]

Layout ==
  /\ phase = "layout"
  /\ place' = layout_segments(objects)
  /\ synth' = define_section_boundary_symbols(objects, place',
                define_init_fini_symbols(objects, place') @@ synth)
  /\ objects' = finalize_plt_stubs(objects, place')
  /\ phase' = "apply"
  /\ UNCHANGED <<build, step, todo, globals, shared, got, outs, image>>

-----------------------------------------------------------------------------
(* Relocation *)

SecAddr(i, sec) == place.addr[<<i, sec>>]

\* resolve_symbol: a local symbol is the object's own; any other is what the
\* global table says, then a synthetic symbol; a weak one that nobody defines
\* is 0 in a static program.
resolve_symbol(i, s) ==
  IF s.bind = "local" THEN SecAddr(i, s.sec) + s.value
  ELSE IF globals[s.name] # NoDef
  THEN LET d == Sym(objects, globals[s.name])
       IN  SecAddr(globals[s.name][1], d.sec) + d.value
  ELSE IF s.name \in DOMAIN synth THEN synth[s.name]
  ELSE IF s.bind = "weak" /\ Mode = "static" THEN 0
  ELSE Nowhere

ToStub(s) == s.name \in ToSet(got)

\* Left to the dynamic linker: a name of another module that is not called.
Skipped(c) ==
  /\ resolve_symbol(c[1], RelSym(objects, c)) = Nowhere
  /\ RelSym(objects, c).name # FpName
  /\ ~(Rel(objects, c).type = 10 /\ ToStub(RelSym(objects, c)))

\* apply_relocations, for one relocation of a section with the given words:
\* addresses are final only in a static program; a call is relative, to a stub
\* when another module defines the function; the call of a virtual
\* floating-point instruction turns into it.
apply_relocation(data, c) ==
  LET r == Rel(objects, c)
      s == RelSym(objects, c)
      S == resolve_symbol(c[1], s)
      put(v) == Patch(data, r.off, r.type, v)
      site == SecAddr(c[1], r.sec) + r.off
      tgt == IF S = Nowhere THEN PltStub(objects, place, s.name) ELSE S
  IN  IF Skipped(c) THEN data
      ELSE CASE r.type \in {1, 2} -> IF Pic THEN data ELSE put(S + r.addend)
             [] r.type = 4 -> put((S + r.addend) % Half)
             [] r.type = 10 /\ s.name = FpName -> [put(FpId) EXCEPT ![r.off + 1].val = 2]
             [] r.type = 10 /\ s.name # FpName -> put((tgt - site) \div 2 - 1)

InBounds(c) ==
  LET r == Rel(objects, c)
  IN  Skipped(c) \/ r.off + WriteLen(r.type) <= Size(objects[c[1]].secs[r.sec])

\* apply_relocations, for all objects.  What a link has patched before it fails
\* is thrown away with it.
Apply ==
  /\ phase = "apply"
  /\ LET of(i, k) == SelectSeq(RelPairs(objects), LAMBDA c : c[1] = i /\ Rel(objects, c).sec = k)
         ok == \A c \in ToSet(RelPairs(objects)) : InBounds(c)
     IN  /\ objects' = IF ~ok THEN objects
                       ELSE [i \in DOMAIN objects |-> [objects[i] EXCEPT
                               !.secs = [k \in DOMAIN @ |->
                                  [@[k] EXCEPT !.data = FoldLeft(apply_relocation, @, of(i, k))]]]]
         /\ phase' = IF ok THEN "write" ELSE "failed"
  /\ UNCHANGED <<build, step, todo, globals, synth, shared, got, place, outs, image>>

-----------------------------------------------------------------------------
(* Writing a program or a library *)

\* build_stack_size_map: the compiler's record of a function's frame size, under
\* the function's address.
StackSizes ==
  {<<resolve_symbol(c[1], objects[c[1]].syms[z.sym]) + z.add, z.size>> :
     <<c, z>> \in UNION {{<<x, objects[x[1]].sizes[x[2]]>>} :
                           x \in ToSet(Pairs(objects, LAMBDA o : o.sizes))}}

\* fill_frame_slots: the slot tells the frame size of the function behind it.
fill_frame_slots ==
  LET size(e) == IF \E z \in StackSizes : z[1] = e
                 THEN (CHOOSE z \in StackSizes : z[1] = e)[2] ELSE Fallback
      slot(i, j, data) ==
        [data EXCEPT ![1].val = size(SecAddr(i, j) + 2), ![2].val = Magic]
  IN  [i \in DOMAIN objects |->
        [objects[i] EXCEPT !.secs = [j \in DOMAIN @ |->
           IF @[j].slotted THEN [@[j] EXCEPT !.data = slot(i, j, @)] ELSE @[j]]]]

\* write_payload: the words of a segment.  Past filesz they are not in the
\* file; only their tags are kept here.
Payload(objs, s) ==
  [o \in 0..s.memsz - 1 |->
     LET in == {i \in DOMAIN s.secs : o \in s.off[i]..(s.off[i] + Size(Sec(objs, s.secs[i])) - 1)}
     IN  IF in = {} THEN Blank
         ELSE LET i == Min(in)
              IN  [Sec(objs, s.secs[i]).data[o - s.off[i] + 1] EXCEPT
                     !.val = IF o < s.filesz THEN @ ELSE 0]]

need_ehdr == Mode # "shared" \/ build[step].entry # "_start"

\* write_phdrs: the first segment is extended downwards over the file header.
Headed(segs) ==
  IF ~need_ehdr \/ segs = <<>> THEN segs
  ELSE [segs EXCEPT ![1] =
          [vaddr |-> @.vaddr - Page, filesz |-> @.filesz + Page,
           cells |-> [o \in 0..(Page + Cardinality(DOMAIN @.cells) - 1) |->
                        IF o < Page THEN Cell(<<"file", "header", o>>, 0)
                        ELSE @.cells[o - Page]]]]

\* The dynamic tables follow the last segment, on a page of their own.
DynTables ==
  LET end == Max({s.vaddr + s.memsz : s \in ToSet(place.seg)})
  IN  [vaddr |-> PageUp(end) + 1, filesz |-> 2,
       cells |-> [o \in 0..1 |-> Cell(<<"file", "dynamic", o>>, 0)]]

SymValue(n) == IF globals[n] # NoDef THEN resolve_symbol(1, [name |-> n, bind |-> "global"])
            ELSE synth[n]
Known == {n \in Name : globals[n] # NoDef} \cup DOMAIN synth

\* Mutant: a hidden symbol stays inside even if a library needs it.
ExportedVisible(n) ==
  \/ globals[n] = NoDef
  \/ Sym(objects, globals[n]).vis # "hidden"

\* forced_export and the symbols that stay inside: a hidden one is exported
\* only when a library needs it.
Exported(n) ==
  \/ globals[n] = NoDef
  \/ Sym(objects, globals[n]).vis # "hidden"
  \/ Mode = "dynamic" /\ n \in shared.needs

\* collect_und_names: names left to the dynamic linker, weak if every
\* reference is.
UndSyms == {s \in {RelSym(objects, c) : c \in ToSet(RelPairs(objects))} :
              ~Defined(s) /\ s.name \notin Known}
Imports ==
  LET entry == IF Mode = "dynamic" /\ globals[build[step].entry] = NoDef
               THEN {build[step].entry} ELSE {}
  IN  [n \in {s.name : s \in UndSyms} \cup entry |->
         IF n \notin entry /\ \A s \in UndSyms : s.name = n => s.bind = "weak"
         THEN "weak" ELSE "global"]

\* .dynsym: the imported names, then the exported ones.
DynSym ==
  LET row(n) == [name |-> n, value |-> IF n \in Known THEN SymValue(n) ELSE Nowhere]
      und == SelectSeq(Names, LAMBDA n : n \in DOMAIN Imports)
      def == SelectSeq(Names, LAMBDA n : n \in Known /\ Exported(n))
  IN  [i \in DOMAIN (und \o def) |-> row((und \o def)[i])]

\* elf_hash, here the position in Names; .hash, a chain of symbols per bucket.
elf_hash(n) == CHOOSE i \in DOMAIN Names : Names[i] = n
HashTable(syms) ==
  LET nb == IF syms = <<>> THEN 2 ELSE Len(syms) + 1
      Add(H, i) ==
        LET h == elf_hash(syms[i].name) % nb
        IN  [bucket |-> IF H.last[h] = 0 THEN [H.bucket EXCEPT ![h] = i] ELSE H.bucket,
             chain |-> IF H.last[h] = 0 THEN H.chain ELSE [H.chain EXCEPT ![H.last[h]] = i],
             last |-> [H.last EXCEPT ![h] = i]]
      none == [h \in 0..nb - 1 |-> 0]
  IN  FoldLeft(Add, [bucket |-> none, chain |-> [i \in DOMAIN syms |-> 0], last |-> none],
               [i \in DOMAIN syms |-> i])

\* .rela.dyn: an address inside the module is an addend to its base; any other
\* goes by name.  Each stub's lddw is one of the former.
RelaDyn ==
  LET data == SelectSeq(RelPairs(objects), LAMBDA c : Rel(objects, c).type # 10)
      row(c) == LET r == Rel(objects, c)
                    s == RelSym(objects, c)
                    S == resolve_symbol(c[1], s)
                    A == IF S = Nowhere THEN SecAddr(c[1], s.sec) + s.value ELSE S
                    in == Defined(s) \/ s.name \in Known
                IN  [at |-> SecAddr(c[1], r.sec) + r.off, type |-> r.type,
                     sym |-> IF in THEN "" ELSE s.name,
                     addend |-> IF in THEN A + r.addend ELSE r.addend]
  IN  [i \in DOMAIN data |-> row(data[i])]
      \o [i \in DOMAIN got |-> [at |-> PltStub(objects, place, got[i]), type |-> 1, sym |-> "",
                                addend |-> GotSlot(objects, place, got[i])]]

\* .rela.plt: each GOT slot takes the address of its function.
RelaPlt == [i \in DOMAIN got |-> [at |-> GotSlot(objects, place, got[i]), type |-> 2,
                                  sym |-> got[i], addend |-> 0]]

EntryPoint ==
  LET e == build[step].entry
  IN  IF globals[e] # NoDef THEN SymValue(e)
      ELSE IF Mode = "dynamic" /\ e \in ToSet(got) THEN PltStub(objects, place, e)
      ELSE 0

\* write_elf_impl
Module ==
  LET objs == fill_frame_slots
      segs == Headed([i \in DOMAIN place.seg |->
                [vaddr |-> place.seg[i].vaddr, filesz |-> place.seg[i].filesz,
                 cells |-> Payload(objs, place.seg[i])]])
  IN  [kind |-> IF Pic THEN "dyn" ELSE "exec",
       segs |-> IF Pic THEN Append(segs, DynTables) ELSE segs,
       entry |-> EntryPoint,
       symtab |-> [n \in Known |-> SymValue(n)],
       exports |-> IF Pic THEN [n \in {m \in Known : Exported(m)} |-> SymValue(n)] ELSE <<>>,
       imports |-> IF Pic THEN Imports ELSE <<>>,
       dynsym |-> IF Pic THEN DynSym ELSE <<>>,
       hash |-> IF Pic THEN HashTable(DynSym) ELSE <<>>,
       rela |-> IF Pic THEN RelaDyn \o RelaPlt ELSE <<>>]

NextLink ==
  /\ step' = IF step < Len(build) THEN step + 1 ELSE step
  /\ todo' = IF step < Len(build) THEN Loading(build[step + 1]) ELSE <<>>
  /\ phase' = IF step < Len(build) THEN "load" ELSE "run"
  /\ objects' = <<>> /\ globals' = <<>> /\ synth' = <<>>
  /\ shared' = NoShared /\ got' = <<>> /\ place' = NoPlace

WriteElf ==
  /\ phase = "write"
  /\ outs' = Append(outs, Module)
  /\ NextLink
  /\ UNCHANGED <<build, image>>

-----------------------------------------------------------------------------
(* Writing a partial link *)

Blanks(n) == [k \in 1..n |-> Blank]
Zeroed(data) == [k \in DOMAIN data |-> [data[k] EXCEPT !.val = 0]]

\* merge_rel_sections: sections of one name become one; the first fixes its
\* kind, and nothing but that of zero sections is kept.
merge_rel_sections(objs) ==
  LET all == SecPairs(objs)
      same(c) == SelectSeq(all, LAMBDA d : Sec(objs, d).name = Sec(objs, c).name)
      firsts == SelectSeq(all, LAMBDA c : c = Head(same(c)))
      Add(M, c) ==
        LET s == Sec(objs, c)
            off == RoundUp(M.acc, s.align)
            pad == Blanks(off - M.acc)
            put == CASE M.sec.type = "nobits" -> Zeroed(s.data)
                     [] M.sec.type = "prog" /\ s.type = "nobits" -> <<>>
                     [] OTHER -> s.data
        IN  [sec |-> [M.sec EXCEPT !.align = Max({@, s.align}), !.data = @ \o pad \o put],
             acc |-> off + Size(s), at |-> M.at @@ (c :> off)]
      start(s) == [sec |-> [s EXCEPT !.type = IF @ = "nobits" THEN @ ELSE "prog", !.data = <<>>],
                   acc |-> 0, at |-> <<>>]
      merged == [k \in DOMAIN firsts |->
                   FoldLeft(Add, start(Sec(objs, firsts[k])), same(firsts[k]))]
      in(c) == CHOOSE k \in DOMAIN merged : c \in DOMAIN merged[k].at
  IN  [secs |-> [k \in DOMAIN merged |-> merged[k].sec],
       at |-> [c \in ToSet(all) |-> <<in(c), merged[in(c)].at[c]>>]]

\* build_rel_symtab: the symbols kept, as positions in the inputs: every local
\* one, the winner of every name, and each undefined name once.
RelSymtab ==
  LET all == SymPairs(objects)
      und == SelectSeq(all, LAMBDA c : ~Defined(Sym(objects, c)) /\ Sym(objects, c).bind # "local"
                                       /\ globals[Sym(objects, c).name] = NoDef)
      first == SelectSeq(und, LAMBDA c : c = SelectSeq(und, LAMBDA d :
                                   Sym(objects, d).name = Sym(objects, c).name)[1])
  IN  SelectSeq(all, LAMBDA c : Sym(objects, c).bind = "local")
      \o SelectSeq(all, LAMBDA c : c \in {globals[n] : n \in Name})
      \o first

\* The index a reference has in the new table.
RelSymIndex(tab, i, sym) ==
  LET same(c) == {k \in DOMAIN tab : tab[k] = c}
      s == objects[i].syms[sym]
      byName == {k \in DOMAIN tab : Sym(objects, tab[k]).name = s.name
                                    /\ Sym(objects, tab[k]).bind # "local"}
  IN  IF same(<<i, sym>>) # {} THEN CHOOSE k \in same(<<i, sym>>) : TRUE
      ELSE CHOOSE k \in byName : TRUE

\* build_rel_relocations and write_rel_impl: relocations are kept, at their new
\* places and against the new symbols, with explicit addends.
RelObject ==
  LET M == merge_rel_sections(objects)
      tab == RelSymtab
      sym(c) == LET s == Sym(objects, c)
                IN  IF ~Defined(s) THEN s
                    ELSE [s EXCEPT !.sec = M.at[<<c[1], @>>][1],
                                   !.value = @ + M.at[<<c[1], s.sec>>][2]]
      rel(c) == LET r == Rel(objects, c)
                IN  [r EXCEPT !.sec = M.at[<<c[1], @>>][1], !.off = @ + M.at[<<c[1], r.sec>>][2],
                              !.sym = RelSymIndex(tab, c[1], @)]
      size(c) == [objects[c[1]].sizes[c[2]] EXCEPT !.sym = RelSymIndex(tab, c[1], @)]
      map(f(_), q) == [i \in DOMAIN q |-> f(q[i])]
  IN  [id |-> "", secs |-> M.secs, syms |-> map(sym, tab), rels |-> map(rel, RelPairs(objects)),
       sizes |-> map(size, Pairs(objects, LAMBDA o : o.sizes)), rela |-> TRUE]

WriteRel ==
  /\ phase = "write_rel"
  /\ outs' = Append(outs, [kind |-> "rel", obj |-> RelObject])
  /\ NextLink
  /\ UNCHANGED <<build, image>>

-----------------------------------------------------------------------------
(* Loading the program *)

\* The modules of the process: the program, then its interpreter.
Modules == IF Last(outs).kind = "exec" THEN <<Len(outs)>> ELSE <<Len(outs), 1>>

\* Mutant: the next module follows without being moved to a page of its own.
layout_unrounded(m, next) ==
  LET min == Min({s.vaddr : s \in ToSet(m.segs)})
      end == Max({s.vaddr + Cardinality(DOMAIN s.cells) : s \in ToSet(m.segs)})
      at == IF m.kind = "dyn" THEN next - min ELSE 0
  IN  [base |-> IF m.kind = "dyn" THEN at + min ELSE 0,
       next |-> IF m.kind = "dyn" THEN next + end - min ELSE next,
       segs |-> [i \in DOMAIN m.segs |-> [m.segs[i] EXCEPT !.vaddr = @ + at]]]

\* layout_module: a position-independent module is moved as a whole to the next
\* free page, its lowest segment first.
layout_module(m, next) ==
  LET min == Min({s.vaddr : s \in ToSet(m.segs)})
      end == Max({s.vaddr + Cardinality(DOMAIN s.cells) : s \in ToSet(m.segs)})
      at == IF m.kind = "dyn" THEN next - min ELSE 0
  IN  [base |-> IF m.kind = "dyn" THEN at + min ELSE 0,
       next |-> IF m.kind = "dyn" THEN PageUp(next + end - min) ELSE next,
       segs |-> [i \in DOMAIN m.segs |-> [m.segs[i] EXCEPT !.vaddr = @ + at]]]

Span(s) == s.vaddr..(s.vaddr + Cardinality(DOMAIN s.cells) - 1)

check_overlaps(segs) ==
  \A i, j \in DOMAIN segs : i # j => Span(segs[i]) \cap Span(segs[j]) = {}

\* map_segment: whole pages, zero around and behind the words of the file.  Its
\* refusals are left out: a segment of write_elf has no more words in the file
\* than in memory, and the host grants the memory and reads the file.
map_segment(s) ==
  LET end == s.vaddr + Cardinality(DOMAIN s.cells)
  IN  [a \in ((s.vaddr \div Page) * Page)..(PageUp(end) - 1) |->
         IF a \in Span(s) THEN s.cells[a - s.vaddr] ELSE Blank]

Merge(mem, s) == map_segment(s) @@ mem

\* The layout of all modules, one after the other.
LayModules ==
  LET Lay(L, n) ==
        LET l == layout_module(outs[n], L.next)
        IN  [next |-> l.next, base |-> Append(L.base, l.base), segs |-> L.segs \o l.segs]
  IN  FoldLeft(Lay, [next |-> AllocBase, base |-> <<>>, segs |-> <<>>], Modules)

\* load_elf, load_elf_ldso: map every segment of the program and, for a dynamic
\* program, of its interpreter.
LoadElf ==
  /\ phase = "run"
  /\ LET L == LayModules
     IN  /\ image' = [mem |-> FoldLeft(Merge, <<>>, L.segs), base |-> L.base,
                      entry |-> L.base[1] + Last(outs).entry]
         /\ phase' = CASE ~check_overlaps(L.segs) -> "failed"
                       [] check_overlaps(L.segs) /\ Len(Modules) = 1 -> "ready"
                       [] OTHER -> "relocate"
  /\ UNCHANGED <<build, step, todo, link, outs>>

\* The dynamic linker of the guest, which is not part of this repository: it
\* looks a name up in the hash table of one module after the other.
InHash(m, n) ==
  LET found[i \in 0..Len(m.dynsym)] ==
        IF i = 0 THEN Nowhere
        ELSE IF m.dynsym[i].name = n /\ m.dynsym[i].value # Nowhere THEN m.dynsym[i].value
        ELSE found[m.hash.chain[i]]
  IN  found[m.hash.bucket[elf_hash(n) % Cardinality(DOMAIN m.hash.bucket)]]

Lookup(n) ==
  LET has == {i \in DOMAIN Modules : InHash(outs[Modules[i]], n) # Nowhere}
  IN  IF has = {} THEN Nowhere
      ELSE image.base[Min(has)] + InHash(outs[Modules[Min(has)]], n)

Unbound ==
  \E i \in DOMAIN Modules : \E n \in DOMAIN outs[Modules[i]].imports :
     outs[Modules[i]].imports[n] = "global" /\ n # FpName /\ Lookup(n) = Nowhere

DynamicLink ==
  /\ phase = "relocate"
  /\ LET rows == FlattenSeq([i \in DOMAIN Modules |->
                   [k \in DOMAIN outs[Modules[i]].rela |->
                      <<image.base[i], outs[Modules[i]].rela[k]>>]])
         bound(x) == IF x[2].sym = "" THEN x[1]
                     ELSE IF Lookup(x[2].sym) = Nowhere THEN 0 ELSE Lookup(x[2].sym)
         put(mem, x) ==
           LET f == Fields(x[2].type)
               h == Halves(bound(x) + x[2].addend, Len(f))
           IN  [a \in {x[1] + x[2].at + f[j] : j \in DOMAIN f} |->
                  [mem[a] EXCEPT !.val = h[CHOOSE j \in DOMAIN f : a = x[1] + x[2].at + f[j]]]]
               @@ mem
     IN  image' = [image EXCEPT !.mem = FoldLeft(put, @, rows)]
  /\ phase' = IF Unbound THEN "failed" ELSE "ready"
  /\ UNCHANGED <<build, step, todo, link, outs>>

-----------------------------------------------------------------------------
LinkInit ==
  /\ build \in Build
  /\ step = 1
  /\ phase = "load"
  /\ todo = Loading(build[1])
  /\ objects = <<>> /\ globals = <<>> /\ synth = <<>>
  /\ shared = NoShared /\ got = <<>> /\ place = NoPlace
  /\ outs = <<>>
  /\ image = <<>>

LinkNext ==
  \/ LoadInput \/ Register \/ SynthesizeGotPlt \/ Layout \/ Apply
  \/ WriteElf \/ WriteRel \/ LoadElf \/ DynamicLink

LinkSpec == LinkInit /\ [][LinkNext]_linkVars

-----------------------------------------------------------------------------
(* What a build promises, said of the inputs and of the final memory only *)

Finals == {l \in DOMAIN build : build[l].mode # "relocatable"}

\* The objects a link is made of, those that came through a partial link included.
Plain(in) == CASE in.kind = "object" -> <<in.obj>>
               [] in.kind = "archive" -> in.objs
               [] OTHER -> <<>>
PlainOf(l) == FlattenSeq([k \in DOMAIN build[l].inputs |-> Plain(build[l].inputs[k])])
ThroughPartial(in) == in.kind = "output" /\ build[in.n].mode = "relocatable"
Sources(l) ==
  FlattenSeq([k \in DOMAIN build[l].inputs |->
    LET in == build[l].inputs[k]
    IN  IF ThroughPartial(in) THEN PlainOf(in.n) ELSE Plain(in)])
Partial(l) == \E in \in ToSet(build[l].inputs) : ThroughPartial(in)

\* Where a word of an input is in memory.
Where(o, sec, off) ==
  CHOOSE a \in DOMAIN image.mem : image.mem[a].tag = <<o.id, o.secs[sec].name, off>>

\* The definition of a name in a module: the first strong one, else the first.
Winner(l, n) ==
  LET src == Sources(l)
      defs == {c \in ToSet(SymPairs(src)) : Registers(Sym(src, c)) /\ Sym(src, c).name = n}
      strong == {c \in defs : Sym(src, c).bind = "global"}
      pool == IF strong # {} THEN strong ELSE defs
  IN  IF pool = {} THEN NoDef
      ELSE CHOOSE c \in pool : \A d \in pool : c[1] <= d[1]

\* A module gives a name to the others unless it is hidden; a hidden name of
\* the program is given to a library that cannot do without it.
NeededBy(l, n) ==
  \E i \in DOMAIN Sources(l) : \E r \in ToSet(Sources(l)[i].rels) :
     LET s == SymOf(Sources(l)[i], r) IN s.name = n /\ s.bind = "global"
Gives(l, n) ==
  /\ Winner(l, n) # NoDef
  /\ \/ Sym(Sources(l), Winner(l, n)).vis # "hidden"
     \/ build[l].mode = "dynamic" /\ \E k \in Finals \ {l} : Winner(k, n) = NoDef /\ NeededBy(k, n)

Loc(l, n) == LET c == Winner(l, n)
                 s == Sym(Sources(l), c)
             IN  Where(Sources(l)[c[1]], s.sec, s.value)

Linkers == DOMAIN Boundary \cup {"__dso_handle", FpName}
           \cup {ArrayStart[t] : t \in {"init", "fini"}} \cup {ArrayEnd[t] : t \in {"init", "fini"}}

Wanted(l, o, s) ==
  IF s.bind = "local" THEN Where(o, s.sec, s.value)
  ELSE IF Winner(l, s.name) # NoDef THEN Loc(l, s.name)
  ELSE IF \E k \in Finals : Gives(k, s.name)
  THEN Loc(Max({k \in Finals : Gives(k, s.name)}), s.name)
  ELSE 0

\* What a place of the final memory refers to; a stub stands for what its slot holds.
Word(a) == image.mem[a].val
Through(a) ==
  IF a \in DOMAIN image.mem /\ image.mem[a].tag[1] = "plt" /\ image.mem[a].tag[3] = 0
  THEN Decode(image.mem, Decode(image.mem, a, 1), 2)
  ELSE a
Refers(o, r) ==
  LET a == Where(o, r.sec, r.off)
      v == Decode(image.mem, a, r.type)
  IN  IF r.type = 10 THEN Through(a + 2 * (v + 1)) ELSE v

\* A name that is defined without a type does not enter globals_, so that no
\* reference finds it.
Untyped(s) == Defined(s) /\ s.bind # "local" /\ s.type = "notype"

\* References reach their definitions: in the memory a program starts with,
\* every call and every address of every input object leads to the definition
\* that the order of the inputs and the bindings pick, whether the link was
\* static, dynamic, from an archive or in two steps (register_globals,
\* resolve_symbol, apply_relocations, the GOT, the PLT, .rela.dyn, -r), and so
\* does the entry point.
ReferencesReach ==
  phase = "ready" =>
    /\ \A l \in Finals : \A i \in DOMAIN Sources(l) :
         LET o == Sources(l)[i]
         IN  \A r \in ToSet(o.rels) :
               LET s == SymOf(o, r)
                   want == Wanted(l, o, s) + Addend(o, r)
               IN  s.name \in Linkers \/ Untyped(s)
                   \/ Refers(o, r) = IF r.type = 4 THEN want % Half ELSE want
    /\ Through(image.entry) = Wanted(Len(build), Sources(Len(build))[1],
                                     [name |-> build[Len(build)].entry, bind |-> "global"])

\* Nothing is lost: every word of every section of the inputs is in memory
\* once, the words of a section side by side, with its contents unless a
\* relocation writes there, zero if the section is (layout_segments,
\* write_payload, merge_rel_sections, layout_module, map_segment).
ContentsKept ==
  phase = "ready" =>
    \A l \in Finals : \A i \in DOMAIN Sources(l) :
      LET o == Sources(l)[i]
      IN  \A j \in DOMAIN o.secs : \A k \in DOMAIN o.secs[j].data :
            LET c == o.secs[j].data[k]
                at == {a \in DOMAIN image.mem : image.mem[a].tag = c.tag}
            IN  /\ at = {Where(o, j, 0) + k - 1}
                /\ \/ \A a \in at : Word(a) = c.val
                   \/ \E r \in ToSet(o.rels) : r.sec = j /\ k - 1 \in r.off..(r.off + WriteLen(r.type) - 1)

\* The bounds are right: __init_array_start .. __init_array_end hold all the
\* constructors of a module, in order and nothing else, so do the bounds of the
\* destructors (compute_array_boundary), and __start_x .. __stop_x, defined both
\* or neither, begin, end and enclose the words of section x
\* (define_section_boundary_symbols).  A partial link turns these arrays into
\* plain data, which the former do not see.
ArraysBounded ==
  phase = "ready" =>
    \A m \in DOMAIN Modules :
      LET l == Modules[m]
          src == Sources(l)
          sym(n) == image.base[m] + outs[l].symtab[n]
          array(type) ==
            FlattenSeq([i \in DOMAIN src |-> FlattenSeq([j \in DOMAIN src[i].secs |->
              IF src[i].secs[j].type = type THEN src[i].secs[j].data ELSE <<>>])])
          xs == {a \in DOMAIN image.mem : image.mem[a].tag[2] = "x"
                                          /\ \E i \in DOMAIN src : src[i].id = image.mem[a].tag[1]}
      IN  /\ \A type \in {"init", "fini"} :
               (array(type) # <<>> /\ ~Partial(l)) =>
                 /\ sym(ArrayEnd[type]) = sym(ArrayStart[type]) + Len(array(type))
                 /\ \A k \in DOMAIN array(type) :
                      image.mem[sym(ArrayStart[type]) + k - 1].tag = array(type)[k].tag
          /\ {"__start_x", "__stop_x"} \cap DOMAIN outs[l].symtab # {} =>
               sym("__start_x") = Min(xs) /\ sym("__stop_x") = Max(xs) + 1

\* Frame slots tell the truth: the two words before the first function of an
\* executable section are the frame size that the compiler recorded for it, or
\* the fallback, and the mark of a slot (build_stack_size_map,
\* fill_frame_slots).  A section that a partial link put behind another one has
\* no slot of its own.
FrameSlotsTell ==
  phase = "ready" =>
    \A l \in Finals : \A i \in DOMAIN Sources(l) :
      LET o == Sources(l)[i]
      IN  \A j \in DOMAIN o.secs :
            (o.secs[j].seg = "text" /\ (Partial(l) => i = 1)) =>
              LET a == Where(o, j, 0)
                  zs == {z \in ToSet(o.sizes) : o.syms[z.sym].sec = j /\ o.syms[z.sym].value + z.add = 0}
              IN  /\ Word(a - 1) = Magic
                  /\ IF zs = {} THEN Word(a - 2) = Fallback
                     ELSE \E z \in zs : Word(a - 2) = z.size

\* The sections the linker fills itself tell the truth about the others: the bounds
\* of arrays and of named sections, and the frame slots.
LinkerSectionsTell == ArraysBounded /\ FrameSlotsTell

\* The verdict is right: a build ends with a running program exactly when every
\* strong reference has a definition in its own module or one that another
\* module gives (check_undefined_symbols, load_bpfso_symbols, forced_export),
\* no relocation writes past the end of its section (apply_relocations), and no
\* library was given to a partial link (run_relocatable).
LinkVerdict ==
  LET missing == \E l \in Finals : \E i \in DOMAIN Sources(l) :
        LET o == Sources(l)[i]
        IN  \E r \in ToSet(o.rels) :
              LET s == SymOf(o, r)
              IN  /\ ~Defined(s) /\ s.bind = "global" /\ s.name \notin Linkers
                  /\ Winner(l, s.name) = NoDef
                  /\ ~\E k \in Finals \ {l} : Gives(k, s.name)
      refused == \E l \in DOMAIN build \ Finals : \E in \in ToSet(build[l].inputs) :
                   in.kind = "output" /\ in.n \in Finals
      misplaced == \E l \in Finals : \E o \in ToSet(Sources(l)) : \E r \in ToSet(o.rels) :
                     r.off + WriteLen(r.type) > Size(o.secs[r.sec])
  IN  phase \in {"ready", "failed"} => (phase = "failed") = (missing \/ misplaced \/ refused)
=============================================================================
