----------------------------- MODULE MCPlatform -----------------------------
(***************************************************************************)
(* What a guest program stands on, for TLC: one behaviour executes one      *)
(* instruction on every engine, or builds and loads a program, or is a      *)
(* behaviour of guest memory or of the descriptor tables.  The variables of *)
(* the parts that do not run keep their initial values.                     *)
(***************************************************************************)
EXTENDS MCMemory, Engines, Linker, Descriptors

CONSTANTS q1, q2, u1, u2, u3

VARIABLE which      \* the part that runs

-----------------------------------------------------------------------------
(* Descriptors: two threads in one process, and a process to fork.             *)
MCProcessOf == u1 :> q1 @@ u2 :> q1 @@ u3 :> q2
MCQuota == {u1 :> 2 @@ u2 :> 1 @@ u3 :> 0, u1 :> 2 @@ u2 :> 0 @@ u3 :> 1,
            u1 :> 1 @@ u2 :> 1 @@ u3 :> 1}

-----------------------------------------------------------------------------
(* Instructions: values at the edges of every width, addresses at and across
   the edges of both maps and of the address space.                            *)

MCVals  == {0, 1, 2, 7, 8, 15, 127, 128, 240, 255}
MCFps   == {0, 1, 3, 4, 6, 7, 8, 9, 15, 56, 83, 119, 120, 121, 128, 135, 143, 184, 248, 255}
MCBases == {62, 63, 64, 65, 66, 68, 70, 71, 72, 73, 127, 128, 129, 135, 136, 254, 255}
MCPats  == {90, 421, 511}
MCWides == {0, 1, 7, 255, 256, 257, 4660, 32767, 32768, 65280, 65534, 65535}

-----------------------------------------------------------------------------
(* Builds from three objects that define and use a function f and a datum g in
   every combination of bindings, linked statically, from an archive, in two
   steps, and as a program with a library.                                     *)
MCNames == <<"", "f", "g", "_start", "_dlstart", "__start_x", "__stop_x", "__dso_handle",
             "__init_array_start", "__init_array_end", "__fini_array_start", "__fini_array_end",
             "__bpf_fp_5">>

\* A section whose words are given by value.
Filled(id, name, type, seg, align, vals) ==
  [name |-> name, type |-> type, seg |-> seg, align |-> align, slotted |-> FALSE,
   data |-> [k \in DOMAIN vals |-> Cell(<<id, name, k - 1>>, vals[k])]]

Symbol(name, bind, type, vis, sec, value) ==
  [name |-> name, bind |-> bind, type |-> type, vis |-> vis, sec |-> sec, value |-> value]

\* The symbol f or g, defined in the given place or not at all.
Sought(name, kind, type, sec, value) ==
  CASE kind = "undef" -> Symbol(name, "global", "notype", "default", 0, 0)
    [] kind = "wundef" -> Symbol(name, "weak", "notype", "default", 0, 0)
    [] kind = "global" -> Symbol(name, "global", type, "default", sec, value)
    [] kind = "weak" -> Symbol(name, "weak", type, "default", sec, value)
    [] kind = "hidden" -> Symbol(name, "global", type, "hidden", sec, value)
    [] kind = "notype" -> Symbol(name, "global", "notype", "default", sec, value)

Reloc(sec, off, type, sym) == [sec |-> sec, off |-> off, type |-> type, sym |-> sym, addend |-> 0]

\* .text calls f, loads the address of g and may hold f; .data points to f and
\* just past g and may hold g, as .bss may; .init_array and .fini_array point into
\* .text, and .text.h is called through its section symbol.
Object(id, fk, gk, gsec, narrow) ==
  [id |-> id, rela |-> FALSE,
   secs |-> <<Filled(id, ".text", "prog", "text", 2, <<7, -1, 7, 0, 7, 0, 7, -1, 7, 7, 8, 8>>),
              Filled(id, ".data", "prog", "data", 2, <<0, 0, 1, 0, 9>>),
              Filled(id, ".bss", "nobits", "data", 2, <<0, 0, 0>>),
              Filled(id, ".rodata", "prog", "rodata", 1, <<0, 3, 4>>),
              Filled(id, ".init_array", "init", "data", 2, <<8, 0>>),
              Filled(id, "x", "prog", "data", 1, <<5>>),
              Filled(id, ".text.h", "prog", "text", 2, <<6, 6>>),
              Filled(id, ".fini_array", "fini", "data", 2, <<4, 0>>)>>,
   syms |-> <<Symbol("", "local", "section", "default", 1, 0),
              Symbol("", "local", "section", "default", 7, 0),
              Sought("f", fk, "func", 1, 10),
              Sought("g", gk, "object", gsec, IF gsec = 2 THEN 4 ELSE 1)>>,
   rels |-> <<Reloc(1, 0, 10, 3), Reloc(1, 2, 1, 4), Reloc(1, 6, 10, 2),
              Reloc(2, 0, 2, 3), Reloc(2, 2, 2, 4), Reloc(5, 0, 2, 1), Reloc(8, 0, 2, 1)>>
            \o IF narrow THEN <<Reloc(4, 0, 4, 4)>> ELSE <<>>,
   sizes |-> <<[sym |-> 1, add |-> 0, size |-> 11], [sym |-> 1, add |-> 10, size |-> 12]>>]

\* The first object is the one a program starts in; it uses the linker's symbols.
Starting(o) ==
  [o EXCEPT !.syms = @ \o <<Symbol("_start", "global", "func", "default", 1, 0),
                            Symbol("__start_x", "global", "notype", "default", 0, 0),
                            Symbol("__fini_array_end", "weak", "notype", "default", 0, 0),
                            Symbol("__init_array_start", "weak", "notype", "default", 0, 0),
                            Symbol("__bpf_fp_5", "global", "notype", "default", 0, 0)>>,
            !.secs = Append(@, Filled(o.id, ".text.m", "prog", "text", 2, <<7, 0, 7, 0, 7, -1>>)),
            !.rels = @ \o <<Reloc(9, 0, 1, 6), Reloc(9, 4, 10, 9)>>]

As(n) == {Starting(Object("a", f, g, 2, n)) : f \in {"undef", "weak"}, g \in {"undef", "global"}}
Bs(n, more) == {Object("b", f, g, 3, n) : f \in {"undef", "global", "weak"}, g \in {"undef", "global"} \cup more}
Cs(n, more) == {Object("c", f, g, 3, n) : f \in {"undef", "global"} \cup more, g \in {"undef", "global"}}

\* With one relocation more, at the very end of a section or past it.
Late(o, sec, off, type) == [o EXCEPT !.rels = Append(@, Reloc(sec, off, type, IF type = 10 THEN 3 ELSE 4))]
Lates(O) == UNION {{Late(o, 4, 1, 2), Late(o, 4, 2, 2), Late(o, 7, 0, 10), Late(o, 7, 1, 10)} : o \in O}

Obj(o) == [kind |-> "object", obj |-> o]
Out(n) == [kind |-> "output", n |-> n]
Link(mode, entry, inputs) == [mode |-> mode, entry |-> entry, inputs |-> inputs]
Static(inputs) == Link("static", "_start", inputs)
Library(o) == Link("shared", "_dlstart", <<Obj(o)>>)

Builds ==
  LET w == {"weak"}
  IN  {<<Static(<<Obj(a), Obj(b), Obj(c)>>)>> :
              a \in As(TRUE), b \in Bs(FALSE, {}), c \in Cs(FALSE, {"wundef", "hidden", "notype"})}
      \cup {<<Static(<<Obj(a), Obj(b), Obj(c)>>)>> :
              a \in As(FALSE), b \in {Object("b", "global", "global", 3, FALSE)}, c \in Lates(Cs(FALSE, {}))}
      \cup {<<Static(<<Obj(a), [kind |-> "archive", objs |-> <<b, c>>]>>)>> :
              a \in As(FALSE), b \in Bs(TRUE, {}), c \in Cs(FALSE, {})}
      \cup {<<Link("relocatable", "", <<Obj(a), Obj(b)>>), Static(<<Out(1), Obj(c)>>)>> :
              a \in As(FALSE), b \in Bs(TRUE, w), c \in Cs(FALSE, w)}
      \cup {<<Link("relocatable", "", <<Obj(a), Obj(b), Obj(c)>>), Static(<<Out(1)>>)>> :
              a \in As(FALSE), b \in Bs(FALSE, {}), c \in Cs(FALSE, w)}
      \cup {<<Library(c), Link("dynamic", "_start", <<Obj(a), Obj(b), Out(1)>>)>> :
              a \in As(FALSE), b \in Bs(FALSE, {}), c \in Cs(FALSE, {"wundef", "hidden"})}
      \cup {<<Library(a), Link("dynamic", "_start", <<Obj(b), Obj(c), Out(1)>>)>> :
              a \in As(FALSE), b \in Bs(FALSE, {}), c \in Cs(FALSE, {"hidden", "notype"})}
      \cup {<<Library(c), Link("relocatable", "", <<Obj(a), Out(1)>>), Static(<<Out(2)>>)>> :
              a \in As(FALSE), c \in Cs(FALSE, {})}

-----------------------------------------------------------------------------
suiteVars == <<which, vars, machineVars, fdVars, linkVars>>

NoLink ==
  /\ build = <<>> /\ step = 0 /\ phase = "none" /\ todo = <<>> /\ objects = <<>>
  /\ globals = <<>> /\ synth = <<>> /\ shared = <<>> /\ got = <<>> /\ place = <<>>
  /\ outs = <<>> /\ image = <<>>

SuiteInit ==
  /\ which \in {"machine", "linker", "descriptors", "memory"}
  /\ IF which = "machine" THEN MachineInit ELSE insn = NoInsn /\ pre = NoInsn /\ out = NoInsn
  /\ IF which = "linker" THEN LinkInit ELSE NoLink
  /\ FdInit /\ (which # "descriptors" => calls[u1] = 1)
  /\ Init

Insns(A) == which = "machine" /\ A /\ UNCHANGED <<which, vars, fdVars, linkVars>>
Links(A) == which = "linker" /\ A /\ UNCHANGED <<which, vars, machineVars, fdVars>>
Descs(A) == which = "descriptors" /\ A /\ UNCHANGED <<which, vars, machineVars, linkVars>>
Mems(A) == which = "memory" /\ A /\ UNCHANGED <<which, machineVars, fdVars, linkVars>>

SuiteNext == Insns(MachineNext) \/ Links(LinkNext) \/ Descs(FdNext) \/ Mems(Next)

SuiteSpec == SuiteInit /\ [][SuiteNext]_suiteVars
=============================================================================
