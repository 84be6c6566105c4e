-------------------------------- MODULE MCJit --------------------------------
EXTENDS Jit

I(o)          == [op |-> o]
R(o, r)       == [op |-> o, reg |-> r]
J(r, v, t)    == [op |-> "jne", reg |-> r, val |-> v, to |-> t]
T(o, t)       == [op |-> o, to |-> t]

(* An endless loop around a call, which can be entered in the middle; the callee calls a
   function the emitter refuses, though a pc of it can be compiled.                  *)
LoopCall == [limit |-> FALSE, first |-> TRUE, sends |-> {1, 2}, handler |-> <<10, 12>>, hot |-> {2, 4, 6, 7}, code |->
    <<R("inc", 6), T("call", 4), J(6, 0, 2),
      T("call", 6), I("exit"),
      J(0, 1, 8), I("exit"), R("odd", 0), I("exit"),
      R("inc", 0), I("exit"), I("exit")>>]

(* An endless compiled loop, and endless compiled recursion.                        *)
Spin == [limit |-> TRUE, first |-> TRUE, sends |-> {1}, handler |-> <<3, 5>>, hot |-> {1, 2, 3}, code |->
    <<R("inc", 6), T("ja", 1), R("inc", 0), I("exit"), I("exit")>>]
Recurse == [limit |-> FALSE, first |-> TRUE, sends |-> {1}, handler |-> <<4, 5>>, hot |-> {1, 2, 4}, code |->
    <<R("inc", 0), T("call", 1), I("exit"), I("exit"), I("exit")>>]

(* sigsetjmp, a callee that longjmps over its caller, a blocking call, execve.      *)
Jumps == [limit |-> FALSE, first |-> TRUE, sends |-> {1}, handler |-> <<8, 10>>, hot |-> {1, 2, 5}, code |->
    <<I("setjmp"), J(0, 0, 4), T("call", 5), T("exec", 5),
      I("block"), I("longjmp"), I("exit"),
      R("inc", 0), I("exit"), I("exit")>>]
Second == [limit |-> FALSE, first |-> FALSE, sends |-> {1}, handler |-> <<3, 5>>, hot |-> {1, 3}, code |->
    <<I("sys"), I("quit"), R("inc", 0), I("exit"), I("exit")>>]

(* Indirect calls in a loop, to two callees, one of which stays interpreted.         *)
Indirect == [limit |-> FALSE, first |-> TRUE, sends |-> {1}, handler |-> <<8, 10>>, hot |-> {1, 4}, code |->
    <<[op |-> "icall", to |-> <<4, 4, 6>>], J(6, 1, 1), I("exit"),
      R("inc", 0), I("exit"),
      R("inc", 0), I("exit"),
      R("inc", 6), I("exit"), I("exit")>>]

(* Endless recursion through an indirect call.                                       *)
Deep == [limit |-> FALSE, first |-> TRUE, sends |-> {1}, handler |-> <<3, 3>>, hot |-> {1}, code |->
    <<[op |-> "icall", to |-> <<1, 1, 1>>], I("exit"), I("exit")>>]

MCPrograms == <<LoopCall, Spin, Recurse, Jumps, Second, Indirect, Deep>>
=============================================================================
