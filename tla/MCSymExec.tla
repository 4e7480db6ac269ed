------------------------------ MODULE MCSymExec ------------------------------
(***************************************************************************)
(* Small instances of the engine.  An input is the value of one symbolic   *)
(* register; the data a state carries is reduced to the inputs on which    *)
(* the operands of its last compare are equal.                             *)
(***************************************************************************)
EXTENDS SymExecReplay, SymExecFlow

Width == 5
MCInputs == 0 .. Width - 1
MCEntry == 1

(* cmp against 0; test of the low bit; inc moves the constant the register *)
(* is compared with; load reads one byte, and the engine throws; mov       *)
(* leaves the compare alone; branches on equality,                         *)
(* on its complement, and one (js) whose condition the engine does not     *)
(* model and takes for true.                                               *)
MCOps == {"cmp", "test", "inc", "load", "mov", "je", "jne", "js"}
MCData == SUBSET MCInputs
MCInitData == MCInputs

MCExecData(d, o) ==
  CASE o = "cmp" -> {0}
    [] o = "test" -> {v \in MCInputs : v % 2 = 0}
    [] o = "inc" -> {(v + 1) % Width : v \in d}
    [] OTHER -> d

MCThrows(d, o) == o = "load"

MCBranchCond(d, o) ==
  CASE o = "je" -> d
    [] o = "jne" -> MCInputs \ d
    [] OTHER -> MCInputs

(* A linear sweep gives a program without gaps: the addresses of its       *)
(* instructions, the one after the last at the end.                        *)
LaidOut(starts, body) ==
  LET At(a) == CHOOSE k \in DOMAIN body : starts[k] = a
  IN  [a \in {starts[k] : k \in DOMAIN body} |->
         [address |-> a, size |-> starts[At(a) + 1] - a,
          kind |-> body[At(a)][1], target |-> body[At(a)][2],
          op |-> body[At(a)][3]]]
Program(body) == LaidOut(<<1, 2, 3, 4, 5>>, body)

Plain(O) == {<<"op", 0, o>> : o \in O}
Jumps(T) == {<<"jmp", t, "mov">> : t \in T}
Calls(T) == {<<"call", t, "mov">> : t \in T}
Branches(T, O) == {<<"jcc", t, o>> : t \in T, o \in O}
Ret == <<"ret", 0, "mov">>

(* Every program of four instructions over these alternatives: targets     *)
(* forward, backward, to the instruction itself, to the next one and       *)
(* outside the code, calls inside and outside it, loops and recursion.     *)
FourInstructions ==
  {Program(b) :
     b \in {<<a1, a2, a3, a4>> :
        a1 \in Plain({"cmp", "test"}) \cup Calls({0, 3})
                 \cup Branches({4}, {"js"}),
        a2 \in Branches({0, 1, 3, 4}, {"je", "jne"}) \cup Jumps({0}),
        a3 \in Plain({"inc", "test", "load"}) \cup Jumps({1, 9}) \cup Calls({2})
                 \cup {Ret},
        a4 \in Branches({2, 3, 5}, {"jne"}) \cup {Ret}}}
(* Fewer of them, for the runs with temporal properties.                   *)
FewPrograms ==
  {Program(<<a1, a2, a3, a4>>) :
     a1 \in Plain({"cmp"}) \cup Calls({3}),
     a2 \in Branches({0, 4}, {"je", "jne"}),
     a3 \in Plain({"inc", "load"}) \cup Jumps({1}) \cup {Ret},
     a4 \in Branches({3, 5}, {"jne"}) \cup {Ret}}

(* Code that starts before the entry, at address 0; code with a long       *)
(* instruction, into the middle of which branches go; dead code after      *)
(* jumps and returns.                                                      *)
FlowPrograms ==
  {LaidOut(l, <<a1, a2, a3, a4>>) :
     l \in {<<0, 1, 2, 3, 4>>, <<1, 2, 4, 5, 6>>},
     a1 \in Plain({"cmp"}) \cup Calls({4}) \cup Branches({1}, {"js"}),
     a2 \in Branches({0, 3, 4}, {"je"}) \cup Jumps({1, 3, 5})
              \cup Calls({2, 3}),
     a3 \in Plain({"inc"}) \cup Jumps({1, 4}) \cup {Ret},
     a4 \in Branches({2, 5}, {"jne"}) \cup {Ret}}

(* Code that takes each of the five inputs its own way in three branches,  *)
(* so that a run meets the limit on states at a fork.                      *)
FiveWays ==
  LaidOut([k \in 1 .. 12 |-> k],
          <<<<"op", 0, "test">>, <<"jcc", 6, "je">>,
            <<"op", 0, "inc">>, <<"op", 0, "inc">>, <<"jcc", 12, "jne">>,
            <<"op", 0, "inc">>, <<"jcc", 9, "jne">>, Ret,
            <<"op", 0, "inc">>, <<"op", 0, "inc">>, <<"jcc", 12, "jne">>>>)

(* A branch to the next instruction, after which both sides divide again.  *)
NextThenBranch ==
  LaidOut([k \in 1 .. 7 |-> k],
          <<<<"op", 0, "test">>, <<"jcc", 3, "je">>,
            <<"op", 0, "inc">>, <<"op", 0, "inc">>, <<"jcc", 9, "jne">>, Ret>>)

SearchPrograms ==
  FourInstructions \cup FlowPrograms \cup {FiveWays, NextThenBranch}
=============================================================================
