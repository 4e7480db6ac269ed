------------------------ MODULE MCEngineOnProcessor ------------------------
(***************************************************************************)
(* Small instances of the engine with its data semantics: words of three   *)
(* bytes of one bit, data in the addresses 0 to 2, the stack in 3 to 5.    *)
(***************************************************************************)
EXTENDS EngineOnProcessor, TLC

MCImage == (1 :> 1) @@ (2 :> 0)
MCSymRegs == {"rax"}
MCInputs == P!Assignments
MCEntry == 1

rax == P!Reg("rax", WordBytes)
rcx == P!Reg("rcx", WordBytes)
At(a) == P!Mem("none", "none", 1, a, WordBytes)
I(mn, o, p) == [mn |-> mn, ops |-> <<o, p>>]
None == I("nop", rax, rax)

DataOps ==
  {I("mov", rcx, rax), I("xor", rax, P!Imm(6)), I("mov", At(0), rcx),
   I("cmp", rax, P!Imm(5)), I("cmp", rcx, rax), I("mov", rcx, At(0))}
Conditions == {I(mn, rax, rax) : mn \in {"je", "jb", "jg"}}
MCOps == DataOps \cup Conditions \cup {None}

MCExecData(d, o) == P!executeNonBranch(d, o)
MCThrows(d, o) == P!Rejected(o)
MCBranchCond(d, o) == P!branchCondition(d, o.mn)
MCInitData == P!InitialData

(* What the operations make of the initial data; TLC evaluates Reached     *)
(* once, but MCData every time.                                            *)
Reached ==
  LET After(S) == S \cup {MCExecData(d, o) : d \in S, o \in DataOps}
      reach[n \in 0 .. 10] ==
        IF n = 0 THEN {MCInitData} ELSE After(reach[n - 1])
  IN  reach[10]
MCData == Reached

(* Compares that moves separate from their branch, a store that is loaded  *)
(* in a function, a loop, a call of the code and one that leaves it.       *)
Body(kind, t, o) == [kind |-> kind, target |-> t, op |-> o]
Plain(O) == {Body("op", 0, o) : o \in O}
Branches(T, M) == {Body("jcc", t, I(mn, rax, rax)) : t \in T, mn \in M}
Calls(T) == {Body("call", t, None) : t \in T}
Ret == Body("ret", 0, None)

Program(body) ==
  [a \in DOMAIN body |->
     [address |-> a, size |-> 1, kind |-> body[a].kind,
      target |-> body[a].target, op |-> body[a].op]]

(* Nothing between a compare and its branch changes the flags: a processor *)
(* branches on the flags, the engine on the operands of the last compare.  *)
MCPrograms ==
  {Program(<<a1, a2, a3, a4, a5>>) :
     a1 \in Plain({I("xor", rax, P!Imm(6))}) \cup Calls({4}),
     a2 \in Plain({I("cmp", rax, P!Imm(5)), I("cmp", rcx, rax)}),
     a3 \in Branches({1, 5}, {"je", "jb", "jg"}),
     a4 \in Plain({I("mov", At(0), rcx)}) \cup Calls({9}),
     a5 \in Plain({I("mov", rcx, At(0))}) \cup {Ret}}
  \cup
  {Program(<<a1, a2, a3, a4, Ret>>) :
     a1 \in Plain({I("cmp", rax, P!Imm(5))}),
     a2 \in Plain({I("mov", rcx, rax), I("mov", At(0), rcx)}) \cup Calls({4}),
     a3 \in Branches({1, 4}, {"je", "jb", "jg"}),
     a4 \in Plain({I("mov", rcx, At(0)), I("cmp", rcx, rax)})}
=============================================================================
