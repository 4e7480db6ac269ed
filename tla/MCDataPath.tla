----------------------------- MODULE MCDataPath -----------------------------
(***************************************************************************)
(* Small instances: bytes of one bit and words of four, so that operands   *)
(* have the sizes 1, 2 and 4, and there are sixteen addresses.             *)
(***************************************************************************)
EXTENDS DataPath, TLC

MCImage == (5 :> 1) @@ (6 :> 0)
SymWordAndByte == {"rax"}
SymHalfName == {"eax"}

R(r) == Reg(r, WordBytes)
H(r) == Reg(r, Half)
At(a, size) == Mem(NoReg, NoReg, 1, a, size)
I(mn, o, p) == [mn |-> mn, ops |-> <<o, p>>]
J(mn, o) == [mn |-> mn, ops |-> <<o, o>>]

(* Instructions that are exact, the ones through rdx as long as it holds a *)
(* number.                                                                 *)
Fragment ==
  {I("mov", R("rcx"), R("rax")), I("mov", R("rax"), Imm(9)),
   I("add", R("rax"), R("rcx")), I("sub", R("rcx"), R("rax")),
   I("xor", R("rax"), Imm(6)), I("and", R("rcx"), Imm(12)),
   I("or", R("rcx"), R("rax")),
   I("cmp", R("rax"), R("rcx")), I("cmp", R("rcx"), Imm(5)),
   I("mov", At(4, WordBytes), R("rax")), I("mov", R("rcx"), At(5, WordBytes)),
   I("mov", H("eax"), At(6, Half)), I("mov", At(7, Half), H("ecx")),
   I("add", At(14, WordBytes), R("rcx")),
   I("lea", R("rdx"), Mem("rdx", "rdx", 2, 3, WordBytes)),
   I("mov", Mem("rdx", NoReg, 1, 2, 1), R("rax"))}

(* Everything executeNonBranch has a case for, on words, halves and single *)
(* bytes, with addresses through registers that are not concrete.          *)
Everything ==
  Fragment \cup
  {I("mov", H("ecx"), H("eax")), I("movsxd", R("rcx"), At(5, Half)),
   I("mov", Mem("rcx", NoReg, 1, 1, Half), H("eax")),
   I("movzx", H("ecx"), At(5, 1)), I("cmp", H("eax"), Imm(3)),
   I("test", R("rax"), R("rax")),
   J("push", R("rax")), J("push", Imm(3)), J("pop", R("rcx")),
   I("mov", R("rbp"), R("rsp")), I("sub", R("rsp"), Imm(8)),
   I("lea", R("rcx"), Mem("rsp", NoReg, 1, 4, WordBytes))}
ASSUME \A ins \in Everything : StackByNumbers(ins)
=============================================================================
