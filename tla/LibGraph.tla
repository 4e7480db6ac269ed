------------------------------ MODULE LibGraph ------------------------------
(***************************************************************************)
(* src/Disassembler.cpp and src/CFGBuilder.cpp of the library: how an      *)
(* instruction is classified and the graph built from one linear sweep.    *)
(*                                                                         *)
(* program maps every offset of the code section to what decodes there.    *)
(* The sections are loaded at baseAddr, which is 0 in every parsed file,   *)
(* so offsets are addresses.  A mnemonic is a member of a small set; an    *)
(* operand is a record with the kind, the register and the number of it.   *)
(***************************************************************************)
EXTENDS Integers, Sequences, SequencesExt

Imm(n) == [kind |-> "imm", name |-> "", num |-> n]
Reg(r) == [kind |-> "reg", name |-> r, num |-> 0]
Mem(r, d) == [kind |-> "mem", name |-> r, num |-> d]

Conditional == {"je", "jne", "jb", "jae", "ja", "jbe", "jl", "jge", "jle", "jg"}

(* js and loop are branches, callq is none; call is one and a call too.    *)
isBranch(i) == i.mnemonic \in Conditional \cup {"jmp", "js", "loop", "call"}
isCall(i) == i.mnemonic \in {"call", "callq"}
isReturn(i) == i.mnemonic = "ret"
isCompare(i) == i.mnemonic \in {"cmp", "test"}
isMove(i) == i.mnemonic \in {"mov", "lea"}
isMemoryAccess(i) == \E k \in DOMAIN i.operands : i.operands[k].kind = "mem"

(* getBranchTarget and resolveBranchTarget: the first immediate, or 0.     *)
resolveBranchTarget(i) ==
  LET imms == {k \in DOMAIN i.operands : i.operands[k].kind = "imm"}
  IN  IF imms = {} THEN 0
      ELSE i.operands[CHOOSE k \in imms : \A j \in imms : k <= j].num

(* disassembleRegion: the addresses a sweep from the base decodes at.      *)
Sweep(program) ==
  LET On[a \in DOMAIN program] ==
        a = 0 \/ \E b \in 0 .. a - 1 : On[b] /\ b + program[b].size = a
  IN  {a \in DOMAIN program : On[a]}

(* findLeaders makes a leader of what follows any instruction, so a block  *)
(* is one instruction.                                                     *)
findLeaders(program) ==
  {0} \cup {a + program[a].size : a \in Sweep(program)}
      \cup {resolveBranchTarget(program[a]) :
              a \in {b \in Sweep(program) :
                       isBranch(program[b]) \/ isCall(program[b])}}
basicBlocks(program) == findLeaders(program) \cap Sweep(program)

\* a conditional branch has its target for only successor
MutSuccessors(program, a) ==
  LET i == program[a]
      target == {resolveBranchTarget(i)} \ {0}
      next == {a + i.size}
  IN  basicBlocks(program) \cap
        (CASE isReturn(i) -> {}
           [] isBranch(i) -> IF i.mnemonic \in {"loop", "call"} THEN {} ELSE target
           [] OTHER -> next)

(* buildEdges.  loop and call are branches that are no jump, and end in    *)
(* nothing; what is said there of calls is reached by callq alone.         *)
successors(program, a) ==
  LET i == program[a]
      target == {resolveBranchTarget(i)} \ {0}
      next == {a + i.size}
  IN  basicBlocks(program) \cap
        (CASE isReturn(i) -> {}
           [] isBranch(i) ->
                (CASE i.mnemonic = "jmp" -> target
                   [] i.mnemonic \in {"loop", "call"} -> {}
                   [] OTHER -> target \cup next)
           [] OTHER -> next)
=============================================================================
