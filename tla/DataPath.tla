------------------------------ MODULE DataPath ------------------------------
(***************************************************************************)
(* A path without branches: executeNonBranch applied to one instruction    *)
(* after another, and next to it a processor for each assignment of the    *)
(* symbolic inputs that performs the same instructions.                    *)
(***************************************************************************)
EXTENDS Processor

CONSTANTS
  Instructions,   (* the instructions a path is made of                    *)
  MaxLength       (* bound on the length of a path                         *)

(* Immediates are unsigned words, displacements and scales integers.       *)
ASSUME InstructionsAssumption ==
  \A ins \in Instructions : \A o \in {ins.ops[1], ins.ops[2]} :
    /\ o.kind \in {"reg", "imm", "mem"} /\ o.size \in 1 .. WordBytes
    /\ o.kind = "imm" => o.imm \in Words
    /\ o.kind = "mem" => o.disp \in Int /\ o.scale \in Int

VARIABLES
  data,      (* regs, mem, last_cmp_l and last_cmp_r of the state          *)
  machines,  (* assignment -> the processor that was given it              *)
  compared,  (* the flags are those of a comparison of two words           *)
  exact,     (* the engine claims to be right about the path so far        *)
  length,    (* instructions executed                                      *)
  thrown     (* Z3 has thrown                                              *)

vars == <<data, machines, compared, exact, length, thrown>>

Init ==
  /\ data = InitialData
  /\ machines = [i \in Assignments |-> PowerOn(i)]
  /\ compared = FALSE
  /\ exact = TRUE
  /\ length = 0
  /\ thrown = FALSE

ComparedAfter(ins) ==
  CASE ins.mn = "cmp" -> ins.ops[1].size = WordBytes
    [] ins.mn \in {"test", "add", "sub", "xor", "and", "or"} -> FALSE
    [] OTHER -> compared

(* Where the engine claims to do what a processor does: on whole registers *)
(* it has a name for, immediates, and memory at an address made of numbers;*)
(* loads that fill a register or its lower half with zeros in front, and   *)
(* stores of any size.                                                     *)
Named(r) == capRegName(r) # ""
Numbered(d, o) ==
  \A r \in {o.base, o.index} \ {NoReg} : Named(r) /\ getReg(d, r).is_concrete
Whole(d, o) ==
  CASE o.kind = "imm" -> TRUE
    [] o.kind = "reg" -> Named(o.reg) /\ o.size = WordBytes
    [] o.kind = "mem" -> Numbered(d, o) /\ o.size = WordBytes

Loads(d, o, p) ==
  /\ o.kind = "reg" /\ Named(o.reg) /\ o.size \in {Half, WordBytes}
  /\ p.kind = "mem" /\ Numbered(d, p) /\ p.size <= o.size
Stores(d, o, p) ==
  /\ o.kind = "mem" /\ Numbered(d, o)
  /\ p.kind = "imm" \/ (p.kind = "reg" /\ Named(p.reg))
  /\ o.size <= p.size

Exact(d, ins) ==
  LET o == ins.ops[1]
      p == ins.ops[2]
      BothWhole == Whole(d, o) /\ Whole(d, p)
      Writable == o.kind \in {"reg", "mem"}
  IN  CASE ins.mn \in {"mov", "movzx"} ->
             Writable /\ (BothWhole \/ Loads(d, o, p) \/ Stores(d, o, p))
        [] ins.mn \in {"add", "sub", "xor", "and", "or"} -> Writable /\ BothWhole
        [] ins.mn = "lea" ->
             o.kind = "reg" /\ Whole(d, o) /\ p.kind = "mem" /\ Numbered(d, p)
        [] ins.mn = "cmp" -> BothWhole
        [] OTHER -> ins.mn = "test"

Execute(ins) ==
  /\ ~thrown /\ length < MaxLength
  /\ ~Rejected(ins)
  /\ data' = executeNonBranch(data, ins)
  /\ machines' = [i \in Assignments |-> Perform(machines[i], ins)]
  /\ compared' = ComparedAfter(ins)
  /\ exact' = (exact /\ Exact(data, ins))
  /\ length' = length + 1
  /\ UNCHANGED thrown

Throw(ins) ==
  /\ ~thrown /\ length < MaxLength
  /\ Rejected(ins)
  /\ thrown' = TRUE
  /\ UNCHANGED <<data, machines, compared, exact, length>>

Next == \E ins \in Instructions : Execute(ins) \/ Throw(ins)

Spec == Init /\ [][Next]_vars

-----------------------------------------------------------------------------
IsTerm(e, widths) ==
  /\ e.bits \in widths
  /\ DOMAIN e.val = Assignments
  /\ \A i \in Assignments : e.val[i] \in 0 .. 2^e.bits - 1

(* A register holds what a read of some operand may return, a cell of the  *)
(* memory one byte; both operands of the last compare are there or none.   *)
WellFormed ==
  /\ \A r \in RegKeys :
       IsTerm(data.regs[r].expr, {s * ByteBits : s \in 1 .. WordBytes})
  /\ \A a \in DOMAIN data.mem :
       a \in Words /\ IsTerm(data.mem[a].expr, {ByteBits})
  /\ Len(data.cmp_l) = Len(data.cmp_r)

Values ==
  {data.regs[r] : r \in RegKeys} \cup {data.mem[a] : a \in DOMAIN data.mem}

(* A value that counts as concrete has that value on every input; so an    *)
(* address computed from concrete registers is the same on every input.    *)
ConcreteIsConstant ==
  \A v \in Values :
    v.is_concrete => \A i \in Assignments : v.expr.val[i] = v.concrete

(* On an exact path the registers hold, on every input, what the processor *)
(* given that input has in them.                                           *)
FragmentRegistersAgree ==
  exact =>
    \A r \in DOMAIN CapNames, i \in Assignments :
      Word(data.regs[r])[i] = machines[i].regs[r]

(* On an exact path so does every byte of the memory.                      *)
FragmentMemoryAgrees ==
  exact =>
    \A a \in Words, i \in Assignments :
      ByteAt(data.mem, a).val[i] = machines[i].mem[a]

(* After a comparison on an exact path a branch is taken on just the       *)
(* inputs on which the processor's flags say so, moves in between or not.  *)
FragmentBranchesAgree ==
  exact /\ compared =>
    \A mn \in {"je", "jne", "jb", "ja", "jbe", "jae",
               "jl", "jle", "jg", "jge"} :
      branchCondition(data, mn) = {i \in Assignments : Taken(machines[i], mn)}

(* What compilers do to the stack pointer: beside pushes and pops, it is   *)
(* the result only of an operation on it and a number.                     *)
Elsewhere(o) ==
  o.kind = "mem" \/ (o.kind = "reg" /\ Named(o.reg) /\ Family(o.reg) # "rsp")
StackByNumbers(ins) ==
  LET o == ins.ops[1]
  IN  \/ ins.mn \in {"cmp", "test", "push"}
      \/ /\ ins.mn \in {"mov", "movzx", "movsxd", "lea", "pop",
                        "add", "sub", "xor", "and", "or"}
         /\ Elsewhere(o)
      \/ /\ ins.mn \in {"add", "sub", "xor", "and", "or"}
         /\ o.kind = "reg" /\ o.reg = "rsp" /\ o.size = WordBytes
         /\ ins.ops[2].kind = "imm"

(* Whatever the path does, pushes and pops that store nothing included,    *)
(* the stack pointer has the value it has on the processor.                *)
StackPointerAgrees ==
  \A i \in Assignments : Word(data.regs["rsp"])[i] = machines[i].regs["rsp"]

(* An address has a number in it for each register it is made of, and the  *)
(* stack pointer loses its number with the first push: nothing is stored   *)
(* by a push, and the memory changes only by a memory operand.             *)
OnlyMemoryOperandsStore ==
  [][\A ins \in Instructions :
       Execute(ins) /\ (ins.ops[1].kind # "mem" \/ ins.mn = "push")
         => data'.mem = data.mem]_vars

-----------------------------------------------------------------------------
(* The usage text of main.cpp says that --sym-reg marks a register as      *)
(* symbolic.  Then a read of the register returns its symbol.              *)
SymbolicRegistersRead ==
  length = 0 =>
    \A r \in SymRegs :
      capRegName(r) # "" =>
        getReg(data, r).expr.val = [i \in Assignments |-> i.reg[r]]
=============================================================================
