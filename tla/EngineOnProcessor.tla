------------------------- MODULE EngineOnProcessor -------------------------
(***************************************************************************)
(* The engine with the data semantics of main.cpp, next to a processor     *)
(* that runs the same program.  An input is a value for each symbolic      *)
(* register and byte, an operation is an instruction with its operands.    *)
(***************************************************************************)
EXTENDS SymExecProps, FiniteSets

CONSTANTS ByteBits, WordBytes, SymRegs, SymMem, Image, StackTop

P == INSTANCE Processor

(* The processor at the entry of the program.                              *)
PoweredOn(i) ==
  [machine |-> P!PowerOn(i), pc |-> Entry, path |-> << >>, open |-> 0]

(* One instruction of the program.  Calls and returns go through the       *)
(* stack; a return from the entry function leaves the code, for address 0. *)
(* A function outside of the code returns at once and changes nothing.     *)
Clocked(s) ==
  LET ins == insn_map[s.pc]
      next == ins.address + ins.size
      d == [s EXCEPT !.path = Append(@, s.pc)]
      Do(mn, o) == P!Perform(s.machine, [mn |-> mn, ops |-> <<o, o>>])
  IN  CASE ins.kind = "op" ->
             [d EXCEPT !.machine = P!Perform(@, ins.op), !.pc = next]
        [] ins.kind = "jmp" -> [d EXCEPT !.pc = ins.target]
        [] ins.kind = "jcc" ->
             [d EXCEPT !.pc =
                IF P!Taken(s.machine, ins.op.mn) THEN ins.target ELSE next]
        [] ins.kind = "call" ->
             IF ins.target \in DOMAIN insn_map
             THEN [d EXCEPT !.machine = Do("push", P!Imm(next)),
                            !.pc = ins.target, !.open = @ + 1]
             ELSE [d EXCEPT !.pc = next]
        [] ins.kind = "ret" ->
             LET rsp == s.machine.regs["rsp"]
             IN  IF s.open = 0 THEN [d EXCEPT !.pc = 0]
                 ELSE [d EXCEPT !.machine.regs["rsp"] = P!Wrap(rsp + WordBytes),
                                !.pc = P!Load(s.machine, rsp, WordBytes),
                                !.open = @ - 1]

(* The processor after n instructions on input i.                          *)
ProcessorOn(i) ==
  LET run[n \in 0 .. MaxSteps] ==
        IF n = 0 THEN PoweredOn(i)
        ELSE LET s == run[n - 1]
             IN  IF s.pc \in DOMAIN insn_map THEN Clocked(s) ELSE s
  IN  run

(* The engine keeps return addresses apart from the stack, so while a call *)
(* is open the stack and its pointer differ.                               *)
OffStack == DOMAIN P!CapNames \ {"rsp"}

(* A waiting state is where the processor is after as many instructions,   *)
(* on every input of its path condition: same path, next instruction,      *)
(* registers, and bytes the path wrote or the file has.                    *)
PendingOnProcessor ==
  \A k \in Pending : \A i \in worklist[k].pcm :
    LET st == worklist[k]
        s == ProcessorOn(i)[Len(st.trace)]
    IN  /\ s.path = st.trace /\ s.pc = st.pc
        /\ \A r \in OffStack :
             P!Word(st.data.regs[r])[i] = s.machine.regs[r]
        /\ \A a \in DOMAIN st.data.mem :
             P!ByteAt(st.data.mem, a).val[i] = s.machine.mem[a]

(* A processor that is given the assignment of a test case takes the path  *)
(* the test case reports, and leaves the code after it unless the path was *)
(* cut off at the limit on depth.                                          *)
TestsOnProcessor ==
  \A k \in Reported : \A i \in tests[k].assignments :
    LET s == ProcessorOn(i)[Len(tests[k].path)]
        branches == {n \in DOMAIN s.path : insn_map[s.path[n]].kind = "jcc"}
    IN  /\ s.path = tests[k].path
        /\ s.pc \in DOMAIN insn_map => Cardinality(branches) = MaxDepth + 1
=============================================================================
