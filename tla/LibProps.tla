------------------------------- MODULE LibProps -------------------------------
(***************************************************************************)
(* What the library's executor keeps true.                                 *)
(***************************************************************************)
EXTENDS LibMachine

Pointers == DOMAIN heap
Waiting == {worklist[k] : k \in DOMAIN worklist}
Running == IF slice THEN {current} ELSE {}
Live == Waiting \cup Running

(* Every state allocated is in one place: waiting once and suspended, the  *)
(* one being run, terminated, or left active.  A state is only left active *)
(* when its path has maxInstructions or more, or when the client stopped   *)
(* the run: no shorter path is ever given up.                              *)
StatesAccounted ==
  /\ IsInjective(worklist)
  /\ Waiting \cap Running = {}
  /\ \A h \in Waiting : heap[h].type = "SUSPENDED"
  /\ \A h \in Running : heap[h].type = "ACTIVE"
  /\ \A h \in Pointers \ Live :
       \/ heap[h].type = "TERMINATED"
       \/ /\ heap[h].type = "ACTIVE"
          /\ heap[h].steps >= MaxInstructions \/ ~running

(* What include/SymbolicExecutor.h and README.md say of maxInstructions:   *)
(* no path has more.  It fails, as the copy of a fork starts to count      *)
(* anew.                                                                   *)
InstructionsPerPath == \A h \in Pointers : heap[h].steps <= MaxInstructions

(* The numbers the library reports fit together: two queries for a branch, *)
(* one satisfiable answer for a branch and one more for each fork, and the *)
(* instructions of the run are those in the histories of its states.       *)
AllHistories(states) ==
  LET Sum[n \in 0 .. Len(states)] ==
        IF n = 0 THEN 0 ELSE Sum[n - 1] + states[n].history
  IN  Sum[Len(states)]

Ledger ==
  /\ stats.queries = 2 * stats.totalBranches
  /\ stats.queries = stats.sat + stats.unsat
  /\ stats.totalStates = Len(heap)
  /\ heap # <<>> /\ SolverComplete =>
       stats.sat = stats.totalBranches + stats.totalStates - 1
  /\ stats.totalInstructions = AllHistories(heap)

(* The stack pointer of the registers stays one slot below that of the     *)
(* memory model, where the next push writes, whatever is pushed, popped,   *)
(* called and forked, in programs that do not write rsp themselves.        *)
StackPointersAgree ==
  \A h \in Pointers :
    get(heap[h].registers, "rsp").concreteValue = Wrap(heap[h].stackTop - 1)

(* What is asked of programs and clients: of the instructions that write   *)
(* their first operand none writes rsp.                                    *)
Spares(o) ==
  o.kind = "reg" =>
    "rsp" # IF o.name \in DOMAIN Alias THEN Alias[o.name] ELSE o.name

SparesStack ==
  /\ \A p \in Programs : \A a \in DOMAIN p :
       p[a].mnemonic \in {"mov", "lea", "pop"} \cup Arithmetic
         => Spares(p[a].operands[1])
  /\ \A c \in Clients : \A m \in c.marks : Spares(m.to)

(* On every valuation that satisfies its constraints, a state is where the *)
(* processor is after as many instructions, with the same registers: in    *)
(* programs without branches the library has no case for, and without      *)
(* moves from and to memory, which it skips.                               *)
Known(i) ==
  /\ isBranch(i) => i.mnemonic \in Conditional \cup {"jmp", "call"}
  /\ isMove(i) /\ isMemoryAccess(i) => i.mnemonic = "lea"

StatesReplay ==
  (\A a \in DOMAIN program : Known(program[a])) =>
    \A h \in Pointers : \A v \in heap[h].constraints :
      LET m == After(v, heap[h].steps)
      IN  /\ heap[h].pc = m.pc
          /\ \A r \in {"rax", "rcx"} : get(heap[h].registers, r).at[v] = m.reg[r]

(* A program and a client the replay can be proved of, whatever the        *)
(* program computes: operands are numbers, the two registers by their wide *)
(* names, or memory; nothing is pushed but return addresses; and a branch  *)
(* reads flags in which the executor and the processor agree, the client's *)
(* marks and zf and sf, as long as only compares, add and sub write them   *)
(* and they do so to numbers.                                              *)
Data == {"rax", "rcx"}
MarksData(c) == \E m \in c.marks : ~(m.to.kind = "reg" /\ m.to.name \in Flags)

Cell(c, o) ==
  /\ o.kind = "mem" /\ o.num \in Int
  /\ o.name = "" \/ (o.name \in Data /\ ~MarksData(c))
Source(c, o) ==
  \/ o.kind = "imm" /\ o.num \in Int
  \/ o.kind = "reg" /\ o.name \in Data
  \/ Cell(c, o)
Destination(c, o) ==
  \/ o.kind = "reg" /\ Wide(o.name) \in Data
  \/ Cell(c, o)

Writers == {"cmp"} \cup Arithmetic
Written(p) == {p[a].mnemonic : a \in DOMAIN p} \cap Writers
Agreed(p, c) ==
  CASE Written(p) = {} -> Flags
    [] Written(p) \subseteq {"cmp", "add", "sub"} /\ ~MarksData(c) -> {"zf", "sf"}
    [] OTHER -> {}

Reads(j) ==
  CASE j \in {"je", "jne"} -> {"zf"}
    [] j \in {"jb", "jae"} -> {"cf"}
    [] j \in {"ja", "jbe"} -> {"cf", "zf"}
    [] j \in {"jl", "jge"} -> {"sf", "of"}
    [] j \in {"jle", "jg"} -> {"zf", "sf", "of"}

Plain(p, c, i) ==
  LET j == i.mnemonic
      o == i.operands
      branch == o[1].kind = "imm" /\ o[1].num \in Int
  IN  \/ j \in {"nop", "ret"}
      \/ /\ j \in {"mov", "lea"} /\ DOMAIN o = {1, 2}
         /\ o[1].kind = "reg" /\ Destination(c, o[1])
         /\ IF j = "lea" THEN Cell(c, o[2])
            ELSE Source(c, o[2]) /\ o[2].kind # "mem"
      \/ j = "cmp" /\ Source(c, o[1]) /\ Source(c, o[2])
      \/ /\ j \in Arithmetic
         /\ Source(c, o[1]) /\ Destination(c, o[1]) /\ Source(c, o[2])
         /\ (j \in {"shl", "shr"} /\ MarksData(c)) =>
              (o[2].kind = "imm" /\ o[2].num \in 0 .. Bits - 1)
      \/ j \in {"jmp", "call", "callq"} /\ branch
      \/ j \in Conditional /\ branch /\ Reads(j) \subseteq Agreed(p, c)

PlainRun(p, c) ==
  /\ \A a \in DOMAIN p : /\ a \in Int /\ p[a].size \in Int
                         /\ Plain(p, c, p[a])
  /\ \A m \in c.marks :
       /\ m.name \in Names
       /\ (m.to.kind = "reg" /\ m.to.name \in Flags) \/ Destination(c, m.to)

(* The states of a run, waiting or done with, divide the valuations: each  *)
(* has one, no valuation is in two of them and, with a solver that always  *)
(* decides, none is lost.                                                  *)
DividesValuations ==
  /\ \A h \in Pointers : heap[h].constraints # {}
  /\ \A h, k \in Pointers :
       h # k => heap[h].constraints \cap heap[k].constraints = {}
  /\ heap # <<>> /\ SolverComplete =>
       UNION {heap[h].constraints : h \in Pointers} = Valuations

(* From a block to a block, execution follows an edge of the graph the     *)
(* library built from the same code, but for calls, returns and the branch *)
(* that is no jump, which have no such edge, and address 0, which the      *)
(* graph takes for a target that is not known.                             *)
FollowsGraph ==
  [][\A h \in Pointers :
       LET a == heap[h].pc
           b == heap'[h].pc
       IN  a # b /\ {a, b} \subseteq basicBlocks(program) \ {0}
             => \/ b \in successors(program, a)
                \/ isCall(program[a]) \/ isReturn(program[a])
                \/ program[a].mnemonic = "loop"]_heap

(* What is asked of programs: a branch has an operand, and that of a jump  *)
(* is an address, as a jump through a register goes on with what follows.  *)
DirectJumps ==
  \A p \in Programs : \A a \in DOMAIN p :
    isBranch(p[a]) =>
      LET o == p[a].operands
      IN  /\ Len(o) \in Nat \ {0} /\ DOMAIN o = 1 .. Len(o)
          /\ p[a].mnemonic = "jmp" => o[1].kind = "imm"

(* A run comes to its end or the process does, loops in the program, no    *)
(* limit on states that forks could reach, and a client that stops it      *)
(* notwithstanding.                                                        *)
RunEnds == <>(stage \in {"done", "crashed"})
=============================================================================
