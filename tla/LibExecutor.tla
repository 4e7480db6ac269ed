----------------------------- MODULE LibExecutor -----------------------------
(***************************************************************************)
(* src/SymbolicExecutor.cpp of the library: load a binary, explore it from *)
(* an address, with a client that marks data symbolic from its callbacks.  *)
(*                                                                         *)
(* No address and no value is wider than a register; an instruction has a  *)
(* size, one unit of which is one address.  A z3 query is decided, or,     *)
(* with SolverComplete FALSE, a satisfiable one may end unknown.           *)
(***************************************************************************)
EXTENDS LibStates, LibGraph

CONSTANTS
  Programs,         \* the code sections to load
  Clients,          \* what a client does at which instruction
  Ends,             \* the endAddr of executeFrom; 0 for none
  StateLimits,      \* the maxStates a client sets
  Entry,
  MaxInstructions,  \* of one state, before the next is picked
  SolverComplete

ASSUME MaxInstructionsAssumption == MaxInstructions \in Nat

VARIABLES
  program, client, endAddr, maxStates,
  stage,               \* new, loaded, exploring, done, or crashed
  initialized, running,
  current,             \* currentState: a pointer, or 0
  slice,               \* the inner loop of executeFrom is running
  instructionCount,
  stats,
  result               \* what executeFrom returned

execVars == <<stage, initialized, running, current, slice,
              instructionCount, stats, result>>
given == <<program, client, endAddr, maxStates>>
vars == <<managerVars, given, execVars>>

Init ==
  /\ InitManager
  /\ program \in Programs /\ client \in Clients /\ endAddr \in Ends
  /\ maxStates \in StateLimits
  /\ stage = "new" /\ initialized = FALSE /\ running = FALSE
  /\ current = 0 /\ slice = FALSE /\ instructionCount = 0
  /\ stats = [totalStates |-> 0, exploredPaths |-> 0, totalInstructions |-> 0,
              totalBranches |-> 0, queries |-> 0, sat |-> 0, unsat |-> 0]
  /\ result = "none"

-----------------------------------------------------------------------------
(* Operands.                                                               *)
resolveMemoryAddress(s, o) ==
  IF o.kind = "mem"
  THEN Wrap((IF o.name = "" THEN 0 ELSE get(s.registers, o.name).concreteValue)
              + o.num)
  ELSE 0

getOperandValue(s, o) ==
  CASE o.kind = "reg" -> get(s.registers, o.name)
    [] o.kind = "imm" -> Concrete(o.num)
    [] o.kind = "mem" -> read(s.memory, resolveMemoryAddress(s, o))

setOperandValue(s, o, value) ==
  CASE o.kind = "reg" -> [s EXCEPT !.registers = set(@, o.name, value)]
    [] o.kind = "mem" ->
         [s EXCEPT !.memory = write(@, resolveMemoryAddress(s, o), value)]
    [] OTHER -> s

(* A result that is a term leaves the flags as they were.                  *)
updateFlags(s, r) ==
  IF r.symbolic THEN s
  ELSE [s EXCEPT !.registers =
          set(set(@, "zf", Concrete(Bool(r.concreteValue = 0))),
              "sf", Concrete(Bool(Negative(r.concreteValue))))]

-----------------------------------------------------------------------------
(* Instructions that do not branch.                                        *)
Arithmetic == {"add", "sub", "imul", "and", "or", "xor", "shl", "shr"}
Op == [add |-> "add", sub |-> "sub", imul |-> "mul", and |-> "and",
       or |-> "or", xor |-> "xor", shl |-> "shl", shr |-> "lshr"]

executeArithmetic(s, i) ==
  LET r == Apply(Op[i.mnemonic], getOperandValue(s, i.operands[1]),
                                 getOperandValue(s, i.operands[2]))
      t == setOperandValue(s, i.operands[1], r)
  IN  IF i.mnemonic \in {"add", "sub"} THEN updateFlags(t, r) ELSE t

executeCMP(s, i) ==
  updateFlags(s, Apply("sub", getOperandValue(s, i.operands[1]),
                              getOperandValue(s, i.operands[2])))

executeMOV(s, i) ==
  setOperandValue(s, i.operands[1], getOperandValue(s, i.operands[2]))

executeLEA(s, i) ==
  setOperandValue(s, i.operands[1],
                  Concrete(resolveMemoryAddress(s, i.operands[2])))

(* The memory model and the register file each keep a stack pointer.       *)
executePUSH(s, i) ==
  [s EXCEPT !.stackTop = @ - 1,
            !.memory = write(@, s.stackTop - 1, getOperandValue(s, i.operands[1])),
            !.registers = set(@, "rsp", Apply("sub", get(@, "rsp"), Concrete(1)))]

\* pop leaves the stack pointer of the registers where it was
MutExecutePOP(s, i) ==
  setOperandValue([s EXCEPT !.stackTop = @ + 1], i.operands[1],
                  read(s.memory, s.stackTop))

executePOP(s, i) ==
  LET t == setOperandValue([s EXCEPT !.stackTop = @ + 1], i.operands[1],
                           read(s.memory, s.stackTop))
  IN  [t EXCEPT !.registers =
         set(@, "rsp", Apply("add", get(@, "rsp"), Concrete(1)))]

(* The order of the tests matters: a move with a memory operand is none of *)
(* the cases and skipped; test is a compare, so it subtracts.              *)
Straight(s, i) ==
  CASE isMove(i) /\ ~isMemoryAccess(i) -> executeMOV(s, i)
    [] i.mnemonic = "lea" -> executeLEA(s, i)
    [] i.mnemonic = "push" -> executePUSH(s, i)
    [] i.mnemonic = "pop" -> executePOP(s, i)
    [] i.mnemonic \in Arithmetic -> executeArithmetic(s, i)
    [] isCompare(i) -> executeCMP(s, i)
    [] OTHER -> s

-----------------------------------------------------------------------------
(* Branches.  A target that is no immediate is the next instruction.       *)
Next_(s, i) == s.pc + i.size
Target(s, i) ==
  IF i.operands[1].kind = "imm" THEN i.operands[1].num ELSE Next_(s, i)

Set(s, flag) == {v \in Valuations : get(s.registers, flag).at[v] # 0}
Clear(s, flag) == Valuations \ Set(s, flag)
Differ(s) == {v \in Valuations : get(s.registers, "sf").at[v]
                                   # get(s.registers, "of").at[v]}

(* A branch without a case of its own is always taken.                     *)
Condition(s, m) ==
  CASE m = "je"  -> Set(s, "zf")
    [] m = "jne" -> Clear(s, "zf")
    [] m = "jb"  -> Set(s, "cf")
    [] m = "jae" -> Clear(s, "cf")
    [] m = "ja"  -> Clear(s, "cf") \cap Clear(s, "zf")
    [] m = "jbe" -> Set(s, "cf") \cup Set(s, "zf")
    [] m = "jl"  -> Differ(s)
    [] m = "jge" -> Valuations \ Differ(s)
    [] m = "jle" -> Set(s, "zf") \cup Differ(s)
    [] m = "jg"  -> Clear(s, "zf") \ Differ(s)
    [] OTHER     -> Valuations

checkFeasibility(holds) ==
  IF holds = {} THEN {FALSE} ELSE IF SolverComplete THEN {TRUE} ELSE BOOLEAN

executeCALL(s, i) ==
  LET target == IF i.operands[1].kind = "imm" THEN i.operands[1].num ELSE 0
      frame == [returnAddress |-> Next_(s, i),
                basePointer |-> get(s.registers, "rbp").concreteValue]
  IN  [s EXCEPT !.callStack = Append(@, frame), !.pc = target]

(* The first frame goes back to address 0, where nothing can be executed,  *)
(* so no return finds the call stack empty.                                *)
executeRET(s) ==
  [s EXCEPT !.callStack = Front(@),
            !.pc = Last(s.callStack).returnAddress,
            !.registers = set(@, "rbp", Concrete(Last(s.callStack).basePointer))]

Transfer(s, i) ==
  CASE i.mnemonic = "jmp" -> [s EXCEPT !.pc = Target(s, i)]
    [] isCall(i) -> executeCALL(s, i)
    [] isReturn(i) -> executeRET(s)
    [] OTHER -> [Straight(s, i) EXCEPT !.pc = Next_(s, i)]

Branches(i) == isBranch(i) /\ ~isCall(i) /\ i.mnemonic # "jmp"

-----------------------------------------------------------------------------
(* What the client does from its callback on the instruction at a.         *)
Marked(s, a) ==
  IF \E m \in client.marks : m.at = a
  THEN LET m == CHOOSE m \in client.marks : m.at = a
       IN  [setOperandValue(s, m.to, makeSymbolic(m.name))
              EXCEPT !.symbolicInputs = @ \cup {m.name}]
  ELSE s

(* recordInstruction, then the callbacks.                                  *)
Recorded(s) == Marked([s EXCEPT !.history = @ + 1, !.steps = @ + 1], s.pc)

Decodes(a) == a \in DOMAIN program /\ a # 0

(* loadBinary sets the memory of currentState up before there is one.  The *)
(* null pointer makes the rest undefined: the process ends, or the writes  *)
(* are lost and loading succeeds.                                          *)
loadBinary ==
  /\ stage = "new"
  /\ \E parsed \in BOOLEAN, ends \in BOOLEAN :
       /\ stage' = IF parsed /\ ends THEN "crashed" ELSE "loaded"
       /\ initialized' = (parsed /\ ~ends)
  /\ UNCHANGED <<managerVars, given, running, current,
                 slice, instructionCount, stats, result>>

executeFrom ==
  /\ stage = "loaded"
  /\ IF initialized
     THEN /\ createState(Entry)
          /\ stage' = "exploring" /\ running' = TRUE
          /\ stats' = [stats EXCEPT !.totalStates = 1]
          /\ UNCHANGED result
     ELSE /\ stage' = "done" /\ result' = "ERROR"
          /\ UNCHANGED <<managerVars, running, stats>>
  /\ UNCHANGED <<given, initialized, current, slice,
                 instructionCount>>

AtLoop == stage = "exploring" /\ ~slice

\* the loop ends with the worklist only
MutComplete ==
  /\ AtLoop /\ running /\ worklist = <<>>
  /\ stage' = "done" /\ running' = FALSE /\ result' = "SUCCESS"
  /\ UNCHANGED <<managerVars, given, initialized, current,
                 slice, instructionCount, stats>>

(* Only the normal end clears running.                                     *)
Complete ==
  /\ AtLoop /\ (~running \/ worklist = <<>>)
  /\ stage' = "done" /\ running' = FALSE /\ result' = "SUCCESS"
  /\ UNCHANGED <<managerVars, given, initialized, current,
                 slice, instructionCount, stats>>

GiveUp ==
  /\ AtLoop /\ running /\ worklist # <<>>
  /\ \/ result' = "TIMEOUT"
     \/ getTotalStates >= maxStates /\ result' = "MAX_STATES_REACHED"
  /\ stage' = "done"
  /\ UNCHANGED <<managerVars, given, initialized, running,
                 current, slice, instructionCount, stats>>

\* the counter goes on from the state before
MutPick ==
  /\ AtLoop /\ running /\ worklist # <<>> /\ getTotalStates < maxStates
  /\ getNextState
  /\ current' = Last(worklist) /\ slice' = TRUE
  /\ UNCHANGED <<given, stage, initialized, running, stats,
                 instructionCount, result>>

Pick ==
  /\ AtLoop /\ running /\ worklist # <<>> /\ getTotalStates < maxStates
  /\ getNextState
  /\ current' = Last(worklist) /\ slice' = TRUE /\ instructionCount' = 0
  /\ UNCHANGED <<given, stage, initialized, running, stats,
                 result>>

InSlice == slice /\ running /\ instructionCount < MaxInstructions

(* The state is left as it is when its instructions are used up.           *)
LeaveSlice ==
  /\ slice /\ ~(running /\ instructionCount < MaxInstructions)
  /\ slice' = FALSE
  /\ UNCHANGED <<managerVars, given, stage, initialized,
                 running, current, instructionCount, stats, result>>

AtEnd == endAddr # 0 /\ heap[current].pc = endAddr

ReachEnd ==
  /\ InSlice /\ AtEnd
  /\ removeState(current)
  /\ slice' = FALSE
  /\ stats' = [stats EXCEPT !.exploredPaths = @ + 1]
  /\ UNCHANGED <<given, stage, initialized, running,
                 current, instructionCount, result>>

Fail ==
  /\ InSlice /\ ~AtEnd /\ ~Decodes(heap[current].pc)
  /\ removeState(current)
  /\ slice' = FALSE
  /\ UNCHANGED <<given, stage, initialized, running,
                 current, instructionCount, stats, result>>

\* true when one side is feasible
MutBothWays(t, f) == t \/ f

BothWays(t, f) == t /\ f

\* the copy is taken when the condition has been added
MutForked(s, holds, target, next) ==
  LET taken == addConstraint(s, holds)
  IN  <<[taken EXCEPT !.pc = target],
        [addConstraint(fork(taken), Valuations \ holds) EXCEPT !.pc = next]>>

Forked(s, holds, target, next) ==
  <<[addConstraint(s, holds) EXCEPT !.pc = target],
    [addConstraint(fork(s), Valuations \ holds) EXCEPT !.pc = next]>>

(* The counters after a branch whose sides were asked of the solver.       *)
Tallied(t, f) ==
  [stats EXCEPT !.totalBranches = @ + 1, !.totalInstructions = @ + 1,
                !.queries = @ + 2, !.sat = @ + Bool(t) + Bool(f),
                !.unsat = @ + Bool(~t) + Bool(~f),
                !.totalStates = @ + Bool(BothWays(t, f))]

(* forkState.  The copy is pushed, but not entered in allStates, and takes *)
(* the number of states there for its identity.  A state none of whose     *)
(* sides is found feasible is marked terminated and stays where it is, and *)
(* the loop goes on with it.                                               *)
forkState(s, holds, target, next) ==
  \E t \in checkFeasibility(s.constraints \cap holds),
     f \in checkFeasibility(s.constraints \ holds) :
    /\ stats' = Tallied(t, f)
    /\ IF BothWays(t, f)
       THEN LET both == Forked(s, holds, target, next)
            IN  /\ heap' = Append([heap EXCEPT ![current] = both[1]],
                                  [both[2] EXCEPT !.id = getTotalStates])
                /\ worklist' = Append(worklist, Len(heap) + 1)
       ELSE /\ heap' = [heap EXCEPT ![current] =
                 IF t THEN [addConstraint(s, holds) EXCEPT !.pc = target]
                 ELSE IF f THEN [addConstraint(s, Valuations \ holds)
                                   EXCEPT !.pc = next]
                 ELSE [s EXCEPT !.type = "TERMINATED", !.steps = @ - 1]]
            /\ UNCHANGED worklist
    /\ UNCHANGED <<allStates, stateCounter>>

(* executeInstruction; the client may stop the run from its callback.      *)
executeInstruction ==
  /\ InSlice /\ ~AtEnd /\ Decodes(heap[current].pc)
  /\ LET s == Recorded(heap[current])
         i == program[s.pc]
     IN  /\ running' = (s.pc # client.stopAt)
         /\ IF Branches(i)
            THEN forkState(s, Condition(s, i.mnemonic), Target(s, i), Next_(s, i))
            ELSE /\ heap' = [heap EXCEPT ![current] = Transfer(s, i)]
                 /\ stats' = [stats EXCEPT !.totalInstructions = @ + 1]
                 /\ UNCHANGED <<allStates, worklist, stateCounter>>
  /\ instructionCount' = instructionCount + 1
  /\ UNCHANGED <<given, stage, initialized, current, slice,
                 result>>

Next ==
  \/ loadBinary \/ executeFrom \/ Complete \/ GiveUp \/ Pick \/ LeaveSlice
  \/ ReachEnd \/ Fail \/ executeInstruction

Spec == Init /\ [][Next]_vars

(* executeFrom is one thread that runs on while it can.                    *)
FairSpec == Spec /\ WF_vars(Next)
=============================================================================
