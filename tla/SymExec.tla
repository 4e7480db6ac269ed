------------------------------ MODULE SymExec ------------------------------
(***************************************************************************)
(* The exploration engine of src/main.cpp: SymbolicExecutor::run, the loop *)
(* that owns the worklist, and SymbolicExecutor::stepState, which executes *)
(* one instruction of the state on top of it and forks it at a branch.     *)
(*                                                                         *)
(* One iteration of the loop is one action.  The state popped from the     *)
(* back of the vector worklist_ is pushed back onto it, or reported as a   *)
(* test case, before the next iteration starts, so no other code sees the  *)
(* vector in between.                                                      *)
(*                                                                         *)
(* Operators whose names start with Mut are the mistakes a programmer      *)
(* could make in the definition that follows them.  No specification uses  *)
(* them: they show that the properties tell the code from such mistakes.   *)
(*                                                                         *)
(* Path conditions are modelled by what they mean.  An input is one        *)
(* assignment of the symbolic registers and bytes; a conjunction of Z3     *)
(* terms is the set of the inputs that satisfy it.  Adding a constraint is *)
(* intersection, and a query asks whether the set is empty.  What a        *)
(* register file, the memory and the last compare make of an instruction   *)
(* is the business of the constants ExecData and BranchCond: every choice  *)
(* of them is an engine, and the theorems hold for each.                   *)
(***************************************************************************)
EXTENDS Integers, Sequences

CONSTANTS
  Inputs,           (* assignments of the symbolic inputs                  *)
  Programs,         (* the instruction maps the disassembler may deliver   *)
  Entry,            (* bin_.entry                                          *)
  Ops,              (* mnemonics with their operands                       *)
  Data,             (* contents of regs, mem, last_cmp_l and last_cmp_r    *)
  InitData,         (* what makeInitialState puts there                    *)
  ExecData(_, _),   (* executeNonBranch: data and operation to data        *)
  Throws(_, _),     (* executeNonBranch builds a term Z3 rejects           *)
  BranchCond(_, _), (* branchCondition: inputs on which the branch goes    *)
  MaxDepth,         (* Config::max_depth                                   *)
  MaxSteps,         (* Config::max_steps                                   *)
  MaxStates,        (* Config::max_states                                  *)
  SolverComplete    (* FALSE: Z3 may answer unknown                        *)

(* Instruction::direct_target is 0 when the operand is not an immediate.   *)
NoTarget == 0

(* The first test of stepState the instruction passes: is_ret, the         *)
(* mnemonic "jmp", is_call, is_conditional, or none of them.               *)
Kinds == {"ret", "jmp", "call", "jcc", "op"}

Instruction ==
  [address : Nat, size : Nat, kind : Kinds, target : Nat, op : Ops]

(* An input exists; a program maps addresses to the instructions there;    *)
(* the semantics stays inside Data and Inputs; the limits are unsigned.    *)
ASSUME InputsAssumption == Inputs # {}
ASSUME ProgramsAssumption ==
  /\ Entry \in Nat
  /\ \A p \in Programs : \A a \in DOMAIN p :
       a \in Nat /\ p[a] \in Instruction /\ p[a].address = a
ASSUME DataAssumption ==
  /\ InitData \in Data
  /\ \A d \in Data, o \in Ops :
       /\ ExecData(d, o) \in Data
       /\ Throws(d, o) \in BOOLEAN
       /\ BranchCond(d, o) \subseteq Inputs
ASSUME LimitsAssumption ==
  /\ MaxDepth \in Nat /\ MaxSteps \in Nat /\ MaxStates \in Nat
  /\ SolverComplete \in BOOLEAN

VARIABLES
  insn_map,       (* address -> instruction, fixed for the run             *)
  worklist,       (* states waiting to be stepped; the last one is next    *)
  tests,          (* test cases in the order they were reported            *)
  steps,          (* calls of stepState                                    *)
  stats,          (* the counters of struct Stats                          *)
  next_state_id,  (* next_state_id_                                        *)
  running,        (* the loop has not been left                            *)
  aborted         (* it was left by an exception, which main does not catch *)

vars ==
  <<insn_map, worklist, tests, steps, stats, next_state_id, running, aborted>>

-----------------------------------------------------------------------------
(* The worklist is a stack: back() and pop_back() of a vector.             *)

Top == worklist[Len(worklist)]
Below == SubSeq(worklist, 1, Len(worklist) - 1)
Ins == insn_map[Top.pc]
FallThrough == Ins.address + Ins.size

(* makeInitialState.                                                       *)
InitialState ==
  [id |-> 1, pc |-> Entry, data |-> InitData, pcm |-> Inputs,
   trace |-> << >>, callstack |-> << >>, depth |-> 0]

InitialStats ==
  [states_created |-> 1, paths_terminated |-> 0, instructions |-> 0,
   branches |-> 0, solver_queries |-> 0, solver_sat |-> 0, solver_unsat |-> 0]

(* Top after stepState has found its instruction.                          *)
Visited == [Top EXCEPT !.trace = Append(@, Top.pc)]
Counted == [stats EXCEPT !.instructions = @ + 1]

-----------------------------------------------------------------------------
(* The solver.  check() answers sat only for a satisfiable query; unknown  *)
(* is counted and handled as unsat.                                        *)

\* unknown is taken for sat, even when there is no model
MutVerdicts(cond) ==
  IF SolverComplete THEN {cond # {}} ELSE BOOLEAN

Verdicts(cond) ==
  IF cond = {} THEN {FALSE} ELSE IF SolverComplete THEN {TRUE} ELSE BOOLEAN

(* buildTestCase asks for a model of the path condition; when there is     *)
(* none the test case has no assignments.                                  *)
Models(cond) ==
  {{i} : i \in cond} \cup (IF FALSE \in Verdicts(cond) THEN {{}} ELSE {})

CondTrue == Top.pcm \cap BranchCond(Top.data, Ins.op)
CondFalse == Top.pcm \ BranchCond(Top.data, Ins.op)

(* The counters after the two queries of a branch, n of which were sat.    *)
Queried(n) ==
  [Counted EXCEPT !.branches = @ + 1, !.solver_queries = @ + 2,
                  !.solver_sat = @ + n, !.solver_unsat = @ + (2 - n)]

(* A successor of a branch: one more constraint, one level deeper.         *)
Branched(cond, to) ==
  [Visited EXCEPT !.pcm = cond, !.pc = to, !.depth = @ + 1]

\* the copy keeps the id of the original; it keeps its path condition
MutOtherId == Branched(CondFalse, FallThrough)
MutOtherCond == [Branched(Top.pcm, FallThrough) EXCEPT !.id = next_state_id]

(* cloneState and the assignments to the copy.                             *)
Other == [Branched(CondFalse, FallThrough) EXCEPT !.id = next_state_id]

-----------------------------------------------------------------------------
(* What the loop does with the state it stepped.                           *)

Resume(st, counters) ==
  /\ worklist' = Append(Below, st)
  /\ stats' = counters
  /\ UNCHANGED <<tests, next_state_id>>

(* The field cond is a history variable: the condition the test stands for. *)
Report(st, counters) ==
  /\ \E m \in Models(st.pcm) :
       tests' = Append(tests, [state_id |-> st.id, path |-> st.trace,
                               assignments |-> m, cond |-> st.pcm])
  /\ worklist' = Below
  /\ stats' = [counters EXCEPT !.paths_terminated = @ + 1]
  /\ UNCHANGED next_state_id

\* one step too many
MutMayIterate ==
  worklist # << >> /\ steps <= MaxSteps /\ stats.states_created < MaxStates

(* The condition of the while statement.                                   *)
MayIterate ==
  /\ worklist # << >>
  /\ steps < MaxSteps
  /\ stats.states_created < MaxStates

Iterating == running /\ MayIterate /\ UNCHANGED <<insn_map, running, aborted>>
\* one level too deep
MutTooDeep == Top.depth > MaxDepth + 1
TooDeep == Top.depth > MaxDepth
Stepping == Iterating /\ ~TooDeep /\ steps' = steps + 1
AtInstruction(kind) == Top.pc \in DOMAIN insn_map /\ Ins.kind = kind
Fetching(kind) == Stepping /\ AtInstruction(kind)

-----------------------------------------------------------------------------
(* The iterations of the loop.  The branch of run() that reports a state   *)
(* already terminated when it is popped is not modelled: a state that      *)
(* terminates is reported in the iteration that terminated it, and no      *)
(* statement pushes one.                                                   *)

\* a state is dropped without a test case
MutDrop(counters) ==
  /\ worklist' = Below
  /\ stats' = [counters EXCEPT !.paths_terminated = @ + 1]
  /\ UNCHANGED <<tests, next_state_id>>

MutDepthExceeded == Iterating /\ TooDeep /\ MutDrop(stats) /\ UNCHANGED steps
MutLeaveCode ==
  Stepping /\ Top.pc \notin DOMAIN insn_map /\ MutDrop(stats)

DepthExceeded ==
  /\ Iterating
  /\ TooDeep
  /\ Report(Top, stats)
  /\ UNCHANGED steps

LeaveCode ==
  /\ Stepping
  /\ Top.pc \notin DOMAIN insn_map
  /\ Report(Top, stats)

\* the return address stays on the call stack
MutReturn ==
  /\ Fetching("ret")
  /\ Top.callstack # << >>
  /\ Resume([Visited EXCEPT !.pc = Top.callstack[Len(Top.callstack)]], Counted)

Return ==
  /\ Fetching("ret")
  /\ Top.callstack # << >>
  /\ LET n == Len(Top.callstack) IN
       Resume([Visited EXCEPT !.pc = Top.callstack[n],
                              !.callstack = SubSeq(@, 1, n - 1)], Counted)

ReturnFromEntry ==
  /\ Fetching("ret")
  /\ Top.callstack = << >>
  /\ Report(Visited, Counted)

Jump ==
  /\ Fetching("jmp")
  /\ Ins.target # NoTarget
  /\ Resume([Visited EXCEPT !.pc = Ins.target], Counted)

JumpIndirect ==
  /\ Fetching("jmp")
  /\ Ins.target = NoTarget
  /\ Report(Visited, Counted)

(* A call into decoded code; any other call is stepped over.               *)
InternalCall == Ins.target # NoTarget /\ Ins.target \in DOMAIN insn_map

Call ==
  /\ Fetching("call")
  /\ InternalCall
  /\ Resume([Visited EXCEPT !.pc = Ins.target,
                            !.callstack = Append(@, FallThrough)], Counted)

CallSkipped ==
  /\ Fetching("call")
  /\ ~InternalCall
  /\ Resume([Visited EXCEPT !.pc = FallThrough], Counted)

BranchIndirect ==
  /\ Fetching("jcc")
  /\ Ins.target = NoTarget
  /\ Report(Visited, [Counted EXCEPT !.branches = @ + 1])

Branching == Fetching("jcc") /\ Ins.target # NoTarget
\* the limit is met one state early
MutMayFork == stats.states_created + 1 < MaxStates
MayFork == stats.states_created < MaxStates

\* the copy is pushed last
MutFork ==
  /\ Branching
  /\ TRUE \in Verdicts(CondTrue) /\ TRUE \in Verdicts(CondFalse) /\ MayFork
  /\ worklist' = Below \o <<Branched(CondTrue, Ins.target), Other>>
  /\ next_state_id' = next_state_id + 1
  /\ stats' = [Queried(2) EXCEPT !.states_created = @ + 1]
  /\ UNCHANGED tests

(* Both sides are feasible: the state takes the branch, a copy falls       *)
(* through and waits below it.                                             *)
Fork ==
  /\ Branching
  /\ TRUE \in Verdicts(CondTrue) /\ TRUE \in Verdicts(CondFalse) /\ MayFork
  /\ worklist' = Below \o <<Other, Branched(CondTrue, Ins.target)>>
  /\ next_state_id' = next_state_id + 1
  /\ stats' = [Queried(2) EXCEPT !.states_created = @ + 1]
  /\ UNCHANGED tests

\* no constraint is added when the other side is not feasible
MutTakeTarget ==
  /\ Branching
  /\ TRUE \in Verdicts(CondTrue)
  /\ FALSE \in Verdicts(CondFalse)
  /\ Resume(Branched(Top.pcm, Ins.target), Queried(1))

TakeTarget ==
  /\ Branching
  /\ TRUE \in Verdicts(CondTrue)
  /\ \E can_false \in Verdicts(CondFalse) :
       /\ ~(can_false /\ MayFork)
       /\ Resume(Branched(CondTrue, Ins.target),
                 Queried(IF can_false THEN 2 ELSE 1))

TakeFallThrough ==
  /\ Branching
  /\ FALSE \in Verdicts(CondTrue)
  /\ TRUE \in Verdicts(CondFalse)
  /\ Resume(Branched(CondFalse, FallThrough), Queried(1))

\* the state is forgotten
MutDeadEnd ==
  /\ Branching
  /\ FALSE \in Verdicts(CondTrue)
  /\ FALSE \in Verdicts(CondFalse)
  /\ MutDrop(Queried(0))

(* Neither side is known to be feasible.                                   *)
DeadEnd ==
  /\ Branching
  /\ FALSE \in Verdicts(CondTrue)
  /\ FALSE \in Verdicts(CondFalse)
  /\ Report(Visited, Queried(0))

(* drainEqualities returns no constraint, so the condition stays.          *)
NonBranch ==
  /\ Fetching("op")
  /\ ~Throws(Top.data, Ins.op)
  /\ Resume([Visited EXCEPT !.data = ExecData(@, Ins.op), !.pc = FallThrough],
            Counted)

(* z3::exception goes through run() and main and ends the process: the     *)
(* states and the tests found so far die with it, no file reports them.    *)
Abort ==
  /\ running /\ MayIterate /\ ~TooDeep
  /\ AtInstruction("op")
  /\ Throws(Top.data, Ins.op)
  /\ running' = FALSE
  /\ aborted' = TRUE
  /\ UNCHANGED <<insn_map, worklist, tests, steps, stats, next_state_id>>

\* only an empty worklist ends the loop
MutFinish ==
  /\ running
  /\ worklist = << >>
  /\ running' = FALSE
  /\ UNCHANGED
       <<insn_map, worklist, tests, steps, stats, next_state_id, aborted>>

(* run() returns; states still on the worklist are dropped.                *)
Finish ==
  /\ running
  /\ ~MayIterate
  /\ running' = FALSE
  /\ UNCHANGED
       <<insn_map, worklist, tests, steps, stats, next_state_id, aborted>>

Terminated == ~running /\ UNCHANGED vars

-----------------------------------------------------------------------------
Init ==
  /\ insn_map \in Programs
  /\ worklist = <<InitialState>>
  /\ tests = << >>
  /\ steps = 0
  /\ stats = InitialStats
  /\ next_state_id = 2
  /\ running = TRUE
  /\ aborted = FALSE

Next ==
  \/ DepthExceeded \/ LeaveCode
  \/ Return \/ ReturnFromEntry
  \/ Jump \/ JumpIndirect
  \/ Call \/ CallSkipped
  \/ BranchIndirect \/ Fork \/ TakeTarget \/ TakeFallThrough \/ DeadEnd
  \/ NonBranch \/ Abort
  \/ Finish \/ Terminated

Spec == Init /\ [][Next]_vars

(* The loop runs on one thread that nothing suspends: it takes its steps.  *)
FairSpec == Spec /\ WF_vars(Next)
=============================================================================
