# A verification project for the symbolic execution engine

This directory holds TLA+ models of the program built from this repository, the
TLC configurations that check them on small instances, and proofs checked by
TLAPS for every instance. The reference is the code. `CMakeLists.txt` builds one
source file, `src/main.cpp`; the classes declared in `include/` and implemented
in the other files of `src/` are a library the README documents and nothing
compiles. Both are modelled: the program in full, the library in the parts its
documented use goes through.

Paths below are relative to the repository.

## 1. The system

### The program, `src/main.cpp`

The program is one thread. `main` reads the command line, loads an ELF file,
decodes its code bytes with Capstone, draws a control flow graph, runs the
engine and writes three files. What is hard in it is not concurrency but a
worklist of states that must neither lose nor repeat a path, limits that stop
the work in the middle, a solver that may not know the answer, and data carried
along a path (call stack, last compare, aliases of registers) that goes stale.

| Component | State | Operations | What is hard | What makes it correct |
|---|---|---|---|---|
| Engine: `SymbolicExecutor` (773-1276) | worklist, statistics, next id, the list of tests | `run`, `stepState`, `feasible`, `cloneState`, `buildTestCase` | forks, three limits, unknown answers, order of pushes | paths divide the inputs, none is lost, tests replay, the loop ends |
| Data: `AbstractValue`, `MemoryModel`, `executeNonBranch`, `branchCondition` (565-716, 1027-1254) | registers, bytes of memory, operands of the last compare | reads, writes, one case per mnemonic | values that stop being concrete, aliases, stale compares, widths | agrees with the processor where it claims to |
| Control flow graph: `CFGBuilder` (424-563) | none, a function of the instruction list | leaders, blocks, edges | boundary addresses, 0 as "none" | blocks partition the code, explored paths follow edges |
| Decoder: `Disassembler` (306-422) | Capstone handle | `init`, `disassemble` | classification of instructions | Capstone's business but for the classification |
| Loader: `ElfLoader` (126-304) | none, a function of the file | `parse64`, `parse32` | sums that wrap, skipped headers | the code bytes are those of the text |
| Pipeline: `main`, `parseCli`, `writeFile` (1278-1470) | exit code, files written | the stages | a stage that fails after another wrote a file | exit codes and files agree |

The components interact by calls and shared data only. `main` hands the loader's
segments and the decoder's instruction map to the engine; the engine calls Z3
through `feasible` and `buildTestCase`; the graph is built from the same
instruction list and never consulted by the engine.

### The library, `include/` and the rest of `src/`

A client loads a binary into the executor, runs it, and gives the states it gets
back to the test case generator and the cases to the runner. From callbacks the
client may mark registers and memory symbolic, and stop the run.

| Component | State | Operations | What is hard | What makes it correct |
|---|---|---|---|---|
| `StateManager`, `ExecutionState` | all states, worklist, counter | create, fork, add, next, remove | copies are on the worklist and nowhere else | a state is in one place; waiting states are suspended |
| `SymbolicExecutor` (library) | current state, statistics, `running` | `loadBinary`, `executeFrom`, `forkState`, handlers | two nested loops, three ways to leave them, two stack pointers, stale flags | states divide the valuations and are where a processor is |
| `Constraint`, `PathConstraintManager` | constraints, a stack of contexts, the client's solver | add, push, pop, clear, check, model, negate | what a failed call leaves on the solver | contexts nest, negation divides, answers are about the constraints |
| `SymbolicValue`, `RegisterFile`, `MemoryModel` | values by name and address | operations, get, set, read, write, push, pop | folded and symbolic results, aliases | agrees with a processor on every valuation |
| `CFGBuilder`, `Disassembler` | blocks, edges | sweep, classify, leaders, blocks, edges | branches that are no jumps, address 0 | execution follows edges |
| `TestCaseGenerator`, `TestRunner` | cases, counters, `crashInfo` | generate, minimise, run | a solver per input, state kept from test to test | a case leads where its state is; outcomes are counted and named |
| `ELFParser` | what was read | header, program headers, segments | field widths | loads what the tool loads |

The files of the library do not compile as they are: some calls have no such
overload (`z3::int_val(1)`, `z3::bool_val(true)`), `Constraint` has a member
without a default, and two `const` functions assign. The models take the code for
what it says where that is plain, and say so in their comments.

Everything under `external/` is third-party.

## 2. What is modelled

### `SymExec`: the engine

One iteration of the loop in `run` is one action, because the state popped from
the worklist is pushed back or reported before the next one starts.

| Model | Code |
|---|---|
| `worklist` | `worklist_`; its last element is `back()` |
| `tests` | the vector `run` returns, in order |
| `steps` | the local variable `steps` |
| `stats`, `next_state_id` | `stats_`, `next_state_id_` |
| `running` | the loop has not been left |
| `insn_map` | `insn_map_`, chosen once from `Programs` |
| `DepthExceeded` | the branch of `run` for `depth > max_depth` |
| `LeaveCode`, `Return`, `ReturnFromEntry`, `Jump`, `JumpIndirect`, `Call`, `CallSkipped`, `BranchIndirect`, `Fork`, `TakeTarget`, `TakeFallThrough`, `DeadEnd`, `NonBranch` | the ways through `stepState`, each with what `run` does after it |
| `Abort` | Z3 throws in `executeNonBranch` (line 670, a read of one byte); neither `run` nor `main` catches it |
| `Finish` | the `while` condition is false; `run` returns |

Two abstractions carry the model.

* *A path condition is the set of inputs that satisfy it.* An input is one
  assignment of the symbolic registers and bytes. Adding a constraint
  intersects; a query asks whether the set is empty. `Verdicts` is what `check`
  may answer: never sat for an empty set, and, unless `SolverComplete`, unknown
  for a nonempty one, which `feasible` counts as unsat. `Models` is what
  `buildTestCase` may obtain.
* *What an instruction does to data is a parameter.* `ExecData` stands for
  `executeNonBranch`, `Throws` for its failure and `BranchCond` for
  `branchCondition`. The theorems hold for every choice; TLC uses a small one, in
  `MCSymExec`, that has compares that move, compares that go stale and a branch
  the code takes for always true, and in `MCEngineOnProcessor` the real one.

A field `cond` of a test case is a history variable: the path condition the test
stands for. The branch of `run` for a popped state that is already terminated
has no action: no statement pushes a terminated state.

### `SymExecProps`, `SymExecReplay`

`SymExecProps` states the properties. `SymExecReplay` adds a reference machine
that runs the program on a single input without worklist, solver or limits, and
compares the engine with it.

### `PathPartition`: what the engine promises

Classes of inputs are open, while their path is explored, or closed, once it is
reported. A class is split in two, or closed, or, if the solver may give up,
narrowed. The engine implements it under the mapping open = path conditions on
the worklist, closed = path conditions of the tests (`PartitionsInputs`).

### `DataSemantics`, `Processor`, `DataPath`: what instructions do to data

`DataSemantics` has an operator for each function between `AbstractValue` (565)
and `branchCondition` (1232), under the same name where there is one. A Z3 term
is its value on every input, its width, and whether it is a numeral. That flag
matters: Z3 does not fold constants while it builds a term, and
`AbstractValue::fromExpr` takes for concrete what is a numeral, so the sum of two
concrete values is not concrete. Names of registers are kept, with their aliases
and the empty name that the registers `capRegName` does not know share. Widths
are constants: a byte has `ByteBits` bits, a word `WordBytes` bytes, and the
operand sizes 1, 4 and 8 become 1, half a word and a word.

Left out: the list of mapped regions, which `MemoryModel` keeps and nothing asks;
the value of `rip`, which nothing reads.

`Processor` is a reference, written from what the instructions do and not from
the code: numbers, flags, partial registers, sign extension. `DataPath` runs the
two side by side along a path without branches.

The two do not agree everywhere, and the model shows where the code departs: a
32-bit destination is neither truncated nor extended; an address through a
register that is not concrete is computed as if the register held 0; `test`
stores a conjunction where a branch expects a 0; arithmetic does not set what
branches read; narrow compares compare whole registers; pushes never store. So
agreement is claimed of a fragment: `Exact` in `DataPath` says of an instruction,
in a state, that the code has it right, and the variable `exact` that all of a
path so far were. Other properties are of everything.

### `EngineOnProcessor`

The engine with the data semantics put in for its parameters, compared with a
processor that has flags and a stack: the end-to-end claim. A test case, run,
takes the path it reports.

### `FlowGraph`, `SymExecFlow`: the control flow graph

`FlowGraph` computes leaders, blocks and edges from the decoded instructions, as
`CFGBuilder::build` does. Vectors of successors become a set, so an edge added
twice counts once. `SymExecFlow` compares the graph with the paths explored.

### `ElfFile`, `Loader`, `LibParser`: from the command line to the reports

`Loader` is `main`: `parseCli`, `ElfLoader::load` with `parse64` and `parse32`,
and the stages after it, each of which may end the run with its code. The graph
and the search are the modules above; here a stage succeeds or does not.

A file is a few units: the identification, the rest of the header, and a unit for
each entry of a table or piece of code. That keeps what matters, which sums are
compared with the size of the file and how they wrap (`Word32`, `Word64`, small
here). A read outside the file is undefined behaviour; the stage `undefined` is
its only outcome, as nothing holds after it. The name of a section is a
`std::string` made from a pointer into the file (`main.cpp:217-218`): it starts
inside the table of names, and ends at the first NUL, wherever that is. `text` of a
unit is what it reads as, `Open` that it holds no NUL, and `Ends` that a NUL comes
before the file is over.

`LibParser` is `ELFParser` as a function of the same file, so the two loaders can
be compared. Both collect the entries they want in a loop that appends; `Picked`
in `ElfFile` is that loop, as a recursive function the provers can unfold.

### `LibValues`, `LibGraph`, `LibStates`, `LibExecutor`: the library's executor

| Model | Code |
|---|---|
| `heap` | every `ExecutionState` allocated; a pointer is an index |
| `allStates`, `worklist`, `stateCounter` | the fields of `StateManager` |
| `current`, `running`, `instructionCount`, `stats` | the fields of `SymbolicExecutor` |
| `slice` | the inner loop of `executeFrom` is running |
| `client` | what callbacks do: marks at an address, and an address to stop at |
| `loadBinary` | the call, with the null pointer it writes through |
| `Complete`, `GiveUp`, `Pick`, `LeaveSlice`, `ReachEnd`, `Fail`, `executeInstruction` | the ways through the two loops |

A term is its value on every valuation of the symbolic constants. A path
condition is the set of valuations that satisfy it. Registers are two bits wide,
or one, and a unit of address holds one value. One call of `executeFrom` per
executor is modelled. `steps` is a history variable: the instructions that took a
state somewhere.

`LibMachine` is a processor written from the instruction set: true flags, one set
of registers, and return addresses on the stack the program pushes to. The client
writes the value of a symbolic constant where it marks one. `LibProps` states the
properties, and what some theorems ask of programs: `SparesStack`, not to write
`rsp` themselves; `DirectJumps`, that a branch has an operand and that of a jump is
an address; and `PlainRun`, of a program and a client, described in section 4.
`MCLib` assumes the first two of all its programs and the third of some, so TLC
checks that they can be met. `LibGraph` is the graph of `CFGBuilder.cpp`, from the
classification of `Disassembler.cpp`.

### `LibTests`: from states to verdicts

A session: the executor runs; its states, either those of `getTerminatedStates`
or those the client met in callbacks, go to `generateFromStates`; the cases may
be minimised; the runner takes them one by one. The program under test may exit
with any code or be killed, by the alarm too; a fork may fail. `Junk` is what the
counters of `TestResults`, which nothing initialises, may hold at first. Its
counter of timeouts nothing changes, and it is left out.

An input may be wider than 8 bytes (`WideInputs`); the executor has no operand of
that size, so such an input is in memory nothing reads. Its bytes from the ninth on
come of a shift by 64 or more, which is undefined and gives 0 or begins anew
(`Values`); and its value may not fit `get_numeral_uint64`, which throws, and with
the exception go the cases made so far (`generateThrows`).

### `ConstraintScopes`, `LibConstraints`: path constraints

`ConstraintScopes` is what code that explores branches relies on: a set of points
still possible that only shrinks, and contexts that give it back. `LibConstraints`
is `Constraint` and `PathConstraintManager`, with the solver the client passes in
and what a failed `get_model` leaves asserted there. `getModel` asks for a model
whatever `check` answered, and the model of the code does the same: after a "sat"
the variable `model` satisfies what is asserted; after an "unknown", as
`z3_api.h:7217-7219` says, there may be any model or none; without one the call
throws.

### Mistakes, as definitions

Operators whose names start with `Mut` are the definitions that follow them with
a plausible mistake. No specification uses them. For every property there is one
that the property refutes, which shows that it says something about the code.

## 3. What TLC checks

| Run | What is explored | What it shows |
|---|---|---|
| `engine_search` | `SearchPrograms`: families of programs of four instructions, and programs with dead code, code before the entry, branches into a long instruction and a branch to the next one; five inputs, `MaxDepth` 2, `MaxSteps` 14, `MaxStates` 5, a solver that always decides | the safety properties, agreement with the reference machine and with the graph, refinement |
| `engine_giveup` | `FewPrograms`, `MaxSteps` 8, a solver that may answer unknown, fairness | types, sound tests, refinement with narrowing, termination, no starvation |
| `engine_concurrent` | `FewPrograms`, `MaxStates` 3 | a counterexample, see section 5 |
| `engine_processor` | `MCPrograms`: five instructions, words of three bits, a symbolic register and a symbolic byte (16 inputs) | the engine with its real data semantics against the processor |
| `data_all` | paths of three instructions over every case of `executeNonBranch`, words of four bits | widths, the concrete flag, the stack pointer, which instructions store; on exact paths, agreement with the processor |
| `data_symreg` | `--sym-reg eax` | a counterexample, see section 5 |
| `lib_engine` | programs of eleven addresses: every conditional branch, loops, calls, pushes, memory operands, a long instruction; two symbolic constants of two bits; three ways for a client to mark data or stop; with and without an end address; both kinds of limit on states; a solver that always decides; fairness | the executor: states, counters, processor, graph, termination |
| `lib_perpath` | the instances of `lib_engine` | a counterexample, see section 5 |
| `lib_tests` | `FewPrograms` of `MCLibTests`: two branches, a call, four ways to mark flags, two more with an input of more than 8 bytes; constants of one bit; slices of four instructions; a solver that may answer unknown | cases lead where their state is; verdicts follow outcomes |
| `lib_tested` | more of these programs, a solver that always decides | a counterexample, see section 5 |
| `lib_constraints` | nine constraints of every type and their negations over a constant of two bits, two of them at a time, two contexts, one level left on the solver | negation, answers, contexts |
| `load` | all files of five units with three free units, under tables in the file, across its end, beyond it and near the end of a word; tables of names with and without a NUL at their end; refused files; command lines of up to three words | reads stay in the file; the loaders agree |

The properties, from the most telling:

* `PendingStatesReplay`, `TestsReplay`: a state is the program, part of the way,
  on every input of its condition, and the assignment of a test takes the path
  the test reports. They relate forks, call stack, conditions and data.
* `PartitionsInputs`, `PathsDisjoint`, `NoInputLost`, `EveryInputTested`: paths
  divide the inputs. With a complete solver and no limit met, each input is
  represented by a test that has an assignment.
* `TargetSideFirst`, `FrontierBound`: the search is depth first, target side
  first, so the worklist stays within `max_depth + 2`. A branch whose target is the
  instruction after it tells nothing of the side taken, so the first property
  exempts it (`ToNext`); an attempt to prove it without that failed, rightly.
* `SolverLedger`: the second test of the limit in `stepState` (line 969) cannot
  fail, as the `while` condition has just been true; so no side of a branch is
  dropped there. `Accounting`, `IdsUnique`: bookkeeping.
* `Termination`, `EveryStateReported`: under fairness.
* `PendingOnProcessor`, `TestsOnProcessor`: the same claims as the replay
  properties, with a reference that shares nothing with the engine: it reads
  flags, not operands, and keeps return addresses in memory.
* `FragmentRegistersAgree`, `FragmentMemoryAgrees`, `FragmentBranchesAgree`, on
  exact paths; the last only while the flags are those of a compare
  of two words.
* `StackPointerAgrees`: whatever pushes and pops do not store or load, the stack
  pointer stays right. `OnlyMemoryOperandsStore`: a push changes nothing in
  memory, as its new stack pointer is never a numeral. `ConcreteIsConstant`: what
  counts as concrete is the same on every input, so addresses are.
* `PathsFollowGraph`, `BlocksEnteredAtStart`: a path is a walk on the graph but
  for jumps the builder does not see, and enters every block at its start.

Of the library:

* `StatesReplay`: on every valuation that satisfies its constraints, a state,
  waiting, running or done with, is where the processor is. It relates forks,
  call frames, aliases and flags. Stated of programs without the branches the
  library has no case for and without the moves it skips.
* `DividesValuations`: states have disjoint, nonempty sets of valuations, which
  cover all of them if the solver decides. No state is ever infeasible.
* `StatesAccounted`: a state is in one place, and the only states that are left
  over, neither waiting nor terminated, are on paths of at least
  `maxInstructions`, or the client stopped the run: no path is given up too early.
  That a path may be longer than the limit is a finding, in section 5. `Ledger`:
  the counters tell how many forks there were.
* `StackPointersAgree`: the memory model and the register file each keep a stack
  pointer, and they stay together.
* `FollowsGraph`: execution follows the edges of the graph, but for calls,
  returns, the branch that is no jump, and address 0.
* `RunEnds`, under fairness: although the limit on states does not see forks.
* `TestsReach`: a case with one symbolic input leads the processor where its
  state is, also when the state was given up, marked terminated and run on, and
  minimising loses no such case. With more inputs nothing is claimed, as each is
  solved for by itself.
* `VerdictsFollow`: outcomes are counted once, listed with their case, and a crash
  is never listed as a failure. The converse is weaker, as nothing clears
  `crashInfo`: what is listed as a crash was killed, or came after a program that
  was.
* `SidesDivide`: a condition and its negation divide a path, but for AND and OR.
  `AnswersFollow`: a "sat", and the model that comes with one, is right; an "unsat"
  is until a `getModel` has thrown, as its constraints stay on the solver.
  `ImplementsScopes`: the manager implements nested contexts.
* `ReadsInFile`: nothing is read outside the file but in a 64-bit file in which a
  sum wraps (`SumsWrap`) or neither the table of names of the sections nor the file
  ends in a NUL (`NamesRunOn`). `LoadersAgree`: on a well-placed table of standard
  entries the library's segments begin with the tool's, and are the same where it
  counts the headers right.

`EveryInputTested` and `EveryStateReported` exempt a run that was aborted by an
exception: such a run loses every test it had (`Abort`).

Bounds. Two symbolic branches in one loop body, calls and a recursion fit in
four instructions. Depth 2 lets a path pass three branches and be cut;
five inputs give five paths and split unevenly; fourteen steps are enough to reach
every limit and, for the programs without loops, the end. Some programs meet the
limit on steps, some the one on states, some none; the last case is the one
`EveryInputTested` is about.

A word of four one-bit bytes has three operand sizes, carries, borrows, a sign
and addresses that wrap. Three instructions are enough for a store, a load and a
compare of what was loaded, or for two moves of the stack pointer around a third
instruction. `engine_processor` reduces a word to three bits so that five
instructions, sixteen inputs and a loop can be explored.

Two bits give the library's registers a sign, a carry and addresses that wrap.
Ten instructions for a slice are more than a path without a loop has, so paths
end, and fewer than one with a loop has, so slices are cut. Two constraints and
two contexts are enough for a narrowing inside a context inside a context. Five
units hold a header and a table of three, or one entry and code.

Fairness. `FairSpec` of the engine and of the library's executor asks that the
loop take its steps, `WF_vars(Next)`: one thread that waits for nothing but Z3.
It assumes that `check` returns; the code sets no timeout, and a call that does
not return is outside the model. In the executor a callback of the client
returns, too.

## 4. What is proved

`SymExecProofs` proves, for all programs, inputs, limits and semantics that
satisfy the named assumptions of `SymExec` (there is an input, the instruction
map is well formed, the semantics stays in its types, limits are naturals):

| Theorem | Statement |
|---|---|
| `TypeCorrect` | `Spec => []TypeOK` |
| `AccountingHolds` | `Spec => []Accounting` |
| `FrontierBounded` | `Spec => []FrontierBound` |
| `ApartHolds`, `IdentitiesUnique`, `PathsStayDisjoint` | `Spec => []IdsUnique`, `[]PathsDisjoint` |
| `LedgerHolds` | `Spec => []SolverLedger` |
| `EngineRefines` | `Spec => PartitionsInputs` |
| `NoInputIsLost` | `Spec => []NoInputLost` |
| `InputsAreTested` | `Spec => []EveryInputTested` |

`SymExecPathProofs` proves, under the same assumptions, what relates the paths
explored to the program:

| Theorem | Statement |
|---|---|
| `PendingReplay` | `Spec => []PendingStatesReplay` |
| `TestsReplayed` | `Spec => []TestsReplay` |
| `BlocksEntered` | `Spec => []BlocksEnteredAtStart` |
| `PathsOnGraph` | `Spec => []PathsFollowGraph` |
| `ReportedInOrder` | `Spec => []TargetSideFirst` |

and `AbstractProofs` proves `PartitionHolds`: the abstract classes of
`PathPartition` stay disjoint, and cover the inputs if none may be cut off.

`DataPathProofs` proves, for every width, every set of instructions with
operands as the decoder makes them, and every choice of symbolic inputs:

| Theorem | Statement |
|---|---|
| `ConcreteSound` | `Spec => []ConcreteIsConstant` |
| `PushNeverStores` | `Spec => OnlyMemoryOperandsStore` |
| `WidthsHold` | `Spec => []WellFormed` |
| `RegistersAgree` | `Spec => []FragmentRegistersAgree` |
| `MemoryAgrees` | `Spec => []FragmentMemoryAgrees` |
| `BranchesAgree` | `Spec => []FragmentBranchesAgree` |
| `StackPointerFollows` | `ASSUME \A ins \in Instructions : StackByNumbers(ins) PROVE Spec => []StackPointerAgrees` |

The first two follow from `Sound`, that registers and memory are total on their
keys and hold constants where they claim to, and from `TermsAreSymbolic`: what an
operation returns is never concrete. `WidthsHold` is an induction over `Formed`,
that every value is a number of the width it carries, one operator of the
semantics at a time.

The next three say that on an exact path the engine's values are the processor's
numbers on every input. They share one invariant: each register and each byte is
what the processor has (`Follows`). An operand
then reads the same number on both sides, which for a word in memory means
that the term put together from its bytes is the number with those bytes
(`Assembled`); the result of an exact instruction is the same; and a write leaves
the two sides equal again. `BranchesAgree` needs, besides, that the processor's
flags are those of the compare the engine kept (`Flagged`), and that a signed
comparison of two words is what sign and overflow of their difference say, the one
piece of arithmetic in it. `StackPointerFollows` is not confined to exact paths. Its
hypothesis is about the instructions, and is what compilers emit: beside pushes
and pops, the stack pointer is the result only of an operation on it and a number.
`MCDataPath` assumes the same of all its instructions, so TLC checks that the
hypothesis is met.

`SizesAssumption` and `PowersAssumption` say that widths are positive and that
powers of two are what they are, which the provers do not compute.

`LibConstraintsProofs` proves, for every width, set of names, set of constraints
and bounds, and `AbstractProofs` of the abstract specification:

| Theorem | Statement |
|---|---|
| `SidesAlwaysDivide` | `Spec => []SidesDivide` |
| `AnswersAlwaysFollow` | `Spec => []AnswersFollow` |
| `ManagerImplementsScopes` | `Spec => ImplementsScopes` |
| `NestedHolds` | `Spec => []Nested` (of `ConstraintScopes`) |

The first follows from a lemma about `negate`, one type of constraint at a time.
`AnswersFollow` is inductive with `Types`: an answer and a model are only kept
while the constraints they are about stay as they are. It claims a model to be
right only after a "sat"; any other may be wrong.
The refinement maps the constraints to the set that satisfies them; each action
narrows, opens, closes, resets or stutters.

`LibProofs` proves of the library's executor, for every width, set of names, set
of programs and of clients, and all limits:

| Theorem | Statement |
|---|---|
| `LibraryDivides` | `Spec => []DividesValuations` |
| `LibraryAccounts` | `ASSUME SolverComplete PROVE Spec => []StatesAccounted` |
| `LibraryLedger` | `Spec => []Ledger` |
| `StackPointersTogether` | `ASSUME SparesStack PROVE Spec => []StackPointersAgree` |
| `ExecutionOnGraph` | `ASSUME DirectJumps PROVE Spec => FollowsGraph` |
| `ExecutionReplays` | `ASSUME SolverComplete PROVE Spec => [](PlainRun(program, client) => StatesReplay)` |
| `VerdictsAlwaysFollow` | `TestsSpec => []VerdictsFollow` |

The second needs its assumption: with a solver that may give up, `forkState` marks
a state terminated and the loop goes on with it. First, each handler of an
instruction and the client's callback are shown to leave type, constraints and
history of a state alone (`TransferKeeps`, `RecordedKeeps`). Then every step has a
shape (`Shapes`), and every shape preserves `IInv`: pointers on the worklist are
valid, distinct, and not that of the state being run (`Lists`); a waiting
state has executed nothing, the one being run what the counter of the inner loop
says (`Histories`); and the two properties themselves (`Divides`, `Places`), which
lean on each other: a state is never found infeasible on both sides because its
constraints are never empty. A state left active has executed `maxInstructions` by
itself, which is what `Histories` is for, and its path is no shorter (`Lengths`).

`LibraryLedger` adds `CounterInv`, the equations of the ledger. That the
instructions counted are the sum of the histories takes lemmas on that sum: what
becomes of it when one state of the heap is rewritten, and when one is appended
whose history is 0. `StackPointersTogether` is proved of `StackInv`: in every
state on the heap the register `rsp` holds a number, one below the stack pointer
of the memory model, modulo the width. Each handler leaves both alone
(`LeavesStack`) or moves them together (`RspMoves`). It needs `SparesStack`, since a
`mov` to `rsp` moves one of them; `StackBaseAssumption` says that the stack ends
inside the address space, as the two start there.

`ExecutionOnGraph` is an action property: a step that moves a state from the start
of one block to the start of another goes along an edge. A step changes the address
of one state, and only `Transfer` or `forkState` do; where they lead is a
successor of the instruction, and a successor that starts a block is the end of
an edge. It needs `DirectJumps`: the graph takes the jump of a `jmp` from its
operand, and so does the executor only if that is an address.

`ExecutionReplays` is the strongest statement about the library: the states of a
run are what a processor does, on every valuation that satisfies their
constraints, although constraints, registers, marks and return addresses are kept
and copied separately. It is proved of `ReplayInv`: `Replays(s)` says that after
`s.steps` instructions the processor and `s` have the same data and are at the
same place (`Matches`). `SameData` is more than equal numbers: a value the
executor counts as concrete is the one the constructor makes of its number, in
registers and in every cell of memory, since what an operation does depends on
that (`Stands`, `ApplyStands`), and the flags that branches read agree.
`SamePlace` relates the frames of the call stack with the addresses the program
pushed. One lemma for each kind of step says that it keeps a match:
`RecordedMatches` for the client's marks, `StraightTogether` for what computes,
`SimpleMatches`, `TransferMatches` for calls and returns, and `BranchMatches`, by
`ConditionTaken`, for the constraint a branch adds. `SplitReplays` and
`RewriteReplays` put the states back on the heap.

`PlainRun` says of which programs and clients that is claimed. Operands are
numbers, `rax` and `rcx` by any of their names where they are written, and memory;
moves from and to memory, pushes and pops are left out, as the library skips the
first and keeps the others on a stack of its own; a client marks registers and
memory under names the executor knows. A branch reads flags in which the two sides
agree (`Agreed`): the flags the client marks, as long as no instruction writes
flags, and zero and sign where compares, additions and subtractions of concrete
values do. The library's compare leaves carry and overflow as they were, shifts of
a symbolic value by more than the width are masked by the folding only, and a
result that is a term leaves all flags alone: these are the limits of the
fragment, and they are the code's. Of the 610 pairs of `MCLib` 56 are in it, all
with conditional branches, some with calls; `StatesReplay` is checked by TLC of
all of them. The theorem assumes a solver that decides, since a state whose two
sides are given up stays where it is with the marks of an instruction it has not
run.

`VerdictsAlwaysFollow` is proved of `RunnerInv`: once a test has run the cases are
fixed; `crashInfo` is set when some program was killed, and only then unless
`causesCrash` was called; and the place of a failure in the list is the number of
bad outcomes up to it, which takes lemmas on the cardinality of an initial part of
a set of numbers. `JunkAssumption` says that the counters, which nothing
initialises, hold naturals.

`LoaderProofs` proves of the tool's loader, for every file, command line and width
of a word:

| Theorem | Statement |
|---|---|
| `OnlyFileIsRead` | `Spec => []ReadsInFile` |
| `SegmentsAgree` | `ASSUME ShortFiles PROVE Spec => []LoadersAgree` |

The invariant says what each stage has made: the segments come from entries in the
file (`FromTable`), the code bytes are in the file or there are none. A read
outside the file takes a test that passed because its sum had wrapped
(`FitsOrWraps`), and the sums of a 32-bit file cannot; or a name that does not
end, and then the last byte of the table, which is after the start of the name,
and the last of the file are no NUL. 32-bit files have their sections skipped.
`SegmentsAgree` follows from lemmas on `Picked`: of a sequence that starts with
another it picks a sequence that starts with what it picks of the other.
`FilesAssumption` says that the fields of a file are naturals and its size a
64-bit number, `WordsAssumption` that a word of 64 bits holds one of 32, and
`ShortFiles`, which `MCLoader` assumes of its files, that a 32-bit file is no
longer than its offsets reach.

The argument for the engine. A step has one of four shapes, as far as the
invariants can tell: nothing changes (`Still`), the top state goes on with a
condition that is no wider (`GoesOn`), it ends as a test (`Ends`), or it splits in
two (`Splits`). `StepShape` shows that once, action by action, from `TypeOK` and
`AliveInv` (no condition on the worklist is empty), and every invariant is then
proved shape by shape. The properties are not inductive alone:

* `FrontierBound` needs `DepthInv`, that the state at position i of the stack has
  passed at least i branches;
* `IdsUnique` and `PathsDisjoint` need `AliveInv` and `ApartInv`, which put the
  states on the worklist and the tests into one picture and bound ids by
  `next_state_id`;
* `NoInputLost` is proved of `CoverInv`, about the classes of the refinement
  mapping rather than positions, from which it follows;
* `PendingStatesReplay` and `TestsReplay` need that a run of the reference machine
  of n + 1 instructions is one of n and another step (`NatRecursion`), and that
  the condition a state adds is the side the machine takes; a test is then a
  state that was waiting and could not go on;
* `PathsFollowGraph` and `BlocksEnteredAtStart` are proved of a walk: two
  addresses that follow one another on a path are an instruction and one of its
  successors. That a successor starts a block, and that the edge is there, is then
  a fact about `FlowGraph` alone; `SweepAssumption` says that the instruction map
  is a sweep of the code, instructions end to end;
* `TargetSideFirst` needs the order of the whole stack: where the paths of two
  states part, the one nearer the top took the target;
* `EveryInputTested` follows from `NoInputLost`, `FinishedInv`, that only
  an exception or the condition of the loop ends it, and `AssignedInv`, that a
  solver that decides has a model for each test case.

`NatRecursion` is what the proofs share. The induction theorem of the library
takes an operator and cannot be used, so induction over the naturals is stated of
a set: one that holds 0 and the successor of each member holds all. With it a
function defined by recursion can be unfolded one step, and lemmas on
quotients and remainders are proved.

Only model-checked:

* liveness: `Termination`, `EveryStateReported`, `RunEnds`. Liveness under
  fairness and ENABLED are out of the prover's reach;
* `PendingOnProcessor`, `TestsOnProcessor`. They compare whole programs with a
  processor that keeps return addresses in memory, and hold of programs with a
  discipline, such as returning to where the call left its address, that is a
  property of what the program computes; the programs of the runs have it;
* `StatesReplay` of programs outside `PlainRun`: those that push and pop, and those
  whose compares are with 0, after which all flags agree;
* `TestsReach`. It needs `StatesReplay` with a solver that may give up, and that
  two cases have different keys, which are made by sorting and folding.

## 5. Findings

* `StatesLimitIsConcurrent` fails. The limit on states is documented as a number
  of concurrent states (`README.md:62`, `include/SymbolicExecutor.h:51`);
  `main.cpp:811` compares the number ever created, and leaves the states that
  wait without a test case.
* `SymbolicRegistersRead` fails. The usage text (`main.cpp:1292`) says
  `--sym-reg` marks a register symbolic. With a 32-bit name the symbol is stored
  under that name (`main.cpp:889`), and operands are read under 64-bit names only.
* `EveryPathTested` fails. `README.md:244` lists test cases "for each path", and
  its example makes them from `getTerminatedStates`. `forkState`
  (`SymbolicExecutor.cpp:425`) enters no copy among all states, where
  `getTerminatedStates` looks, so a path that ends in a copy has no case.
* `InstructionsPerPath` fails. `include/SymbolicExecutor.h:50` and `README.md:61`
  document the maximum of instructions "per path". The library counts them from 0
  for each state it takes from the worklist (`SymbolicExecutor.cpp:210-213`), and a
  copy of a fork is one, so a path with k forks may have k + 1 times the limit.

What the models show besides. Some of it departs from what a comment or the README
says, some is what properties exempt for that reason; no run is about it.

* The limit on states of the library is documented as the program's is
  (`include/SymbolicExecutor.h:51`), and is compared with the states `createState`
  made (`SymbolicExecutor.cpp:200`): forks do not add to them.
* What follows a jump or a return is no leader (`main.cpp:459`), although
  `README.md:127` says that the builder partitions code into basic blocks and builds
  edges from the control flow. A jump followed by dead code is in the middle of a
  block and its edge is missing: `HiddenJump`, which `PathsFollowGraph` exempts.
* `MemoryModel.cpp:382` calls `eax` and others "32-bit aliases". Writes go to the
  wide register (414), and reads to a register of its own (399) that stays 0.
* `loadBinary`, the first call of the example of `README.md:215`, writes through a
  null pointer (`SymbolicExecutor.cpp:81-102`), and the process may end there.
* `include/PathConstraint.h:125` calls what `getModel` returns a "solution";
  `PathConstraint.cpp:227` does not look at the answer, and the model after an
  "unknown" may violate the constraints. `AnswersFollow` claims no such model.
* `include/PathConstraint.h:85` has `negate` "for path exploration"; AND and OR are
  swapped and keep their operands (`PathConstraint.cpp:95`), so the two sides of
  such a branch overlap or leave valuations out. `SidesDivide` exempts them.
* `ELFParser.cpp:120` reads four bytes as "e_phnum", a field of two, so headers that
  do not exist are read as well. `LoadersAgree` compares the lengths only where the
  count is right.
* In the program, `test` stores a conjunction where a branch expects a 0; an address
  with a symbolic base is computed as if the base were 0.
* In the library, `test` subtracts like a compare; moves with a memory operand are
  skipped; a result that is a term leaves the flags alone; a program that writes
  `rsp` moves one stack pointer of the two; all copies of a run share an id; the
  counters of the test runner start with what is in memory, and `crashInfo` is never
  cleared, so plain failures after a crash are listed as crashes.
* A test case with several inputs has each of them from a solver of its own. Whether
  they fit together depends on Z3, which promises nothing about the models of two
  solvers, and no property claims or refutes it.

## 6. Not modelled

* Formatting: the text of reports, graphs, SMT-LIB, XML, JSON and generated
  scripts, in the program and the library.
* What nothing calls: breadth-first and random order, pruning, `shouldTerminate`,
  `ExecutionPath`, `ConstraintUtils`, `MemoryModel` regions, the operations of
  `SymbolicValue` no handler uses, coverage and filters of the generator.
* `addPathConstraint` and `step` of the library called outside a run, and a second
  run of the same executor.
* Section names and symbols of `ELFParser`: the table of symbols is appended to a
  constant object and never stored, so the functions `CFGBuilder` would make from
  it do not exist. ARM operands of the disassembler.
* Counters of type `size_t` (states, steps, queries, instructions) do not wrap in the
  models; a run of 2^64 steps is out of the program's reach too.
* What `loadBinary` does after its null pointer, other than ending the process: the
  runs and theorems about the library's executor are about the case in which the
  writes are lost and it returns.
* Z3, Capstone, the vendored libraries and the example under `example/`.

Work that would come next: `PendingOnProcessor` for programs that use the stack
only to call, push and pop; pushes and pops in `PlainRun`, with a solver that may
give up, and from there `TestsReach`.
