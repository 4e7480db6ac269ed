---------------------------- MODULE SymExecProps ----------------------------
(***************************************************************************)
(* What is claimed of the exploration engine.                              *)
(***************************************************************************)
EXTENDS SymExec

Pending == 1 .. Len(worklist)
Reported == 1 .. Len(tests)

State ==
  [id : Nat, pc : Nat, data : Data, pcm : SUBSET Inputs, trace : Seq(Nat),
   callstack : Seq(Nat), depth : Nat]

Test ==
  [state_id : Nat, path : Seq(Nat), assignments : SUBSET Inputs,
   cond : SUBSET Inputs]

Stats ==
  [states_created : Nat, paths_terminated : Nat, instructions : Nat,
   branches : Nat, solver_queries : Nat, solver_sat : Nat, solver_unsat : Nat]

(* Every variable of run() and every field of its states has its type.     *)
TypeOK ==
  /\ insn_map \in Programs
  /\ worklist \in Seq(State)
  /\ tests \in Seq(Test)
  /\ steps \in 0 .. MaxSteps
  /\ stats \in Stats
  /\ next_state_id \in Nat
  /\ running \in BOOLEAN /\ aborted \in BOOLEAN

-----------------------------------------------------------------------------
(* The counters agree with what they count.  A state that was created      *)
(* waits on the worklist or has been reported, and not both, so the number *)
(* of test cases is paths_terminated; queries come two per branch.         *)
Accounting ==
  /\ next_state_id = stats.states_created + 1
  /\ stats.states_created = Len(worklist) + Len(tests)
  /\ stats.paths_terminated = Len(tests)
  /\ stats.solver_queries = stats.solver_sat + stats.solver_unsat
  /\ stats.solver_queries <= 2 * stats.branches

(* With a solver that always decides, a state is made for each branch of   *)
(* which both sides are feasible, so the second test of the limit on       *)
(* states in stepState never fails: the answers sat exceed half the        *)
(* queries by the number of states forked.                                 *)
SolverLedger ==
  SolverComplete =>
    2 * stats.solver_sat = stats.solver_queries + 2 * (stats.states_created - 1)

(* No two states, waiting or reported, carry the same id.                  *)
IdsUnique ==
  /\ \A i, j \in Pending : i # j => worklist[i].id # worklist[j].id
  /\ \A i, j \in Reported : i # j => tests[i].state_id # tests[j].state_id
  /\ \A i \in Pending, j \in Reported : worklist[i].id # tests[j].state_id

(* The path conditions divide the inputs: a state that is waiting or was   *)
(* reported stands for some input, and no input is on two paths.           *)
PathsDisjoint ==
  /\ \A i \in Pending : worklist[i].pcm # {}
  /\ \A i \in Reported : tests[i].cond # {}
  /\ \A i, j \in Pending :
       i # j => worklist[i].pcm \cap worklist[j].pcm = {}
  /\ \A i, j \in Reported : i # j => tests[i].cond \cap tests[j].cond = {}
  /\ \A i \in Pending, j \in Reported :
       worklist[i].pcm \cap tests[j].cond = {}

(* With a solver that always decides, every input stays on some path.      *)
NoInputLost ==
  SolverComplete =>
    \A v \in Inputs :
      \/ \E i \in Pending : v \in worklist[i].pcm
      \/ \E i \in Reported : v \in tests[i].cond

LimitReached == steps = MaxSteps \/ stats.states_created >= MaxStates

(* When run() returns, without having met a limit, no state is dropped, and *)
(* with a solver that always decides every input is represented by a test  *)
(* case that carries an assignment.                                        *)
EveryInputTested ==
  ~running /\ ~aborted /\ ~LimitReached =>
    /\ worklist = << >>
    /\ SolverComplete =>
         \A v \in Inputs : \E i \in Reported :
           v \in tests[i].cond /\ tests[i].assignments # {}

-----------------------------------------------------------------------------
(* The stack is ordered by depth: below the top, the state at position i   *)
(* has passed at least i branches, and the top at least one less.          *)
DepthOfPosition ==
  \A i \in Pending :
    worklist[i].depth >= (IF i < Len(worklist) THEN i ELSE i - 1)

DepthBounded == \A i \in Pending : worklist[i].depth <= MaxDepth + 1

(* Depth-first search needs little memory: however many states are created *)
(* the worklist never holds more than max_depth + 2 of them, nor more than *)
(* max_states.                                                             *)
FrontierBound ==
  /\ Len(worklist) <= MaxDepth + 2
  /\ Len(worklist) <= (IF MaxStates = 0 THEN 1 ELSE MaxStates)

(* The paths in the order they are, or are going to be, reported: those    *)
(* waiting come in the order of the stack, each with the address it is at. *)
ReportOrder ==
  [k \in 1 .. Len(tests) + Len(worklist) |->
     IF k <= Len(tests) THEN tests[k].path
     ELSE LET st == worklist[Len(worklist) + Len(tests) + 1 - k]
          IN  Append(st.trace, st.pc)]

(* A branch to the next instruction: a path does not show which side it    *)
(* took.                                                                   *)
ToNext(a) ==
  /\ a \in DOMAIN insn_map
  /\ insn_map[a].kind = "jcc"
  /\ insn_map[a].target = a + insn_map[a].size

(* Where two paths part, the one that is reported first went to the target *)
(* of the branch and the other fell through, unless they have parted       *)
(* before without showing it.                                              *)
TargetSideFirst ==
  \A k \in DOMAIN ReportOrder : \A j \in 1 .. k - 1 :
    LET s == ReportOrder[j]
        t == ReportOrder[k]
    IN  \A n \in DOMAIN s \cap DOMAIN t :
          s[n] # t[n] /\ (\A m \in 1 .. n - 1 : s[m] = t[m] /\ ~ToNext(s[m]))
            => /\ insn_map[s[n - 1]].kind = "jcc"
               /\ s[n] = insn_map[s[n - 1]].target

-----------------------------------------------------------------------------
(* README.md documents the limit on states as the maximum number of        *)
(* concurrent ones.  Then a run that stops on that limit alone has as many *)
(* states waiting.  (src/main.cpp compares the number ever created.)       *)
StatesLimitIsConcurrent ==
  ~running /\ ~aborted /\ worklist # << >> /\ steps < MaxSteps
    => Len(worklist) >= MaxStates

(* The loop of run() ends.                                                 *)
Termination == <>~running

(* A state is not starved: once it waits it is reported, unless the run    *)
(* meets a limit or an exception.                                          *)
Waits(id) == \E i \in Pending : worklist[i].id = id
IsReported(id) == \E i \in Reported : tests[i].state_id = id

EveryStateReported ==
  \A id \in 1 .. MaxStates : Waits(id) ~> (IsReported(id) \/ LimitReached \/ aborted)

-----------------------------------------------------------------------------
(* The engine implements the abstract division of the inputs into classes. *)
Classify ==
  INSTANCE PathPartition WITH
    MayForget <- ~SolverComplete,
    open <- {worklist[i].pcm : i \in Pending},
    closed <- {tests[i].cond : i \in Reported}

PartitionsInputs == Classify!Spec
=============================================================================
