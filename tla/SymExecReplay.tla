---------------------------- MODULE SymExecReplay ----------------------------
(***************************************************************************)
(* The engine against the program it explores.  A machine that runs the    *)
(* program on one input, with no worklist, no solver and no limits, is the *)
(* reference: a path the engine reports must be a run of that machine.     *)
(***************************************************************************)
EXTENDS SymExecProps

(* The machine follows the conventions of stepState: it stops at a return  *)
(* from the entry function, at an indirect jump or branch and outside the  *)
(* code, and it steps over a call it cannot enter.                         *)
Reset ==
  [pc |-> Entry, data |-> InitData, calls |-> << >>, path |-> << >>,
   depth |-> 0, halted |-> FALSE]

Advance(p, c, v) ==
  LET ins == p[c.pc]
      next == ins.address + ins.size
      d == [c EXCEPT !.path = Append(@, c.pc)]
      halt == [d EXCEPT !.halted = TRUE]
  IN  CASE ins.kind = "ret" ->
             IF c.calls = << >> THEN halt
             ELSE [d EXCEPT !.pc = Head(c.calls), !.calls = Tail(@)]
        [] ins.kind = "jmp" ->
             IF ins.target = NoTarget THEN halt
             ELSE [d EXCEPT !.pc = ins.target]
        [] ins.kind = "call" ->
             IF ins.target \in DOMAIN p \ {NoTarget}
             THEN [d EXCEPT !.pc = ins.target, !.calls = <<next>> \o @]
             ELSE [d EXCEPT !.pc = next]
        [] ins.kind = "jcc" ->
             IF ins.target = NoTarget THEN halt
             ELSE [d EXCEPT !.depth = @ + 1,
                     !.pc = IF v \in BranchCond(c.data, ins.op)
                            THEN ins.target ELSE next]
        [] ins.kind = "op" ->
             [d EXCEPT !.data = ExecData(@, ins.op), !.pc = next]

Stuck(p, c) == c.halted \/ c.pc \notin DOMAIN p

(* The machine with program p after n instructions on input v.             *)
Run(p, v) ==
  LET run[n \in 0 .. MaxSteps] ==
        IF n = 0 THEN Reset
        ELSE LET c == run[n - 1]
             IN  IF Stuck(p, c) THEN c ELSE Advance(p, c, v)
  IN  run

RunOn(v) == Run(insn_map, v)

Reversed(s) == [i \in DOMAIN s |-> s[Len(s) + 1 - i]]

(* A state waiting to be stepped is the machine, part of the way, on every *)
(* input of its path condition: same trace, address, data, return          *)
(* addresses and number of branches.                                       *)
PendingStatesReplay ==
  \A i \in Pending : \A v \in worklist[i].pcm :
    LET st == worklist[i]
        c == RunOn(v)[Len(st.trace)]
    IN  /\ c.path = st.trace /\ c.pc = st.pc /\ c.data = st.data
        /\ c.calls = Reversed(st.callstack) /\ c.depth = st.depth
        /\ ~c.halted

(* The assignment of a test case, run on the machine, takes the path of    *)
(* the test case, and the machine stops there unless the path was cut off  *)
(* at the depth limit.  (A path the solver gave up on is cut as well.)     *)
TestsReplay ==
  \A i \in Reported : \A v \in tests[i].assignments :
    LET c == RunOn(v)[Len(tests[i].path)]
    IN  /\ v \in tests[i].cond
        /\ c.path = tests[i].path
        /\ SolverComplete => Stuck(insn_map, c) \/ c.depth = MaxDepth + 1
=============================================================================
