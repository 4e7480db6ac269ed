-------------------------- MODULE SymExecPathProofs --------------------------
(***************************************************************************)
(* Theorems about the paths the engine reports, for all programs, inputs,  *)
(* semantics and limits: they are runs of the program, and walks on its    *)
(* control flow graph.                                                     *)
(***************************************************************************)
EXTENDS SymExecReplay, SymExecFlow, SymExecProofs, NatRecursion

-----------------------------------------------------------------------------
(* The machine: its configurations exist, one after the other.             *)

(* One instruction of a machine that has stopped changes nothing.          *)
Turned(p, c, v) == IF Stuck(p, c) THEN c ELSE Advance(p, c, v)

(* A function that holds the first m configurations.                       *)
Unrolled(p, v, f, m) ==
  f = [n \in 0 .. m |-> IF n = 0 THEN Reset ELSE Turned(p, f[n - 1], v)]

LEMMA RunIsUnrolled ==
  ASSUME NEW p, NEW v PROVE Unrolled(p, v, Run(p, v), MaxSteps)
<1> DEFINE S == {m \in Nat : \E f : Unrolled(p, v, f, m)}
<1>1. Run(p, v) = CHOOSE f : Unrolled(p, v, f, MaxSteps)
  BY DEF Run, Unrolled, Turned
<1>2. 0 \in S
  <2> DEFINE f == [n \in 0 .. 0 |-> Reset]
  <2>1. Unrolled(p, v, f, 0)
    BY DEF Unrolled
  <2>2. QED
    BY <2>1
<1>3. ASSUME NEW m \in Nat, m \in S PROVE m + 1 \in S
  <2>1. PICK f : Unrolled(p, v, f, m)
    BY <1>3
  <2> DEFINE g == [n \in 0 .. m + 1 |->
                     IF n = m + 1 THEN Turned(p, f[m], v) ELSE f[n]]
  <2>2. ASSUME NEW n \in 0 .. m + 1
        PROVE  g[n] = IF n = 0 THEN Reset ELSE Turned(p, g[n - 1], v)
    <3>1. CASE n = m + 1
      BY <3>1
    <3>2. CASE n # m + 1
      <4>1. n \in 0 .. m /\ (n # 0 => n - 1 \in 0 .. m)
        BY <3>2
      <4>2. f[n] = IF n = 0 THEN Reset ELSE Turned(p, f[n - 1], v)
        BY <2>1, <4>1 DEF Unrolled
      <4>3. g[n] = f[n] /\ (n # 0 => g[n - 1] = f[n - 1])
        BY <3>2, <4>1
      <4>4. QED
        BY <4>2, <4>3
    <3>3. QED
      BY <3>1, <3>2
  <2>3. Unrolled(p, v, g, m + 1)
    BY <2>2 DEF Unrolled
  <2>4. m + 1 \in Nat /\ \E h : Unrolled(p, v, h, m + 1)
    BY <2>3
  <2> HIDE DEF g
  <2>5. QED
    BY <2>4
<1>4. \A m \in Nat : m \in S
  <2> HIDE DEF S
  <2>1. QED
    BY <1>2, <1>3, Induction
<1>5. \E f : Unrolled(p, v, f, MaxSteps)
  BY <1>4, LimitsAssumption
<1>6. QED
  BY <1>1, <1>5

LEMMA RunStart == ASSUME NEW p, NEW v PROVE Run(p, v)[0] = Reset
BY RunIsUnrolled, LimitsAssumption DEF Unrolled

LEMMA RunTurn ==
  ASSUME NEW p, NEW v, NEW n \in Nat, n < MaxSteps,
         ~Stuck(p, Run(p, v)[n])
  PROVE  Run(p, v)[n + 1] = Advance(p, Run(p, v)[n], v)
<1>1. n + 1 \in 0 .. MaxSteps /\ n + 1 # 0 /\ (n + 1) - 1 = n
  BY LimitsAssumption
<1>2. PICK f : f = Run(p, v) /\ Unrolled(p, v, f, MaxSteps)
  BY RunIsUnrolled
<1>3. f[n + 1] = Turned(p, f[(n + 1) - 1], v)
  BY <1>1, <1>2 DEF Unrolled
<1>4. QED
  BY <1>1, <1>2, <1>3 DEF Turned
-----------------------------------------------------------------------------
(* A state of the engine as a configuration of the machine.                *)

Config(st) ==
  [pc |-> st.pc, data |-> st.data, calls |-> Reversed(st.callstack),
   path |-> st.trace, depth |-> st.depth, halted |-> FALSE]

LEMMA ReversedAt ==
  ASSUME NEW s \in Seq(Nat), NEW n \in Nat, Len(s) = n
  PROVE  /\ Reversed(s) \in Seq(Nat) /\ Len(Reversed(s)) = n
         /\ \A i \in 1 .. n : Reversed(s)[i] = s[n + 1 - i]
BY DEF Reversed

(* The return address pushed last is the first to be popped.               *)
LEMMA ReversedPush ==
  ASSUME NEW s \in Seq(Nat), NEW x \in Nat
  PROVE  Reversed(Append(s, x)) = <<x>> \o Reversed(s)
<1>0. PICK n \in Nat : Len(s) = n
  OBVIOUS
<1>0a. PICK a, r, b :
        a = Append(s, x) /\ r = Reversed(s) /\ b = <<x>> \o r
  OBVIOUS
<1>1. /\ n \in Nat /\ r \in Seq(Nat) /\ Len(r) = n
      /\ \A i \in 1 .. n : r[i] = s[n + 1 - i]
  BY <1>0, <1>0a, ReversedAt
<1>2. /\ a \in Seq(Nat) /\ Len(a) = n + 1 /\ a[n + 1] = x
      /\ \A i \in 1 .. n : a[i] = s[i]
  BY <1>0, <1>0a, AppendAt
<1>3. /\ b \in Seq(Nat) /\ Len(b) = n + 1 /\ b[1] = x
      /\ \A i \in 1 .. n + 1 : i # 1 => b[i] = r[i - 1]
  BY <1>0a, <1>1
<1>4. /\ Reversed(a) \in Seq(Nat) /\ Len(Reversed(a)) = n + 1
      /\ \A i \in 1 .. n + 1 : Reversed(a)[i] = a[n + 2 - i]
  <2>1. PICK m \in Nat : m = n + 1
    OBVIOUS
  <2>2. /\ Reversed(a) \in Seq(Nat) /\ Len(Reversed(a)) = m
        /\ \A i \in 1 .. m : Reversed(a)[i] = a[m + 1 - i]
    BY <1>2, <2>1, ReversedAt
  <2>3. QED
    BY <2>1, <2>2
<1>5. ASSUME NEW i \in 1 .. n + 1 PROVE Reversed(a)[i] = b[i]
  <2>1. CASE i = 1
    BY <1>1, <1>2, <1>3, <1>4, <2>1
  <2>2. CASE i # 1
    <3>1. i - 1 \in 1 .. n /\ n + 2 - i \in 1 .. n /\ n + 1 - (i - 1) = n + 2 - i
      BY <1>1, <2>2
    <3>2. b[i] = r[i - 1] /\ r[i - 1] = s[n + 1 - (i - 1)]
      BY <1>1, <1>3, <2>2, <3>1
    <3>3. Reversed(a)[i] = a[n + 2 - i] /\ a[n + 2 - i] = s[n + 2 - i]
      BY <1>2, <1>4, <3>1
    <3>4. QED
      BY <3>1, <3>2, <3>3
  <2>3. QED
    BY <2>1, <2>2
<1>6. Reversed(a) = b
  BY <1>3, <1>4, <1>5, SeqEqual
<1>7. QED
  BY <1>0a, <1>6

LEMMA ReversedPop ==
  ASSUME NEW s \in Seq(Nat), s # << >>
  PROVE  /\ Reversed(s) # << >>
         /\ Head(Reversed(s)) = s[Len(s)]
         /\ Tail(Reversed(s)) = Reversed(SubSeq(s, 1, Len(s) - 1))
<1>1. PICK n \in Nat : Len(s) = n + 1 /\ n = Len(s) - 1
  <2>1. Len(s) \in Nat /\ Len(s) # 0
    BY EmptySeq, LenProperties
  <2>2. Len(s) - 1 \in Nat /\ Len(s) = (Len(s) - 1) + 1
    BY <2>1
  <2>3. QED
    BY <2>2
<1>2. PICK r, b, t :
        r = Reversed(s) /\ b = SubSeq(s, 1, n) /\ t = Tail(Reversed(s))
  OBVIOUS
<1>3. /\ r \in Seq(Nat) /\ Len(r) = n + 1
      /\ \A i \in 1 .. n + 1 : r[i] = s[n + 2 - i]
  <2>1. PICK m \in Nat : m = n + 1
    OBVIOUS
  <2>2. /\ r \in Seq(Nat) /\ Len(r) = m
        /\ \A i \in 1 .. m : r[i] = s[m + 1 - i]
    BY <1>1, <1>2, <2>1, ReversedAt
  <2>3. QED
    BY <2>1, <2>2
<1>4. /\ b \in Seq(Nat) /\ Len(b) = n
      /\ \A i \in 1 .. n : b[i] = s[i]
  BY <1>1, <1>2, FrontProperties
<1>5. /\ Reversed(b) \in Seq(Nat) /\ Len(Reversed(b)) = n
      /\ \A i \in 1 .. n : Reversed(b)[i] = b[n + 1 - i]
  BY <1>4, ReversedAt
<1>6. /\ r # << >> /\ Head(r) = r[1]
      /\ t \in Seq(Nat) /\ Len(t) = n
      /\ \A i \in 1 .. n : t[i] = r[i + 1]
  BY <1>2, <1>3
<1>7. ASSUME NEW i \in 1 .. n PROVE t[i] = Reversed(b)[i]
  <2>1. i + 1 \in 1 .. n + 1 /\ n + 1 - i \in 1 .. n
        /\ n + 2 - (i + 1) = n + 1 - i
    OBVIOUS
  <2>2. t[i] = s[n + 2 - (i + 1)]
    BY <1>3, <1>6, <2>1
  <2>3. Reversed(b)[i] = s[n + 1 - i]
    BY <1>4, <1>5, <2>1
  <2>4. QED
    BY <2>1, <2>2, <2>3
<1>8. t = Reversed(b)
  BY <1>5, <1>6, <1>7, SeqEqual
<1>9. r[1] = s[n + 1]
  BY <1>3
<1>10. QED
  BY <1>1, <1>2, <1>6, <1>8, <1>9

LEMMA ReversedEmpty ==
  ASSUME NEW s \in Seq(Nat) PROVE (Reversed(s) = << >>) <=> (s = << >>)
<1>1. PICK n \in Nat : Len(s) = n
  OBVIOUS
<1>2. Reversed(s) \in Seq(Nat) /\ Len(Reversed(s)) = n
  BY <1>1, ReversedAt
<1>3. QED
  BY <1>1, <1>2, EmptySeq

(* The top state after one more instruction.                               *)
At(pc, data, calls, depth) ==
  [pc |-> pc, data |-> data, calls |-> calls,
   path |-> Append(Top.trace, Top.pc), depth |-> depth, halted |-> FALSE]
Halted == [At(Top.pc, Top.data, Reversed(Top.callstack), Top.depth)
             EXCEPT !.halted = TRUE]

(* What the machine does from the configuration of the top state.          *)
LEMMA AdvanceFacts ==
  ASSUME Ins.address + Ins.size = FallThrough, NEW v, NEW calls,
         calls = Reversed(Top.callstack)
  PROVE  /\ Ins.kind = "ret" /\ calls = << >>
              => Advance(insn_map, Config(Top), v) = Halted
         /\ Ins.kind = "ret" /\ calls # << >>
              => Advance(insn_map, Config(Top), v)
                   = At(Head(calls), Top.data, Tail(calls), Top.depth)
         /\ Ins.kind = "jmp" /\ Ins.target = NoTarget
              => Advance(insn_map, Config(Top), v) = Halted
         /\ Ins.kind = "jmp" /\ Ins.target # NoTarget
              => Advance(insn_map, Config(Top), v)
                   = At(Ins.target, Top.data, calls, Top.depth)
         /\ Ins.kind = "call" /\ InternalCall
              => Advance(insn_map, Config(Top), v)
                   = At(Ins.target, Top.data, <<FallThrough>> \o calls, Top.depth)
         /\ Ins.kind = "call" /\ ~InternalCall
              => Advance(insn_map, Config(Top), v)
                   = At(FallThrough, Top.data, calls, Top.depth)
         /\ Ins.kind = "jcc" /\ Ins.target = NoTarget
              => Advance(insn_map, Config(Top), v) = Halted
         /\ Ins.kind = "jcc" /\ Ins.target # NoTarget
              => Advance(insn_map, Config(Top), v)
                   = At(IF v \in BranchCond(Top.data, Ins.op)
                        THEN Ins.target ELSE FallThrough,
                        Top.data, calls, Top.depth + 1)
         /\ Ins.kind = "op"
              => Advance(insn_map, Config(Top), v)
                   = At(FallThrough, ExecData(Top.data, Ins.op), calls, Top.depth)
<1>1. PICK c, d : c = Config(Top) /\ d = [c EXCEPT !.path = Append(c.path, c.pc)]
  OBVIOUS
<1>2. /\ c.pc = Top.pc /\ c.data = Top.data /\ c.calls = calls
      /\ c.path = Top.trace /\ c.depth = Top.depth /\ c.halted = FALSE
      /\ insn_map[c.pc] = Ins
  BY <1>1 DEF Config, Ins
<1>3. d = At(Top.pc, Top.data, calls, Top.depth)
  BY <1>1, <1>2 DEF Config, At
<1>4. CASE Ins.kind = "ret"
  BY <1>1, <1>2, <1>3, <1>4 DEF Advance, Halted, At
<1>5. CASE Ins.kind = "jmp"
  BY <1>1, <1>2, <1>3, <1>5 DEF Advance, Halted, At
<1>6. CASE Ins.kind = "call"
  BY <1>1, <1>2, <1>3, <1>6 DEF Advance, InternalCall, At
<1>7. CASE Ins.kind = "jcc"
  BY <1>1, <1>2, <1>3, <1>7 DEF Advance, Halted, At
<1>8. CASE Ins.kind = "op"
  BY <1>1, <1>2, <1>3, <1>8 DEF Advance, At
<1>9. QED
  BY <1>4, <1>5, <1>6, <1>7, <1>8
-----------------------------------------------------------------------------
(* What a step of the loop does to paths.                                  *)

(* A state whose successor the machine reaches on each of its inputs.      *)
Reaches(st) ==
  /\ st \in State /\ st.pcm \subseteq Top.pcm
  /\ st.trace = Append(Top.trace, Top.pc)
  /\ \A v \in st.pcm : Advance(insn_map, Config(Top), v) = Config(st)

(* The test case of a path that ends before, or at, its instruction.       *)
EndsBefore(t) ==
  /\ t.path = Top.trace
  /\ Top.depth > MaxDepth \/ Top.pc \notin DOMAIN insn_map
EndsAfter(t) ==
  /\ t.path = Append(Top.trace, Top.pc)
  /\ \A v : /\ Advance(insn_map, Config(Top), v).path = t.path
            /\ SolverComplete /\ Top.pcm # {}
                 => Advance(insn_map, Config(Top), v).halted
Concludes(t) ==
  /\ t \in Test /\ t.cond = Top.pcm /\ t.assignments \subseteq Top.pcm
  /\ EndsBefore(t) \/ EndsAfter(t)

Walks ==
  /\ \E st \in State : Reaches(st) /\ worklist' = Append(Below, st)
  /\ UNCHANGED tests
Parts ==
  /\ \E st, other \in State :
       /\ Reaches(st) /\ Reaches(other) /\ worklist' = Below \o <<other, st>>
       /\ st.pc = Ins.target /\ other.pc = FallThrough
  /\ Ins.kind = "jcc"
  /\ UNCHANGED tests
Executes == Top.pc \in DOMAIN insn_map /\ steps' = steps + 1
Reports ==
  /\ worklist' = Below
  /\ \E t \in Test :
       /\ Concludes(t) /\ tests' = Append(tests, t)
       /\ EndsBefore(t) \/ Executes

LEMMA ReachesWhen ==
  ASSUME TypeOK, NEW k, Fetching(k), NEW st \in State,
         st.pcm \subseteq Top.pcm, st.trace = Visited.trace,
         \A v \in st.pcm :
           Advance(insn_map, Config(Top), v)
             = At(st.pc, st.data, Reversed(st.callstack), st.depth)
  PROVE  Reaches(st) /\ Executes /\ Top.callstack \in Seq(Nat) /\ Turn
<1>1. Top \in State /\ Turn
  BY FetchFacts
<1>2. Visited.trace = Append(Top.trace, Top.pc)
  BY <1>1 DEF Visited, State
<1>3. Config(st) = At(st.pc, st.data, Reversed(st.callstack), st.depth)
  BY <1>2 DEF Config, At
<1>4. QED
  BY <1>1, <1>2, <1>3
     DEF Reaches, Executes, State, Fetching, Stepping, AtInstruction

(* A state that is reported as it was visited.                             *)
LEMMA ConcludesWhen ==
  ASSUME TypeOK, NEW k, Fetching(k), NEW c, Report(Visited, c),
         SolverComplete /\ Top.pcm # {} =>
           \A v : Advance(insn_map, Config(Top), v).halted,
         \A v : Advance(insn_map, Config(Top), v).path
                  = Append(Top.trace, Top.pc)
  PROVE  Turn /\ Reports
<1>1. /\ Turn /\ Top \in State /\ Visited \in State
      /\ Visited.pcm = Top.pcm /\ Executes
  BY FetchFacts DEF Executes, Fetching, Stepping, AtInstruction
<1>2. Visited.trace = Append(Top.trace, Top.pc)
  BY <1>1 DEF Visited, State
<1>3. PICK m \in Models(Visited.pcm) :
        tests' = Append(tests, [state_id |-> Visited.id, path |-> Visited.trace,
                                assignments |-> m, cond |-> Visited.pcm])
  BY DEF Report
<1>4. m \subseteq Top.pcm /\ m \in SUBSET Inputs
  BY <1>1, <1>3 DEF Models, State
<1>5. PICK t : t = [state_id |-> Visited.id, path |-> Visited.trace,
                    assignments |-> m, cond |-> Visited.pcm]
  OBVIOUS
<1>6. t \in Test /\ Concludes(t)
  BY <1>1, <1>2, <1>4, <1>5 DEF Concludes, EndsAfter, Test, State
<1>7. QED
  BY <1>1, <1>3, <1>5, <1>6 DEF Reports, Report

LEMMA EndsBeforeWhen ==
  ASSUME TypeOK, worklist # << >>, NEW c, Report(Top, c),
         Top.depth > MaxDepth \/ Top.pc \notin DOMAIN insn_map
  PROVE  Reports
<1>1. Top \in State
  BY StackType DEF TypeOK
<1>2. PICK m \in Models(Top.pcm) :
        tests' = Append(tests, [state_id |-> Top.id, path |-> Top.trace,
                                assignments |-> m, cond |-> Top.pcm])
  BY DEF Report
<1>3. m \subseteq Top.pcm /\ m \in SUBSET Inputs
  BY <1>1, <1>2 DEF Models, State
<1>4. PICK t : t = [state_id |-> Top.id, path |-> Top.trace,
                    assignments |-> m, cond |-> Top.pcm]
  OBVIOUS
<1>5. t \in Test /\ Concludes(t) /\ EndsBefore(t)
  BY <1>1, <1>3, <1>4 DEF Concludes, EndsBefore, Test, State
<1>6. QED
  BY <1>2, <1>4, <1>5 DEF Reports, Report

(* The machine halts, and its path is the visited one.                     *)
LEMMA HaltedIs ==
  Halted.halted /\ Halted.path = Append(Top.trace, Top.pc)
BY DEF Halted, At

(* The machine on the instruction of the top state, in short.              *)
LEMMA AdvanceOnTop ==
  ASSUME NEW v
  PROVE  /\ Ins.kind = "ret" /\ Reversed(Top.callstack) = << >>
              => Advance(insn_map, Config(Top), v) = Halted
         /\ Ins.kind \in {"jmp", "jcc"} /\ Ins.target = NoTarget
              => Advance(insn_map, Config(Top), v) = Halted
         /\ Ins.kind = "jcc" /\ Ins.target # NoTarget
              => /\ v \in BranchCond(Top.data, Ins.op)
                      => Advance(insn_map, Config(Top), v)
                           = At(Ins.target, Top.data,
                                Reversed(Top.callstack), Top.depth + 1)
                 /\ v \notin BranchCond(Top.data, Ins.op)
                      => Advance(insn_map, Config(Top), v)
                           = At(FallThrough, Top.data,
                                Reversed(Top.callstack), Top.depth + 1)
<1>1. Ins.address + Ins.size = FallThrough
  BY DEF FallThrough
<1>2. QED
  BY <1>1, AdvanceFacts

(* A branch, on the inputs of one of its sides.                            *)
LEMMA SideReaches ==
  ASSUME TypeOK, Branching
  PROVE  /\ Reaches(Branched(CondTrue, Ins.target))
         /\ Reaches(Branched(CondFalse, FallThrough))
         /\ Reaches(Other) /\ Other.pc = FallThrough
         /\ Branched(CondTrue, Ins.target).pc = Ins.target
         /\ Branched(CondTrue, Ins.target) \in State
         /\ Branched(CondFalse, FallThrough) \in State /\ Other \in State
         /\ Executes /\ Turn /\ Ins.kind = "jcc"
<1>1. /\ Fetching("jcc") /\ Ins.target # NoTarget /\ Ins.kind = "jcc"
  BY DEF Branching, Fetching, AtInstruction
<1>2. /\ Turn /\ Top \in State /\ Visited \in State
      /\ Ins.target \in Nat /\ FallThrough \in Nat
      /\ Visited.data = Top.data /\ Visited.callstack = Top.callstack
      /\ Visited.depth = Top.depth
  BY <1>1, FetchFacts DEF Instruction
<1>3. CondTrue \in SUBSET Inputs /\ CondFalse \in SUBSET Inputs
  BY Sides
<1>4. PICK t, f, o : /\ t = Branched(CondTrue, Ins.target)
                     /\ f = Branched(CondFalse, FallThrough) /\ o = Other
  OBVIOUS
<1>5. PICK d \in Nat : d = Top.depth + 1
  BY <1>2 DEF State
<1>6. /\ t = [Visited EXCEPT !.pcm = CondTrue, !.pc = Ins.target, !.depth = d]
      /\ f = [Visited EXCEPT !.pcm = CondFalse, !.pc = FallThrough, !.depth = d]
      /\ o = [f EXCEPT !.id = next_state_id]
  BY <1>2, <1>4, <1>5 DEF Branched, Other
<1>7. /\ t \in State /\ t.pcm = CondTrue /\ t.pc = Ins.target
      /\ t.data = Top.data /\ t.callstack = Top.callstack /\ t.depth = d
      /\ t.trace = Visited.trace
  BY <1>2, <1>3, <1>5, <1>6 DEF State
<1>8. /\ f \in State /\ f.pcm = CondFalse /\ f.pc = FallThrough
      /\ f.data = Top.data /\ f.callstack = Top.callstack /\ f.depth = d
      /\ f.trace = Visited.trace
  BY <1>2, <1>3, <1>5, <1>6 DEF State
<1>9. next_state_id \in Nat
  BY DEF TypeOK
<1>10. /\ o \in State /\ o.pcm = CondFalse /\ o.pc = FallThrough
       /\ o.data = Top.data /\ o.callstack = Top.callstack /\ o.depth = d
       /\ o.trace = Visited.trace
  BY <1>6, <1>8, <1>9 DEF State
<1>11. /\ \A v \in CondTrue : v \in BranchCond(Top.data, Ins.op)
       /\ \A v \in CondFalse : v \notin BranchCond(Top.data, Ins.op)
       /\ CondTrue \subseteq Top.pcm /\ CondFalse \subseteq Top.pcm
  BY DEF CondTrue, CondFalse
<1>12. Reaches(t) /\ Executes
  <2>1. \A v \in CondTrue :
          Advance(insn_map, Config(Top), v)
            = At(Ins.target, Top.data, Reversed(Top.callstack), d)
    BY <1>1, <1>5, <1>11, AdvanceOnTop
  <2>2. QED
    BY <1>1, <1>7, <1>11, <2>1, ReachesWhen
<1>13. \A v \in CondFalse :
         Advance(insn_map, Config(Top), v)
           = At(FallThrough, Top.data, Reversed(Top.callstack), d)
  BY <1>1, <1>5, <1>11, AdvanceOnTop
<1>14. Reaches(f)
  BY <1>1, <1>8, <1>11, <1>13, ReachesWhen
<1>15. Reaches(o)
  BY <1>1, <1>10, <1>11, <1>13, ReachesWhen
<1>16. QED
  BY <1>1, <1>2, <1>4, <1>7, <1>8, <1>10, <1>12, <1>14, <1>15

LEMMA Strides ==
  ASSUME TypeOK, [Next]_vars
  PROVE  \/ Still
         \/ Turn /\ ((Executes /\ (Walks \/ Parts)) \/ Reports)
<1>1. /\ worklist \in Seq(State) /\ insn_map \in Programs
      /\ running \in BOOLEAN /\ aborted \in BOOLEAN
      /\ Ins.address + Ins.size = FallThrough
  BY DEF TypeOK, FallThrough
<1>2. CASE UNCHANGED vars \/ Finish \/ Terminated \/ Abort
  BY <1>1, <1>2 DEF Still, vars, Finish, Terminated, Abort
<1>3. CASE DepthExceeded
  <2>1. Turn /\ worklist # << >> /\ Report(Top, stats)
    BY <1>3 DEF DepthExceeded, Iterating, MayIterate, Turn
  <2>2. Top.depth > MaxDepth
    BY <1>3 DEF DepthExceeded, TooDeep
  <2>3. QED
    BY <2>1, <2>2, EndsBeforeWhen
<1>4. CASE LeaveCode
  <2>1. Turn /\ worklist # << >> /\ Report(Top, stats)
    BY <1>4 DEF LeaveCode, Stepping, Iterating, MayIterate, Turn
  <2>2. QED
    BY <1>4, <2>1, EndsBeforeWhen DEF LeaveCode
<1>5. CASE Return
  <2>1. Fetching("ret") /\ Top.callstack # << >> /\ Ins.kind = "ret"
    BY <1>5 DEF Return, Fetching, AtInstruction
  <2>2. /\ Visited \in State /\ Top \in State /\ Visited.callstack = Top.callstack
        /\ Visited.pcm = Top.pcm /\ Visited.depth = Top.depth
        /\ Visited.data = Top.data
    BY <2>1, FetchFacts
  <2>3. PICK st : /\ Resume(st, Counted)
                  /\ st = [Visited EXCEPT
                             !.pc = Top.callstack[Len(Top.callstack)],
                             !.callstack = SubSeq(Top.callstack, 1,
                                                  Len(Top.callstack) - 1)]
    BY <1>5, <2>2 DEF Return
  <2>4. /\ Top.callstack[Len(Top.callstack)] \in Nat
        /\ SubSeq(Top.callstack, 1, Len(Top.callstack) - 1) \in Seq(Nat)
        /\ Top.callstack \in Seq(Nat)
    <3>1. Top.callstack \in Seq(Nat)
      BY <2>2 DEF State
    <3>2. Len(Top.callstack) \in Nat \ {0}
      BY <2>1, <3>1, EmptySeq, LenProperties
    <3>3. PICK n \in Nat : Len(Top.callstack) = n + 1 /\ n = Len(Top.callstack) - 1
      <4>1. /\ Len(Top.callstack) - 1 \in Nat
            /\ Len(Top.callstack) = (Len(Top.callstack) - 1) + 1
        BY <3>2
      <4>2. QED
        BY <4>1
    <3>4. QED
      BY <3>1, <3>3, FrontProperties
  <2>5. /\ st \in State /\ st.pcm = Top.pcm /\ st.trace = Visited.trace
        /\ st.pc = Top.callstack[Len(Top.callstack)] /\ st.data = Top.data
        /\ st.callstack = SubSeq(Top.callstack, 1, Len(Top.callstack) - 1)
        /\ st.depth = Top.depth
    BY <2>2, <2>3, <2>4 DEF State
  <2>6. /\ Reversed(Top.callstack) # << >>
        /\ Head(Reversed(Top.callstack)) = st.pc
        /\ Tail(Reversed(Top.callstack)) = Reversed(st.callstack)
    BY <2>1, <2>4, <2>5, ReversedPop
  <2>7. \A v : Advance(insn_map, Config(Top), v)
                 = At(st.pc, st.data, Reversed(st.callstack), st.depth)
    BY <1>1, <2>1, <2>5, <2>6, AdvanceFacts
  <2>8. Reaches(st) /\ Executes /\ Turn
    BY <2>1, <2>5, <2>7, ReachesWhen
  <2>9. QED
    BY <2>3, <2>5, <2>8 DEF Walks, Resume
<1>6. CASE ReturnFromEntry
  <2>1. /\ Fetching("ret") /\ Report(Visited, Counted) /\ Ins.kind = "ret"
        /\ Top.callstack = << >>
    BY <1>6 DEF ReturnFromEntry, Fetching, AtInstruction
  <2>2. Reversed(Top.callstack) = << >>
    BY <2>1, FetchFacts, ReversedEmpty DEF State
  <2>3. QED
    BY <2>1, <2>2, AdvanceOnTop, HaltedIs, ConcludesWhen
<1>7. CASE Jump
  <2>1. Fetching("jmp") /\ Ins.kind = "jmp" /\ Ins.target # NoTarget
    BY <1>7 DEF Jump, Fetching, AtInstruction
  <2>2. PICK st : /\ Resume(st, Counted)
                  /\ st = [Visited EXCEPT !.pc = Ins.target]
    BY <1>7 DEF Jump
  <2>3. /\ Visited \in State /\ Ins.target \in Nat
        /\ Visited.callstack = Top.callstack /\ Visited.pcm = Top.pcm
        /\ Visited.depth = Top.depth /\ Visited.data = Top.data
    BY <2>1, FetchFacts DEF Instruction
  <2>4. /\ st \in State /\ st.pcm = Top.pcm /\ st.trace = Visited.trace
        /\ st.pc = Ins.target /\ st.data = Top.data
        /\ st.callstack = Top.callstack /\ st.depth = Top.depth
    BY <2>2, <2>3 DEF State
  <2>5. Reaches(st) /\ Executes /\ Turn
    BY <1>1, <2>1, <2>4, AdvanceFacts, ReachesWhen
  <2>6. QED
    BY <2>2, <2>4, <2>5 DEF Walks, Resume
<1>8. CASE JumpIndirect
  <2>1. /\ Fetching("jmp") /\ Report(Visited, Counted) /\ Ins.kind = "jmp"
        /\ Ins.target = NoTarget
    BY <1>8 DEF JumpIndirect, Fetching, AtInstruction
  <2>2. QED
    BY <2>1, AdvanceOnTop, HaltedIs, ConcludesWhen
<1>9. CASE Call
  <2>1. Fetching("call") /\ Ins.kind = "call" /\ InternalCall
    BY <1>9 DEF Call, Fetching, AtInstruction
  <2>2. /\ Visited \in State /\ Top \in State
        /\ Ins.target \in Nat /\ FallThrough \in Nat
        /\ Visited.callstack = Top.callstack /\ Visited.pcm = Top.pcm
        /\ Visited.depth = Top.depth /\ Visited.data = Top.data
    BY <2>1, FetchFacts DEF Instruction
  <2>3. PICK st : /\ Resume(st, Counted)
                  /\ st = [Visited EXCEPT !.pc = Ins.target,
                             !.callstack = Append(Top.callstack, FallThrough)]
    BY <1>9, <2>2 DEF Call
  <2>4. /\ Append(Top.callstack, FallThrough) \in Seq(Nat)
        /\ Top.callstack \in Seq(Nat)
    BY <2>2, AppendProperties DEF State
  <2>5. /\ st \in State /\ st.pcm = Top.pcm /\ st.trace = Visited.trace
        /\ st.pc = Ins.target /\ st.data = Top.data
        /\ st.callstack = Append(Top.callstack, FallThrough)
        /\ st.depth = Top.depth
    BY <2>2, <2>3, <2>4 DEF State
  <2>6. Reversed(st.callstack) = <<FallThrough>> \o Reversed(Top.callstack)
    BY <2>2, <2>4, <2>5, ReversedPush
  <2>7. Reaches(st) /\ Executes /\ Turn
    BY <1>1, <2>1, <2>5, <2>6, AdvanceFacts, ReachesWhen
  <2>8. QED
    BY <2>3, <2>5, <2>7 DEF Walks, Resume
<1>10. CASE CallSkipped
  <2>1. Fetching("call") /\ Ins.kind = "call" /\ ~InternalCall
    BY <1>10 DEF CallSkipped, Fetching, AtInstruction
  <2>2. PICK st : /\ Resume(st, Counted)
                  /\ st = [Visited EXCEPT !.pc = FallThrough]
    BY <1>10 DEF CallSkipped
  <2>3. /\ Visited \in State /\ FallThrough \in Nat
        /\ Visited.callstack = Top.callstack /\ Visited.pcm = Top.pcm
        /\ Visited.depth = Top.depth /\ Visited.data = Top.data
    BY <2>1, FetchFacts
  <2>4. /\ st \in State /\ st.pcm = Top.pcm /\ st.trace = Visited.trace
        /\ st.pc = FallThrough /\ st.data = Top.data
        /\ st.callstack = Top.callstack /\ st.depth = Top.depth
    BY <2>2, <2>3 DEF State
  <2>5. Reaches(st) /\ Executes /\ Turn
    BY <1>1, <2>1, <2>4, AdvanceFacts, ReachesWhen
  <2>6. QED
    BY <2>2, <2>4, <2>5 DEF Walks, Resume
<1>11. CASE BranchIndirect
  <2>1. /\ Fetching("jcc") /\ Ins.kind = "jcc" /\ Ins.target = NoTarget
        /\ Report(Visited, [Counted EXCEPT !.branches = @ + 1])
    BY <1>11 DEF BranchIndirect, Fetching, AtInstruction
  <2>2. QED
    BY <2>1, AdvanceOnTop, HaltedIs, ConcludesWhen
<1>12. CASE Fork
  <2>1. PICK st, other :
          /\ st = Branched(CondTrue, Ins.target) /\ other = Other
          /\ worklist' = Below \o <<other, st>>
    BY <1>12 DEF Fork
  <2>2. Branching /\ UNCHANGED tests
    BY <1>12 DEF Fork
  <2>3. /\ st \in State /\ other \in State /\ Reaches(st) /\ Reaches(other)
        /\ st.pc = Ins.target /\ other.pc = FallThrough
        /\ Executes /\ Turn /\ Ins.kind = "jcc"
    BY <2>1, <2>2, SideReaches
  <2>4. QED
    BY <2>1, <2>2, <2>3 DEF Parts
<1>13. CASE TakeTarget
  <2>1. PICK c : Resume(Branched(CondTrue, Ins.target), c)
    BY <1>13 DEF TakeTarget
  <2>2. Branching
    BY <1>13 DEF TakeTarget
  <2>3. QED
    BY <2>1, <2>2, SideReaches DEF Walks, Resume
<1>14. CASE TakeFallThrough
  <2>1. Branching /\ Resume(Branched(CondFalse, FallThrough), Queried(1))
    BY <1>14 DEF TakeFallThrough
  <2>2. QED
    BY <2>1, SideReaches DEF Walks, Resume
<1>15. CASE DeadEnd
  <2>1. /\ Fetching("jcc") /\ Branching /\ FALSE \in Verdicts(CondFalse)
        /\ FALSE \in Verdicts(CondTrue) /\ Report(Visited, Queried(0))
        /\ Ins.kind = "jcc" /\ Ins.target # NoTarget
    BY <1>15 DEF DeadEnd, Branching, Fetching, AtInstruction
  <2>2. SolverComplete => Top.pcm = {}
    <3>1. SolverComplete => CondTrue = {} /\ CondFalse = {}
      BY <2>1, VerdictsFacts
    <3>2. QED
      BY <2>1, <3>1, Sides
  <2>3. \A v : Advance(insn_map, Config(Top), v).path
                 = Append(Top.trace, Top.pc)
    BY <2>1, AdvanceOnTop DEF At
  <2>4. QED
    BY <2>1, <2>2, <2>3, ConcludesWhen
<1>16. CASE NonBranch
  <2>1. Fetching("op") /\ Ins.kind = "op"
    BY <1>16 DEF NonBranch, Fetching, AtInstruction
  <2>2. /\ Visited \in State /\ FallThrough \in Nat /\ Ins.op \in Ops
        /\ Visited.callstack = Top.callstack /\ Visited.pcm = Top.pcm
        /\ Visited.depth = Top.depth /\ Visited.data = Top.data
    BY <2>1, FetchFacts DEF Instruction
  <2>3. PICK st : /\ Resume(st, Counted)
                  /\ st = [Visited EXCEPT
                             !.data = ExecData(Top.data, Ins.op),
                             !.pc = FallThrough]
    BY <1>16, <2>2 DEF NonBranch
  <2>4. ExecData(Top.data, Ins.op) \in Data
    BY <2>2, DataAssumption DEF State
  <2>5. /\ st \in State /\ st.pcm = Top.pcm /\ st.trace = Visited.trace
        /\ st.pc = FallThrough /\ st.data = ExecData(Top.data, Ins.op)
        /\ st.callstack = Top.callstack /\ st.depth = Top.depth
    BY <2>2, <2>3, <2>4 DEF State
  <2>6. Reaches(st) /\ Executes /\ Turn
    BY <1>1, <2>1, <2>5, AdvanceFacts, ReachesWhen
  <2>7. QED
    BY <2>3, <2>5, <2>6 DEF Walks, Resume
<1>17. QED
  BY <1>2, <1>3, <1>4, <1>5, <1>6, <1>7, <1>8, <1>9, <1>10, <1>11, <1>12,
     <1>13, <1>14, <1>15, <1>16 DEF Next

(* A state on the new worklist waited there before, or is the outcome of   *)
(* the step.                                                               *)
LEMMA NewStates ==
  ASSUME TypeOK, Turn, (Executes /\ (Walks \/ Parts)) \/ Reports,
         NEW i \in 1 .. Len(worklist')
  PROVE  \/ i \in 1 .. Len(worklist) - 1 /\ worklist'[i] = worklist[i]
         \/ Executes /\ Reaches(worklist'[i])
<1>1. worklist \in Seq(State) /\ worklist # << >>
  BY DEF TypeOK, Turn
<1>2. Len(worklist) \in Nat \ {0}
  BY <1>1, StackType
<1>3. CASE Executes /\ Walks
  <2>1. PICK st \in State : Reaches(st) /\ worklist' = Append(Below, st)
    BY <1>3 DEF Walks
  <2>2. /\ Len(worklist') = Len(worklist)
        /\ \A j \in 1 .. Len(worklist) - 1 : worklist'[j] = worklist[j]
        /\ worklist'[Len(worklist)] = st
    BY <1>1, <2>1, GoesOnAt
  <2>3. QED
    BY <1>2, <1>3, <2>1, <2>2
<1>4. CASE Executes /\ Parts
  <2>1. PICK st \in State, other \in State :
          /\ Reaches(st) /\ Reaches(other)
          /\ worklist' = Below \o <<other, st>>
    BY <1>4 DEF Parts
  <2>2. /\ Len(worklist') = Len(worklist) + 1
        /\ \A j \in 1 .. Len(worklist) - 1 : worklist'[j] = worklist[j]
        /\ worklist'[Len(worklist)] = other
        /\ worklist'[Len(worklist) + 1] = st
    BY <1>1, <2>1, SplitsAt
  <2>3. QED
    BY <1>2, <1>4, <2>1, <2>2
<1>5. CASE Reports
  BY <1>1, <1>2, <1>5, EndsAt DEF Reports
<1>6. QED
  BY <1>3, <1>4, <1>5

(* A test case was there before, or stands for the top state.              *)
LEMMA NewTests ==
  ASSUME TypeOK, Turn, (Executes /\ (Walks \/ Parts)) \/ Reports,
         NEW i \in 1 .. Len(tests')
  PROVE  \/ i \in 1 .. Len(tests) /\ tests'[i] = tests[i]
         \/ Concludes(tests'[i]) /\ (EndsBefore(tests'[i]) \/ Executes)
<1>1. CASE UNCHANGED tests
  BY <1>1
<1>2. CASE Reports
  <2>1. PICK t \in Test : /\ Concludes(t) /\ tests' = Append(tests, t)
                          /\ EndsBefore(t) \/ Executes
    BY <1>2 DEF Reports
  <2>2. /\ Len(tests') = Len(tests) + 1 /\ Len(tests) \in Nat
        /\ \A j \in 1 .. Len(tests) : tests'[j] = tests[j]
        /\ tests'[Len(tests) + 1] = t
    BY <2>1, AppendAt, LenProperties DEF TypeOK
  <2>3. i \in 1 .. Len(tests) \/ i = Len(tests) + 1
    BY <2>2
  <2>4. QED
    BY <2>1, <2>2, <2>3
<1>3. QED
  BY <1>1, <1>2 DEF Walks, Parts

LEMMA TopIsPending ==
  ASSUME TypeOK, worklist # << >>
  PROVE  Len(worklist) \in Pending /\ Top = worklist[Len(worklist)] /\ Top \in State
BY StackType DEF TypeOK, Pending, Top

-----------------------------------------------------------------------------
(* The paths are runs of the machine.                                      *)

Replays(st) ==
  /\ Len(st.trace) <= steps
  /\ \A v \in st.pcm : Run(insn_map, v)[Len(st.trace)] = Config(st)
ReplayInv == \A i \in Pending : Replays(worklist[i])

LEMMA ReplayInit == ASSUME Init PROVE ReplayInv
<1>1. Pending = {1} /\ worklist[1] = InitialState /\ steps = 0
  BY DEF Init, Pending
<1>2. Reversed(<< >>) = << >>
  <2>1. << >> \in Seq(Nat)
    OBVIOUS
  <2>2. QED
    BY <2>1, ReversedEmpty
<1>3. Config(InitialState) = Reset
  BY <1>2 DEF Config, InitialState, Reset
<1>4. Len(InitialState.trace) = 0
  BY DEF InitialState
<1>5. Replays(InitialState)
  BY <1>1, <1>3, <1>4, RunStart DEF Replays
<1>6. QED
  BY <1>1, <1>5 DEF ReplayInv

(* The machine after the instruction of the top state.                     *)
LEMMA TopAdvances ==
  ASSUME TypeOK, ReplayInv, Turn, Executes
  PROVE  /\ Len(Append(Top.trace, Top.pc)) = Len(Top.trace) + 1
         /\ Len(Top.trace) + 1 <= steps'
         /\ \A v \in Top.pcm : Run(insn_map, v)[Len(Top.trace) + 1]
                               = Advance(insn_map, Config(Top), v)
<1>1. Top \in State /\ Replays(Top)
  BY TopIsPending DEF ReplayInv, Turn
<1>2. PICK n \in Nat : n = Len(Top.trace)
  BY <1>1 DEF State
<1>3. n <= steps /\ steps \in Nat /\ n < MaxSteps
  BY <1>1, <1>2, LimitsAssumption DEF Replays, TypeOK, Turn
<1>4. \A v \in Top.pcm : Run(insn_map, v)[n] = Config(Top)
  BY <1>1, <1>2 DEF Replays
<1>5. ~Stuck(insn_map, Config(Top))
  BY DEF Stuck, Config, Executes
<1>6. \A v \in Top.pcm :
        Run(insn_map, v)[n + 1] = Advance(insn_map, Config(Top), v)
  BY <1>3, <1>4, <1>5, RunTurn
<1>7. Len(Append(Top.trace, Top.pc)) = n + 1
  BY <1>1, <1>2 DEF State
<1>8. QED
  BY <1>2, <1>3, <1>6, <1>7 DEF Executes

LEMMA ReplayStep ==
  ASSUME TypeOK, ReplayInv, [Next]_vars PROVE ReplayInv'
<1>1. CASE Still
  BY <1>1 DEF Still, ReplayInv, Replays, Pending, Config
<1>2. CASE Turn /\ ((Executes /\ (Walks \/ Parts)) \/ Reports)
  <2>1. SUFFICES ASSUME NEW i \in 1 .. Len(worklist'),
                        NEW st, st = worklist'[i]
                 PROVE  /\ Len(st.trace) <= steps'
                        /\ \A v \in st.pcm :
                             Run(insn_map, v)[Len(st.trace)] = Config(st)
    BY <1>2 DEF ReplayInv, Replays, Pending, Config, Turn
  <2>2. CASE i \in 1 .. Len(worklist) - 1 /\ st = worklist[i]
    <3>1. i \in Pending /\ st \in State /\ steps \in Nat
      BY <1>2, <2>2, TopIsPending, ElementOfSeq DEF TypeOK, Pending, Turn
    <3>2. Replays(st) /\ Len(st.trace) \in Nat
      BY <2>2, <3>1 DEF ReplayInv, State
    <3>3. QED
      BY <1>2, <3>1, <3>2 DEF Replays, Turn
  <2>3. CASE Executes /\ Reaches(st)
    BY <1>2, <2>3, TopAdvances DEF Reaches
  <2>4. QED
    BY <1>2, <2>1, <2>2, <2>3, NewStates
<1>3. QED
  BY <1>1, <1>2, Strides

(* A state waiting to be stepped is the machine, part of the way, on every *)
(* input of its path condition: a fork copies the whole state, calls and   *)
(* returns keep the stack of the machine, and no constraint is wrong.      *)
THEOREM PendingReplay == Spec => []PendingStatesReplay
<1>1. Init => ReplayInv
  BY ReplayInit
<1>2. TypeOK /\ ReplayInv /\ [Next]_vars => ReplayInv'
  BY ReplayStep
<1>3. ReplayInv => PendingStatesReplay
  <2>1. SUFFICES ASSUME ReplayInv, NEW i \in Pending,
                        NEW v \in worklist[i].pcm, NEW c,
                        c = Run(insn_map, v)[Len(worklist[i].trace)]
                 PROVE  LET st == worklist[i]
                        IN  /\ c.path = st.trace /\ c.pc = st.pc
                            /\ c.data = st.data
                            /\ c.calls = Reversed(st.callstack)
                            /\ c.depth = st.depth /\ ~c.halted
    BY DEF PendingStatesReplay, RunOn
  <2>2. c = Config(worklist[i])
    BY <2>1 DEF ReplayInv, Replays
  <2>3. QED
    BY <2>2 DEF Config
<1>4. QED
  BY <1>1, <1>2, <1>3, TypeCorrect, PTL DEF Spec

LEMMA TestsReplayInit == ASSUME Init PROVE TestsReplay
BY DEF Init, TestsReplay, Reported

LEMMA TestsReplayStep ==
  ASSUME TypeOK, ReplayInv, AliveInv, DepthInv, TestsReplay, [Next]_vars
  PROVE  TestsReplay'
<1>1. CASE Still
  BY <1>1 DEF Still, TestsReplay, RunOn, Reported
<1>2. CASE Turn /\ ((Executes /\ (Walks \/ Parts)) \/ Reports)
  <2>1. SUFFICES ASSUME NEW i \in 1 .. Len(tests'), NEW t, t = tests'[i],
                        NEW v \in t.assignments
                 PROVE  LET c == Run(insn_map, v)[Len(t.path)]
                        IN  /\ v \in t.cond
                            /\ c.path = t.path
                            /\ SolverComplete =>
                                 Stuck(insn_map, c) \/ c.depth = MaxDepth + 1
    BY <1>2 DEF TestsReplay, RunOn, Reported, Turn
  <2>2. CASE i \in 1 .. Len(tests) /\ t = tests[i]
    BY <2>2 DEF TestsReplay, RunOn, Reported
  <2>3. CASE Concludes(t) /\ (EndsBefore(t) \/ Executes)
    <3>1. v \in Top.pcm /\ t.cond = Top.pcm
      BY <2>3 DEF Concludes
    <3>2. CASE EndsBefore(t)
      <4>1. /\ Replays(Top) /\ Top.depth <= MaxDepth + 1
            /\ Top.depth \in Nat /\ t.path = Top.trace
        BY <1>2, <3>2, TopIsPending
           DEF ReplayInv, DepthInv, DepthBounded, Turn, EndsBefore, State
      <4>2. Run(insn_map, v)[Len(t.path)] = Config(Top)
        BY <3>1, <4>1 DEF Replays
      <4>3. \/ Config(Top).depth = MaxDepth + 1
            \/ Config(Top).pc \notin DOMAIN insn_map
        BY <3>2, <4>1, LimitsAssumption DEF EndsBefore, Config
      <4>4. Config(Top).path = Top.trace
        BY DEF Config
      <4>5. QED
        BY <3>1, <4>1, <4>2, <4>3, <4>4 DEF Stuck
    <3>3. CASE EndsAfter(t) /\ Executes
      <4>1. /\ Len(t.path) = Len(Top.trace) + 1
            /\ Run(insn_map, v)[Len(Top.trace) + 1]
                 = Advance(insn_map, Config(Top), v)
        BY <1>2, <3>1, <3>3, TopAdvances DEF EndsAfter
      <4>2. QED
        BY <3>1, <3>3, <4>1 DEF EndsAfter, Stuck
    <3>4. QED
      BY <2>3, <3>2, <3>3 DEF Concludes
  <2>4. QED
    BY <1>2, <2>1, <2>2, <2>3, NewTests
<1>3. QED
  BY <1>1, <1>2, Strides

(* The assignment of a test case takes, on the program, the path of the    *)
(* test case, and the program stops there unless the depth limit cut the   *)
(* path off: what the engine reports can be reproduced.                    *)
THEOREM TestsReplayed == Spec => []TestsReplay
<1>1. Init => ReplayInv /\ DepthInv /\ TestsReplay
  BY ReplayInit, DepthInit, TestsReplayInit
<1>2. TypeOK /\ ReplayInv /\ [Next]_vars => ReplayInv'
  BY ReplayStep
<1>3. TypeOK /\ DepthInv /\ [Next]_vars => DepthInv'
  BY DepthStep
<1>4. TypeOK /\ ReplayInv /\ (AliveInv /\ ApartInv) /\ DepthInv
        /\ TestsReplay /\ [Next]_vars => TestsReplay'
  BY TestsReplayStep
<1>5. QED
  BY <1>1, <1>2, <1>3, <1>4, TypeCorrect, ApartHolds, PTL DEF Spec

-----------------------------------------------------------------------------
(* The paths are walks of the program: each address follows from the       *)
(* instruction before it, and returns go to the instruction after a call.  *)

ReturnSite(prog, b) ==
  \E c \in DOMAIN prog : prog[c].kind = "call" /\ b = c + prog[c].size

Flows(prog, a, b) ==
  LET ins == prog[a]
  IN  \/ ins.kind = "op" /\ b = a + ins.size
      \/ ins.kind = "jmp" /\ b = ins.target /\ b # 0
      \/ ins.kind \in {"jcc", "call"}
           /\ ((b = ins.target /\ b # 0) \/ b = a + ins.size)
      \/ ins.kind = "ret" /\ ReturnSite(prog, b)

InCode(prog, w) == \A k \in 1 .. Len(w) : w[k] \in DOMAIN prog
Walk(prog, w) ==
  \A k \in 1 .. Len(w) - 1 : w[k] \in DOMAIN prog /\ Flows(prog, w[k], w[k + 1])
Returns(prog, calls) == \A k \in 1 .. Len(calls) : ReturnSite(prog, calls[k])

OnCourse(prog, st) ==
  /\ Walk(prog, Append(st.trace, st.pc))
  /\ Returns(prog, Reversed(st.callstack))
WalkInv ==
  /\ \A i \in 1 .. Len(worklist) : OnCourse(insn_map, worklist[i])
  /\ \A i \in 1 .. Len(tests) : Walk(insn_map, tests[i].path) /\ InCode(insn_map, tests[i].path)

LEMMA WalkExtends ==
  ASSUME NEW prog, NEW s \in Seq(Nat), NEW a \in Nat, NEW b \in Nat,
         Walk(prog, Append(s, a)), a \in DOMAIN prog, Flows(prog, a, b)
  PROVE  Walk(prog, Append(Append(s, a), b))
<1>0. PICK n \in Nat : Len(s) = n
  OBVIOUS
<1>1. PICK p, q : Len(s) = n /\ p = Append(s, a) /\ q = Append(p, b)
  BY <1>0
<1>2. /\ p \in Seq(Nat) /\ Len(p) = n + 1 /\ p[n + 1] = a
  BY <1>1, AppendAt
<1>3. /\ Len(q) = n + 2 /\ q[n + 2] = b
      /\ \A k \in 1 .. n + 1 : q[k] = p[k]
  BY <1>1, <1>2, AppendAt
<1>4. ASSUME NEW k \in 1 .. n + 1
      PROVE  q[k] \in DOMAIN prog /\ Flows(prog, q[k], q[k + 1])
  <2>1. CASE k = n + 1
    BY <1>2, <1>3, <2>1
  <2>2. CASE k # n + 1
    <3>1. k \in 1 .. n /\ k \in 1 .. n + 1 /\ k + 1 \in 1 .. n + 1
      BY <2>2
    <3>2. p[k] \in DOMAIN prog /\ Flows(prog, p[k], p[k + 1])
      BY <1>1, <1>2, <3>1 DEF Walk
    <3>3. QED
      BY <1>3, <3>1, <3>2
  <2>3. QED
    BY <2>1, <2>2
<1>5. QED
  BY <1>1, <1>3, <1>4 DEF Walk

(* A walk without its last address stays in the code.                      *)
LEMMA WalkBefore ==
  ASSUME NEW prog, NEW s \in Seq(Nat), NEW a \in Nat, Walk(prog, Append(s, a))
  PROVE  /\ Walk(prog, s) /\ InCode(prog, s)
         /\ a \in DOMAIN prog => InCode(prog, Append(s, a))
<1>0. PICK n \in Nat : Len(s) = n
  OBVIOUS
<1>1. PICK p : Len(s) = n /\ p = Append(s, a)
  BY <1>0
<1>2. /\ Len(p) = n + 1 /\ p[n + 1] = a /\ \A k \in 1 .. n : p[k] = s[k]
  BY <1>1, AppendAt
<1>3. \A k \in 1 .. n : p[k] \in DOMAIN prog /\ Flows(prog, p[k], p[k + 1])
  BY <1>1, <1>2 DEF Walk
<1>4. InCode(prog, s)
  BY <1>1, <1>2, <1>3 DEF InCode
<1>5. ASSUME NEW k \in 1 .. n - 1
      PROVE  s[k] \in DOMAIN prog /\ Flows(prog, s[k], s[k + 1])
  <2>1. k \in 1 .. n /\ k + 1 \in 1 .. n
    OBVIOUS
  <2>2. QED
    BY <1>2, <1>3, <2>1
<1>6. \A k \in 1 .. n + 1 : k \in 1 .. n \/ k = n + 1
  OBVIOUS
<1>7. QED
  BY <1>1, <1>2, <1>3, <1>4, <1>5, <1>6 DEF Walk, InCode

LEMMA ReturnsPopPush ==
  ASSUME NEW prog, NEW calls \in Seq(Nat), Returns(prog, calls), NEW b \in Nat
  PROVE  /\ calls # << >> => ReturnSite(prog, Head(calls)) /\ Returns(prog, Tail(calls))
         /\ ReturnSite(prog, b) => Returns(prog, <<b>> \o calls)
<1>1. PICK n \in Nat : Len(calls) = n
  OBVIOUS
<1>2. ASSUME calls # << >>
      PROVE  ReturnSite(prog, Head(calls)) /\ Returns(prog, Tail(calls))
  <2>1. /\ Head(calls) = calls[1] /\ 1 \in 1 .. n
        /\ Len(Tail(calls)) = n - 1
        /\ \A k \in 1 .. n - 1 : Tail(calls)[k] = calls[k + 1] /\ k + 1 \in 1 .. n
    BY <1>1, <1>2
  <2>2. QED
    BY <1>1, <2>1 DEF Returns
<1>3. ASSUME ReturnSite(prog, b) PROVE Returns(prog, <<b>> \o calls)
  <2>1. PICK p : p = <<b>> \o calls
    OBVIOUS
  <2>2. /\ Len(p) = n + 1 /\ p[1] = b
        /\ \A k \in 1 .. n + 1 : k # 1 => p[k] = calls[k - 1] /\ k - 1 \in 1 .. n
    BY <1>1, <2>1
  <2>3. \A k \in 1 .. n + 1 : ReturnSite(prog, p[k])
    BY <1>1, <1>3, <2>2 DEF Returns
  <2>4. QED
    BY <2>1, <2>2, <2>3 DEF Returns
<1>4. QED
  BY <1>2, <1>3

(* What a step does to the address and to the return addresses.            *)
LEMMA FlowOfStep ==
  ASSUME TypeOK, Turn, Executes, NEW st, Reaches(st), st.pcm # {},
         Returns(insn_map, Reversed(Top.callstack))
  PROVE  Flows(insn_map, Top.pc, st.pc) /\ Returns(insn_map, Reversed(st.callstack))
<1>1. PICK v \in st.pcm : Advance(insn_map, Config(Top), v) = Config(st)
  BY DEF Reaches
<1>2. /\ Top \in State /\ insn_map \in Programs
  BY TopIsPending DEF TypeOK, Turn
<1>3. /\ Ins \in Instruction /\ FallThrough \in Nat /\ Ins.address = Top.pc
      /\ Ins = insn_map[Top.pc] /\ Ins.address + Ins.size = FallThrough
  BY <1>2, InsType, ProgramsAssumption DEF Executes, Ins, FallThrough
<1>4. PICK calls : calls = Reversed(Top.callstack)
  OBVIOUS
<1>5. calls \in Seq(Nat) /\ Returns(insn_map, calls)
  BY <1>2, <1>4, ReversedAt DEF State
<1>6. /\ insn_map[Top.pc] = Ins /\ Top.pc + Ins.size = FallThrough
      /\ Ins.kind \in Kinds
  BY <1>3 DEF Instruction
<1>7. Config(st) # Halted
  BY DEF Config, Halted, At
<1>8. ASSUME NEW pc, NEW data, NEW cs, NEW depth,
             Config(st) = At(pc, data, cs, depth)
      PROVE  st.pc = pc /\ Reversed(st.callstack) = cs
  BY <1>8 DEF Config, At
<1>9. CASE Ins.kind = "ret"
  <2>1. /\ calls # << >> /\ st.pc = Head(calls)
        /\ Reversed(st.callstack) = Tail(calls)
    <3>1. /\ calls # << >>
          /\ Config(st) = At(Head(calls), Top.data, Tail(calls), Top.depth)
      BY <1>1, <1>3, <1>4, <1>7, <1>9, AdvanceFacts
    <3>2. QED
      BY <1>8, <3>1
  <2>2. QED
    BY <1>3, <1>5, <1>6, <1>9, <2>1, ReturnsPopPush DEF Flows
<1>10. CASE Ins.kind = "jmp"
  <2>1. /\ Ins.target # 0 /\ st.pc = Ins.target
        /\ Reversed(st.callstack) = calls
    BY <1>1, <1>3, <1>4, <1>7, <1>8, <1>10, AdvanceFacts DEF NoTarget
  <2>2. QED
    BY <1>5, <1>6, <1>10, <2>1 DEF Flows
<1>11. CASE Ins.kind = "call" /\ InternalCall
  <2>1. /\ Ins.target # 0 /\ st.pc = Ins.target
        /\ Reversed(st.callstack) = <<FallThrough>> \o calls
    <3>1. Config(st) = At(Ins.target, Top.data, <<FallThrough>> \o calls,
                          Top.depth)
      BY <1>1, <1>3, <1>4, <1>11, AdvanceFacts
    <3>2. QED
      BY <1>8, <1>11, <3>1 DEF InternalCall, NoTarget
  <2>2. ReturnSite(insn_map, FallThrough)
    BY <1>6, <1>11 DEF ReturnSite, Executes
  <2>3. QED
    BY <1>3, <1>5, <1>6, <1>11, <2>1, <2>2, ReturnsPopPush DEF Flows
<1>12. CASE Ins.kind = "call" /\ ~InternalCall
  <2>1. st.pc = FallThrough /\ Reversed(st.callstack) = calls
    BY <1>1, <1>3, <1>4, <1>8, <1>12, AdvanceFacts
  <2>2. QED
    BY <1>5, <1>6, <1>12, <2>1 DEF Flows
<1>13. CASE Ins.kind = "jcc"
  <2>1. /\ Ins.target # 0 /\ st.pc \in {Ins.target, FallThrough}
        /\ Reversed(st.callstack) = calls
    BY <1>1, <1>3, <1>4, <1>7, <1>8, <1>13, AdvanceFacts DEF NoTarget
  <2>2. QED
    BY <1>5, <1>6, <1>13, <2>1 DEF Flows
<1>14. CASE Ins.kind = "op"
  <2>1. st.pc = FallThrough /\ Reversed(st.callstack) = calls
    BY <1>1, <1>3, <1>4, <1>8, <1>14, AdvanceFacts
  <2>2. QED
    BY <1>5, <1>6, <1>14, <2>1 DEF Flows
<1>15. QED
  BY <1>6, <1>9, <1>10, <1>11, <1>12, <1>13, <1>14 DEF Kinds

LEMMA WalkInit == ASSUME Init PROVE WalkInv
<1>1. /\ Len(worklist) = 1 /\ worklist[1] = InitialState /\ Len(tests) = 0
      /\ Entry \in Nat
  BY ProgramsAssumption DEF Init
<1>2. Walk(insn_map, Append(InitialState.trace, InitialState.pc))
  BY <1>1 DEF InitialState, Walk
<1>3. << >> \in Seq(Nat) /\ InitialState.callstack = << >>
  BY DEF InitialState
<1>4. Returns(insn_map, Reversed(InitialState.callstack))
  <2>1. Reversed(InitialState.callstack) = << >>
    BY <1>3, ReversedEmpty
  <2>2. QED
    BY <2>1 DEF Returns
<1>5. QED
  BY <1>1, <1>2, <1>4 DEF WalkInv, OnCourse

LEMMA WalkStep ==
  ASSUME TypeOK, WalkInv, AliveInv', [Next]_vars PROVE WalkInv'
<1>2. CASE Still
  BY <1>2 DEF Still, WalkInv
<1>3. CASE Turn /\ ((Executes /\ (Walks \/ Parts)) \/ Reports)
  <2>1. /\ Top \in State /\ OnCourse(insn_map, Top)
    BY <1>3, TopIsPending DEF WalkInv, Pending, Turn
  <2>2. /\ Top.trace \in Seq(Nat) /\ Top.pc \in Nat
        /\ Walk(insn_map, Append(Top.trace, Top.pc)) /\ Returns(insn_map, Reversed(Top.callstack))
    BY <2>1 DEF State, OnCourse
  <2>3. ASSUME NEW i \in 1 .. Len(worklist'), NEW st, st = worklist'[i]
        PROVE  OnCourse(insn_map, st)
    <3>1. CASE i \in 1 .. Len(worklist) - 1 /\ st = worklist[i]
      <4>1. i \in 1 .. Len(worklist)
        BY <1>3, <3>1, TopIsPending DEF Pending, Turn
      <4>2. QED
        BY <3>1, <4>1 DEF WalkInv
    <3>2. CASE Executes /\ Reaches(st)
      <4>1. st.pcm # {} /\ st.pc \in Nat
        BY <2>3, <3>2 DEF AliveInv, Reaches, State
      <4>2. Flows(insn_map, Top.pc, st.pc) /\ Returns(insn_map, Reversed(st.callstack))
        BY <1>3, <2>2, <3>2, <4>1, FlowOfStep
      <4>3. Walk(insn_map, Append(st.trace, st.pc))
        BY <2>2, <3>2, <4>1, <4>2, WalkExtends DEF Reaches, Executes
      <4>4. QED
        BY <4>2, <4>3 DEF OnCourse
    <3>3. QED
      BY <1>3, <2>3, <3>1, <3>2, NewStates
  <2>4. ASSUME NEW i \in 1 .. Len(tests'), NEW t, t = tests'[i]
        PROVE  Walk(insn_map, t.path) /\ InCode(insn_map, t.path)
    <3>1. CASE i \in 1 .. Len(tests) /\ t = tests[i]
      BY <3>1 DEF WalkInv
    <3>2. CASE Concludes(t) /\ (EndsBefore(t) \/ Executes)
      <4>1. /\ Walk(insn_map, Top.trace) /\ InCode(insn_map, Top.trace)
            /\ Executes => InCode(insn_map, Append(Top.trace, Top.pc))
        BY <2>2, WalkBefore DEF Executes
      <4>2. \/ t.path = Top.trace
            \/ Executes /\ t.path = Append(Top.trace, Top.pc)
        BY <3>2 DEF Concludes, EndsBefore, EndsAfter
      <4>3. QED
        BY <2>2, <4>1, <4>2
    <3>3. QED
      BY <1>3, <2>4, <3>1, <3>2, NewTests
  <2>5. insn_map' = insn_map
    BY <1>3 DEF Turn
  <2>6. QED
    BY <2>3, <2>4, <2>5 DEF WalkInv
<1>4. QED
  BY <1>2, <1>3, Strides

LEMMA WalkHolds == Spec => []WalkInv
<1>1. Init => WalkInv
  BY WalkInit
<1>2. TypeOK /\ WalkInv /\ (AliveInv /\ ApartInv)' /\ [Next]_vars => WalkInv'
  BY WalkStep
<1>3. QED
  BY <1>1, <1>2, TypeCorrect, ApartHolds, PTL DEF Spec

(* A transfer of control on a path is one of the program, between two of   *)
(* its instructions.                                                       *)
LEMMA TransfersFlow ==
  ASSUME TypeOK, WalkInv, NEW t \in Transfers
  PROVE  /\ t[1] \in DOMAIN insn_map /\ t[2] \in DOMAIN insn_map
         /\ Flows(insn_map, t[1], t[2])
<1>0. PICK p \in Paths : \E k \in 1 .. Len(p) - 1 : t = <<p[k], p[k + 1]>>
  BY DEF Transfers
<1>1. PICK k \in 1 .. Len(p) - 1 : t = <<p[k], p[k + 1]>>
  BY <1>0
<1>2. Walk(insn_map, p) /\ InCode(insn_map, p) /\ Len(p) \in Nat
  <2>1. CASE \E i \in Reported : p = tests[i].path
    <3>1. PICK i \in Reported : p = tests[i].path
      BY <2>1
    <3>2. tests[i] \in Test
      BY <3>1, ElementOfSeq DEF TypeOK, Reported
    <3>3. QED
      BY <3>1, <3>2, LenProperties DEF WalkInv, Reported, Test
  <2>2. CASE \E i \in Pending :
               p = IF worklist[i].pc \in DOMAIN insn_map
                   THEN Append(worklist[i].trace, worklist[i].pc)
                   ELSE worklist[i].trace
    <3>1. PICK i \in Pending :
            p = IF worklist[i].pc \in DOMAIN insn_map
                THEN Append(worklist[i].trace, worklist[i].pc)
                ELSE worklist[i].trace
      BY <2>2
    <3>2. PICK st \in State : st = worklist[i]
      BY <3>1, ElementOfSeq DEF TypeOK, Pending
    <3>3. /\ st.trace \in Seq(Nat) /\ st.pc \in Nat
          /\ Walk(insn_map, Append(st.trace, st.pc))
      BY <3>1, <3>2 DEF WalkInv, OnCourse, Pending, State
    <3>4. /\ Walk(insn_map, st.trace) /\ InCode(insn_map, st.trace)
          /\ st.pc \in DOMAIN insn_map
               => InCode(insn_map, Append(st.trace, st.pc))
      BY <3>3, WalkBefore
    <3>5. p \in Seq(Nat)
      BY <3>1, <3>2, <3>3, AppendAt
    <3>6. QED
      BY <3>1, <3>2, <3>3, <3>4, <3>5, LenProperties
  <2>3. QED
    BY <2>1, <2>2 DEF Paths
<1>3. k \in 1 .. Len(p) /\ k + 1 \in 1 .. Len(p)
  BY <1>1, <1>2
<1>4. QED
  BY <1>1, <1>2, <1>3 DEF Walk, InCode

(* The targets of jumps, branches and calls start a block, and so does the *)
(* instruction after a branch or a call.                                   *)
LEMMA StartsAre ==
  ASSUME NEW b \in DOMAIN insn_map, NEW a \in DOMAIN insn_map,
         insn_map[a].kind \in {"jmp", "jcc", "call"},
         \/ b = insn_map[a].target /\ b # 0
         \/ insn_map[a].kind # "jmp" /\ b = a + insn_map[a].size
  PROVE  b \in Graph!Starts
<1>1. CASE b = insn_map[a].target /\ b # 0
  <2>1. b \in Graph!Targets(a) /\ a \in Graph!Of({"jmp", "jcc", "call"})
    BY <1>1 DEF Graph!Targets, Graph!Of, Graph!Addresses
  <2>2. b \in UNION {Graph!Targets(c) : c \in Graph!Of({"jmp", "jcc", "call"})}
    BY <2>1
  <2>3. QED
    BY <2>2 DEF Graph!Starts, Graph!leaders, Graph!Addresses
<1>2. CASE insn_map[a].kind # "jmp" /\ b = a + insn_map[a].size
  <2>1. b = Graph!After(a) /\ a \in Graph!Of({"jcc", "call"})
    BY <1>2 DEF Graph!After, Graph!Of, Graph!Addresses
  <2>2. b \in {Graph!After(c) : c \in Graph!Of({"jcc", "call"})}
    BY <2>1
  <2>3. QED
    BY <2>2 DEF Graph!Starts, Graph!leaders, Graph!Addresses
<1>3. QED
  BY <1>1, <1>2

(* Every transfer a path makes, that is not from an instruction to the     *)
(* next, goes to the start of a block of the graph main() draws.           *)
THEOREM BlocksEntered == Spec => []BlocksEnteredAtStart
<1>1. TypeOK /\ WalkInv => BlocksEnteredAtStart
  <2>1. SUFFICES ASSUME TypeOK, WalkInv, NEW t \in Transfers,
                        Kind(t[1]) # "op"
                 PROVE  t[2] \in Graph!Starts
    BY DEF BlocksEnteredAtStart
  <2>2. PICK a, b : a = t[1] /\ b = t[2]
    OBVIOUS
  <2>3. /\ a \in DOMAIN insn_map /\ b \in DOMAIN insn_map
        /\ Flows(insn_map, a, b) /\ insn_map[a].kind # "op"
    BY <2>1, <2>2, TransfersFlow DEF Kind
  <2>4. CASE insn_map[a].kind = "ret" /\ ReturnSite(insn_map, b)
    BY <2>2, <2>3, <2>4, StartsAre DEF ReturnSite
  <2>5. CASE insn_map[a].kind \in {"jmp", "jcc", "call"}
    BY <2>2, <2>3, <2>5, StartsAre DEF Flows
  <2>6. QED
    BY <2>3, <2>4, <2>5 DEF Flows
<1>2. QED
  BY <1>1, WalkHolds, TypeCorrect, PTL

-----------------------------------------------------------------------------
(* The control flow graph.                                                 *)

LEMMA MaxWithin ==
  ASSUME NEW T \in SUBSET Nat, T # {}, NEW b \in Nat, \A y \in T : y <= b
  PROVE  Graph!Max(T) \in T /\ \A y \in T : y <= Graph!Max(T)
<1>1. PICK x \in T : \A y \in T : y <= x
  BY LargestExists
<1>2. x \in T /\ \A y \in T : x >= y
  BY <1>1
<1>3. \E z \in T : \A y \in T : z >= y
  BY <1>2
<1>4. Graph!Max(T) \in T /\ \A y \in T : Graph!Max(T) >= y
  BY <1>3 DEF Graph!Max
<1>5. QED
  BY <1>4

(* The instructions next to one another.                                   *)
LEMMA CodeFacts ==
  ASSUME TypeOK, NEW a \in DOMAIN insn_map
  PROVE  /\ a \in Nat /\ insn_map[a] \in Instruction
         /\ insn_map[a].size \in Nat /\ insn_map[a].size > 0
         /\ a + insn_map[a].size \in Nat
         /\ \A x \in DOMAIN insn_map :
              x > a => /\ x >= a + insn_map[a].size
                       /\ a + insn_map[a].size \in DOMAIN insn_map
<1>1. insn_map \in Programs
  BY DEF TypeOK
<1>2. a \in Nat /\ insn_map[a] \in Instruction
  BY <1>1, ProgramsAssumption
<1>3. QED
  BY <1>1, <1>2, SweepAssumption DEF Instruction

LEMMA CodeBounded ==
  ASSUME TypeOK
  PROVE  /\ DOMAIN insn_map \in SUBSET Nat
         /\ \E b \in Nat : \A a \in DOMAIN insn_map : a <= b
<1>1. insn_map \in Programs
  BY DEF TypeOK
<1>2. DOMAIN insn_map \in SUBSET Nat /\ IsFiniteSet(DOMAIN insn_map)
  BY <1>1, ProgramsAssumption, SweepAssumption
<1>3. QED
  BY <1>2, FiniteIsBounded

(* The block of an instruction starts at or before it, and no block starts *)
(* in between.                                                             *)
LEMMA BlockFacts ==
  ASSUME TypeOK, NEW a \in DOMAIN insn_map
  PROVE  /\ Graph!BlockOf(a) \in Graph!Starts
         /\ Graph!BlockOf(a) \in DOMAIN insn_map
         /\ Graph!BlockOf(a) \in Nat /\ Graph!BlockOf(a) <= a
         /\ \A s \in Graph!Starts : s <= a => s <= Graph!BlockOf(a)
<1>1. /\ DOMAIN insn_map \in SUBSET Nat /\ a \in Nat
      /\ Graph!Starts \subseteq DOMAIN insn_map
  BY CodeBounded DEF Graph!Starts, Graph!Addresses
<1>2. PICK T : T = {s \in Graph!Starts : s <= a}
  OBVIOUS
<1>3. T \in SUBSET Nat /\ \A y \in T : y <= a
  BY <1>1, <1>2
<1>4. T # {}
  <2>1. PICK x \in DOMAIN insn_map : \A y \in DOMAIN insn_map : x <= y
    BY <1>1, LeastExists
  <2>2. /\ Graph!Min(DOMAIN insn_map) \in DOMAIN insn_map
        /\ \A y \in DOMAIN insn_map : Graph!Min(DOMAIN insn_map) <= y
    BY <2>1 DEF Graph!Min
  <2>3. Graph!Min(DOMAIN insn_map) \in Graph!Starts
    BY <2>2 DEF Graph!Starts, Graph!leaders, Graph!Addresses
  <2>4. QED
    BY <1>2, <2>2, <2>3
<1>5. Graph!Max(T) \in T /\ \A y \in T : y <= Graph!Max(T)
  BY <1>1, <1>3, <1>4, MaxWithin
<1>6. Graph!BlockOf(a) = Graph!Max(T)
  BY <1>2 DEF Graph!BlockOf
<1>7. QED
  BY <1>1, <1>2, <1>5, <1>6

LEMMA BlockOfStart ==
  ASSUME TypeOK, NEW s \in Graph!Starts
  PROVE  /\ Graph!BlockOf(s) = s /\ s \in DOMAIN insn_map /\ s \in Nat
<1>1. s \in DOMAIN insn_map /\ s \in Nat
  BY CodeFacts DEF Graph!Starts, Graph!Addresses
<1>2. QED
  BY <1>1, BlockFacts

LEMMA LastFacts ==
  ASSUME TypeOK, NEW s \in Graph!Starts
  PROVE  /\ Graph!LastOf(s) \in DOMAIN insn_map
         /\ Graph!BlockOf(Graph!LastOf(s)) = s
         /\ \A x \in DOMAIN insn_map :
              Graph!BlockOf(x) = s => x <= Graph!LastOf(s)
<1>1. PICK T : T = {x \in DOMAIN insn_map : Graph!BlockOf(x) = s}
  OBVIOUS
<1>2. s \in T
  BY <1>1, BlockOfStart
<1>3. PICK b \in Nat : \A x \in T : x <= b
  BY <1>1, CodeBounded
<1>4. T \in SUBSET Nat
  BY <1>1, CodeBounded
<1>5. Graph!Max(T) \in T /\ \A y \in T : y <= Graph!Max(T)
  BY <1>2, <1>3, <1>4, MaxWithin
<1>6. Graph!LastOf(s) = Graph!Max(T)
  BY <1>1 DEF Graph!LastOf, Graph!Addresses
<1>7. QED
  BY <1>1, <1>5, <1>6

(* The builder finds the block that starts at an address.                  *)
LEMMA FoundAtStart ==
  ASSUME TypeOK, NEW b \in Graph!Starts
  PROVE  Graph!find_block_start(b) = b
<1>1. Graph!BlockOf(b) = b /\ b \in DOMAIN insn_map /\ b \in Nat
  BY BlockOfStart
<1>2. PICK z \in DOMAIN insn_map : z = Graph!LastOf(b)
  BY LastFacts
<1>3. b <= z
  BY <1>1, <1>2, LastFacts
<1>4. b < Graph!After(z)
  <2>1. z \in Nat /\ insn_map[z].size \in Nat /\ insn_map[z].size > 0
    BY CodeFacts
  <2>2. QED
    BY <1>1, <1>3, <2>1 DEF Graph!After
<1>5. \E s \in Graph!Starts : s <= b /\ b < Graph!After(Graph!LastOf(s))
  BY <1>1, <1>2, <1>4
<1>6. QED
  BY <1>1, <1>5 DEF Graph!find_block_start

(* A block ends where the next one starts, or the code does.               *)
LEMMA EndsWhere ==
  ASSUME TypeOK, NEW a \in DOMAIN insn_map, NEW b, b = Graph!After(a)
  PROVE  /\ b \in Graph!Starts \/ b \notin DOMAIN insn_map => EndsBlock(a)
         /\ EndsBlock(a) /\ b \in DOMAIN insn_map => b \in Graph!Starts
<1>1. /\ a \in Nat /\ b \in Nat /\ a < b
      /\ \A x \in DOMAIN insn_map : x > a => x >= b /\ b \in DOMAIN insn_map
  BY CodeFacts DEF Graph!After
<1>2. PICK s \in Graph!Starts : s = Graph!BlockOf(a)
  BY BlockFacts
<1>3. s \in Nat /\ s <= a
  BY <1>2, BlockFacts
<1>4. PICK z \in DOMAIN insn_map : z = Graph!LastOf(s)
  BY LastFacts
<1>5. z \in Nat /\ a <= z /\ Graph!BlockOf(z) = s
  BY <1>2, <1>4, LastFacts, CodeFacts
<1>6. ASSUME b \in Graph!Starts \/ b \notin DOMAIN insn_map PROVE a = z
  <2>1. CASE z <= a
    BY <1>1, <1>5, <2>1
  <2>2. CASE z > a
    <3>1. z >= b /\ b \in Graph!Starts
      BY <1>1, <1>4, <1>6, <2>2
    <3>2. b <= s
      BY <1>1, <1>5, <3>1, BlockFacts
    <3>3. QED
      BY <1>1, <1>3, <3>2
  <2>3. QED
    BY <1>1, <1>5, <2>1, <2>2
<1>7. ASSUME a = z, b \in DOMAIN insn_map PROVE b \in Graph!Starts
  <2>1. PICK r \in Graph!Starts : r = Graph!BlockOf(b)
    BY <1>7, BlockFacts
  <2>2. r \in Nat /\ r \in DOMAIN insn_map /\ r <= b
        /\ \A x \in Graph!Starts : x <= b => x <= r
    BY <1>7, <2>1, BlockFacts
  <2>3. CASE r <= a
    <3>1. r <= s
      BY <1>2, <2>3, BlockFacts
    <3>2. s <= r
      BY <1>1, <1>3, <2>2
    <3>3. r = s
      BY <1>3, <2>2, <3>1, <3>2
    <3>4. b <= z
      BY <1>4, <1>7, <2>1, <3>3, LastFacts
    <3>5. QED
      BY <1>1, <1>7, <3>4
  <2>4. CASE r > a
    <3>1. r = b
      BY <1>1, <2>2, <2>4
    <3>2. QED
      BY <3>1
  <2>5. QED
    BY <1>1, <2>2, <2>3, <2>4
<1>8. EndsBlock(a) <=> a = z
  BY <1>2, <1>4 DEF EndsBlock
<1>9. QED
  BY <1>6, <1>7, <1>8

(* From the end of a block there is an edge to each start of a block the   *)
(* builder takes for a successor.                                          *)
LEMMA EdgeFrom ==
  ASSUME TypeOK, NEW a \in DOMAIN insn_map, EndsBlock(a),
         NEW b \in Graph!Starts, b # 0, b \in Graph!Successors(a)
  PROVE  AlongEdge(a, b)
<1>1. PICK s \in Graph!Starts : s = Graph!BlockOf(a) /\ a = Graph!LastOf(s)
  BY BlockFacts DEF EndsBlock
<1>2. Graph!find_block_start(b) = b
  BY FoundAtStart
<1>3. b \in {d \in Graph!Successors(Graph!LastOf(s)) :
               Graph!find_block_start(d) # 0}
  BY <1>1, <1>2
<1>4. <<s, b>> \in {<<s, Graph!find_block_start(d)>> :
                     d \in {e \in Graph!Successors(Graph!LastOf(s)) :
                              Graph!find_block_start(e) # 0}}
  BY <1>2, <1>3
<1>5. <<s, b>> \in Graph!edges
  BY <1>4 DEF Graph!edges
<1>6. QED
  BY <1>1, <1>5 DEF AlongEdge

LEMMA FlowsOnGraph ==
  ASSUME TypeOK, NEW a \in DOMAIN insn_map, NEW b \in DOMAIN insn_map,
         Flows(insn_map, a, b)
  PROVE  \/ InsideBlock(a, b) \/ AlongEdge(a, b)
         \/ EntersCall(a, b) \/ ReturnsFromCall(a, b)
         \/ HiddenJump(a)
<1>1. /\ Kind(a) = insn_map[a].kind /\ Graph!After(a) = a + insn_map[a].size
      /\ Graph!Targets(a) = {insn_map[a].target} \ {0}
  BY DEF Kind, Graph!After, Graph!Targets
<1>2. a \in Nat /\ Graph!After(a) \in Nat /\ Graph!After(a) > 0
  BY <1>1, CodeFacts
<1>3. CASE Kind(a) = "op" /\ b = Graph!After(a)
  <2>1. CASE EndsBlock(a)
    <3>1. b \in Graph!Starts
      BY <1>3, <2>1, EndsWhere
    <3>2. b \in Graph!Successors(a)
      BY <1>1, <1>3 DEF Graph!Successors
    <3>3. QED
      BY <1>2, <1>3, <2>1, <3>1, <3>2, EdgeFrom
  <2>2. QED
    BY <1>3, <2>1 DEF InsideBlock
<1>4. CASE Kind(a) = "jmp" /\ b \in Graph!Targets(a)
  <2>1. CASE EndsBlock(a)
    <3>1. b \in Graph!Starts /\ b # 0
      BY <1>1, <1>4, StartsAre
    <3>2. b \in Graph!Successors(a)
      BY <1>1, <1>4 DEF Graph!Successors
    <3>3. QED
      BY <2>1, <3>1, <3>2, EdgeFrom
  <2>2. QED
    BY <1>4, <2>1 DEF HiddenJump
<1>5. ASSUME Kind(a) \in {"jcc", "call"} PROVE EndsBlock(a)
  <2>1. Graph!After(a) \in DOMAIN insn_map => Graph!After(a) \in Graph!Starts
    BY <1>1, <1>5, StartsAre
  <2>2. QED
    BY <2>1, EndsWhere
<1>6. CASE Kind(a) = "jcc" /\ b \in Graph!Targets(a) \cup {Graph!After(a)}
  <2>1. b \in Graph!Starts /\ b # 0
    <3>1. /\ b # 0 /\ insn_map[a].kind \in {"jmp", "jcc", "call"}
          /\ \/ b = insn_map[a].target /\ b # 0
             \/ insn_map[a].kind # "jmp" /\ b = a + insn_map[a].size
      BY <1>1, <1>2, <1>6
    <3>2. QED
      BY <3>1, StartsAre
  <2>2. b \in Graph!Successors(a)
    BY <1>1, <1>6 DEF Graph!Successors
  <2>3. QED
    BY <1>5, <1>6, <2>1, <2>2, EdgeFrom
<1>7. CASE Kind(a) = "call" /\ b = insn_map[a].target
  BY <1>7 DEF EntersCall
<1>8. CASE Kind(a) = "call" /\ b = Graph!After(a)
  <2>1. b \in Graph!Starts /\ b # 0
    <3>1. /\ b # 0 /\ insn_map[a].kind \in {"jmp", "jcc", "call"}
          /\ \/ b = insn_map[a].target /\ b # 0
             \/ insn_map[a].kind # "jmp" /\ b = a + insn_map[a].size
      BY <1>1, <1>2, <1>8
    <3>2. QED
      BY <3>1, StartsAre
  <2>2. b \in Graph!Successors(a)
    BY <1>1, <1>8 DEF Graph!Successors
  <2>3. QED
    BY <1>5, <1>8, <2>1, <2>2, EdgeFrom
<1>9. CASE Kind(a) = "ret" /\ ReturnSite(insn_map, b)
  BY <1>9 DEF ReturnsFromCall, ReturnSite, Kind, Graph!After
<1>10. QED
  BY <1>1, <1>3, <1>4, <1>6, <1>7, <1>8, <1>9 DEF Flows

(* The paths the engine explores are walks on the control flow graph, with *)
(* calls entered and left.  The one transfer the graph lacks is a jump the *)
(* builder leaves in the middle of a block.                                *)
THEOREM PathsOnGraph == Spec => []PathsFollowGraph
<1>1. TypeOK /\ WalkInv => PathsFollowGraph
  BY TransfersFlow, FlowsOnGraph DEF PathsFollowGraph
<1>2. QED
  BY <1>1, WalkHolds, TypeCorrect, PTL

-----------------------------------------------------------------------------
(* The order in which the paths are reported.  The first of two paths goes *)
(* to the target of the branch where they part (Parted), or they passed a  *)
(* branch to the next instruction together (Blurred), or one of them was   *)
(* cut off before they parted (Prefix).                                    *)

TakesTarget(prog, s, n) ==
  prog[s[n - 1]].kind = "jcc" /\ s[n] = prog[s[n - 1]].target
BranchToNext(prog, a) ==
  /\ a \in DOMAIN prog /\ prog[a].kind = "jcc"
  /\ prog[a].target = a + prog[a].size

Parted(prog, s, t) ==
  \E n \in 2 .. Len(s) :
    /\ n <= Len(t) /\ s[n] # t[n] /\ TakesTarget(prog, s, n)
    /\ \A m \in 1 .. n - 1 : s[m] = t[m]
Blurred(prog, s, t) ==
  \E n \in 1 .. Len(s) :
    /\ n <= Len(t) /\ BranchToNext(prog, s[n])
    /\ \A m \in 1 .. n : s[m] = t[m]
Prefix(s, t) == Len(s) <= Len(t) /\ \A m \in 1 .. Len(s) : s[m] = t[m]

InOrder(prog, s, t) ==
  \A n \in 1 .. Len(s) :
    /\ n <= Len(t) /\ s[n] # t[n]
    /\ \A m \in 1 .. n - 1 : s[m] = t[m] /\ ~BranchToNext(prog, s[m])
    => TakesTarget(prog, s, n)

LEMMA InOrderWhen ==
  ASSUME NEW prog, NEW s \in Seq(Nat), NEW t \in Seq(Nat),
         \/ Parted(prog, s, t) \/ Blurred(prog, s, t)
         \/ Prefix(s, t) \/ Prefix(t, s)
  PROVE  InOrder(prog, s, t)
<1>1. SUFFICES ASSUME NEW n \in 1 .. Len(s), n <= Len(t), s[n] # t[n],
                      \A m \in 1 .. n - 1 :
                        s[m] = t[m] /\ ~BranchToNext(prog, s[m])
               PROVE  TakesTarget(prog, s, n)
  BY DEF InOrder
<1>2. PICK ls \in Nat, lt \in Nat : ls = Len(s) /\ lt = Len(t)
  OBVIOUS
<1>3. n \in 1 .. ls /\ n \in 1 .. lt
  BY <1>1, <1>2
<1>4. CASE Parted(prog, s, t)
  <2>1. PICK k \in 2 .. ls :
          /\ k <= lt /\ s[k] # t[k] /\ TakesTarget(prog, s, k)
          /\ \A m \in 1 .. k - 1 : s[m] = t[m]
    BY <1>2, <1>4 DEF Parted
  <2>2. ~(n < k) /\ ~(k < n)
    BY <1>1, <1>3, <2>1
  <2>3. n = k
    BY <1>3, <2>1, <2>2
  <2>4. QED
    BY <2>1, <2>3
<1>5. CASE Blurred(prog, s, t)
  <2>1. PICK k \in 1 .. ls : /\ BranchToNext(prog, s[k])
                             /\ \A m \in 1 .. k : s[m] = t[m]
    BY <1>2, <1>5 DEF Blurred
  <2>2. ~(k < n) /\ ~(n <= k)
    BY <1>1, <1>3, <2>1
  <2>3. QED
    BY <1>3, <2>1, <2>2
<1>6. CASE Prefix(s, t) \/ Prefix(t, s)
  BY <1>1, <1>2, <1>3, <1>6 DEF Prefix
<1>7. QED
  BY <1>4, <1>5, <1>6

(* Longer paths part where they did.                                       *)
LEMMA PartedExtends ==
  ASSUME NEW prog, NEW s \in Seq(Nat), NEW t \in Seq(Nat), NEW x \in Nat
  PROVE  /\ Parted(prog, s, t) => /\ Parted(prog, Append(s, x), t)
                                  /\ Parted(prog, s, Append(t, x))
         /\ Blurred(prog, s, t) => /\ Blurred(prog, Append(s, x), t)
                                   /\ Blurred(prog, s, Append(t, x))
         /\ Prefix(s, t) => Prefix(s, Append(t, x))
<1>0. PICK ls \in Nat, lt \in Nat : ls = Len(s) /\ lt = Len(t)
  OBVIOUS
<1>1. PICK a, b :
        ls = Len(s) /\ lt = Len(t) /\ a = Append(s, x) /\ b = Append(t, x)
  BY <1>0
<1>2. /\ Len(a) = ls + 1 /\ \A i \in 1 .. ls : a[i] = s[i]
      /\ Len(b) = lt + 1 /\ \A i \in 1 .. lt : b[i] = t[i]
  BY <1>1, AppendAt
<1>3. ASSUME Parted(prog, s, t) PROVE Parted(prog, a, t) /\ Parted(prog, s, b)
  <2>1. PICK k \in 2 .. ls :
          /\ k <= lt /\ s[k] # t[k] /\ TakesTarget(prog, s, k)
          /\ \A m \in 1 .. k - 1 : s[m] = t[m]
    BY <1>1, <1>3 DEF Parted
  <2>2. /\ k \in 2 .. ls + 1 /\ k - 1 \in 1 .. ls /\ k \in 1 .. ls
        /\ k \in 1 .. lt /\ k <= lt + 1
        /\ \A m \in 1 .. k - 1 : m \in 1 .. ls /\ m \in 1 .. lt
    BY <2>1
  <2>3. a[k] = s[k] /\ a[k - 1] = s[k - 1] /\ b[k] = t[k]
        /\ \A m \in 1 .. k - 1 : a[m] = t[m] /\ s[m] = b[m]
    BY <1>2, <2>1, <2>2
  <2>4. TakesTarget(prog, a, k)
    BY <2>1, <2>3 DEF TakesTarget
  <2>5. QED
    BY <1>1, <1>2, <2>1, <2>2, <2>3, <2>4 DEF Parted
<1>4. ASSUME Blurred(prog, s, t) PROVE Blurred(prog, a, t) /\ Blurred(prog, s, b)
  <2>1. PICK k \in 1 .. ls : /\ k <= lt /\ BranchToNext(prog, s[k])
                             /\ \A m \in 1 .. k : s[m] = t[m]
    BY <1>1, <1>4 DEF Blurred
  <2>2. /\ k \in 1 .. ls + 1 /\ k <= lt + 1
        /\ \A m \in 1 .. k : m \in 1 .. ls /\ m \in 1 .. lt
    BY <2>1
  <2>3. a[k] = s[k] /\ \A m \in 1 .. k : a[m] = t[m] /\ s[m] = b[m]
    BY <1>2, <2>1, <2>2
  <2>4. QED
    BY <1>1, <1>2, <2>1, <2>2, <2>3 DEF Blurred
<1>5. ASSUME Prefix(s, t) PROVE Prefix(s, b)
  <2>1. ls <= lt /\ \A m \in 1 .. ls : s[m] = t[m] /\ m \in 1 .. lt
    BY <1>1, <1>5 DEF Prefix
  <2>2. ls <= lt + 1 /\ \A m \in 1 .. ls : s[m] = b[m]
    BY <1>2, <2>1
  <2>3. QED
    BY <1>1, <1>2, <2>2 DEF Prefix
<1>6. QED
  BY <1>1, <1>3, <1>4, <1>5

(* Paths without their last address may no longer part.                    *)
LEMMA PartedCut ==
  ASSUME NEW prog, NEW s \in Seq(Nat), NEW t \in Seq(Nat), NEW x \in Nat
  PROVE  /\ Parted(prog, Append(s, x), t) => Parted(prog, s, t) \/ Prefix(s, t)
         /\ Parted(prog, s, Append(t, x)) => Parted(prog, s, t) \/ Prefix(t, s)
         /\ Prefix(s, Append(t, x)) => Prefix(s, t) \/ Prefix(t, s)
<1>0. PICK ls \in Nat, lt \in Nat : ls = Len(s) /\ lt = Len(t)
  OBVIOUS
<1>1. PICK a, b :
        ls = Len(s) /\ lt = Len(t) /\ a = Append(s, x) /\ b = Append(t, x)
  BY <1>0
<1>2. /\ Len(a) = ls + 1 /\ \A i \in 1 .. ls : a[i] = s[i]
      /\ Len(b) = lt + 1 /\ \A i \in 1 .. lt : b[i] = t[i]
  BY <1>1, AppendAt
<1>3. ASSUME Parted(prog, a, t) PROVE Parted(prog, s, t) \/ Prefix(s, t)
  <2>1. PICK k \in 2 .. ls + 1 :
          /\ k <= lt /\ a[k] # t[k] /\ TakesTarget(prog, a, k)
          /\ \A m \in 1 .. k - 1 : a[m] = t[m]
    BY <1>1, <1>2, <1>3 DEF Parted
  <2>2. \A m \in 1 .. k - 1 : m \in 1 .. ls /\ s[m] = t[m]
    BY <1>2, <2>1
  <2>3. CASE k = ls + 1
    <3>1. ls <= lt /\ \A m \in 1 .. ls : s[m] = t[m]
      BY <2>1, <2>2, <2>3
    <3>2. QED
      BY <1>1, <3>1 DEF Prefix
  <2>4. CASE k # ls + 1
    <3>1. k \in 2 .. ls /\ k \in 1 .. ls /\ k - 1 \in 1 .. ls
      BY <2>1, <2>4
    <3>2. a[k] = s[k] /\ a[k - 1] = s[k - 1]
      BY <1>2, <3>1
    <3>3. TakesTarget(prog, s, k)
      BY <2>1, <3>2 DEF TakesTarget
    <3>4. QED
      BY <1>1, <2>1, <2>2, <3>1, <3>2, <3>3 DEF Parted
  <2>5. QED
    BY <2>3, <2>4
<1>4. ASSUME Parted(prog, s, b) PROVE Parted(prog, s, t) \/ Prefix(t, s)
  <2>1. PICK k \in 2 .. ls :
          /\ k <= lt + 1 /\ s[k] # b[k] /\ TakesTarget(prog, s, k)
          /\ \A m \in 1 .. k - 1 : s[m] = b[m]
    BY <1>1, <1>2, <1>4 DEF Parted
  <2>2. \A m \in 1 .. k - 1 : m \in 1 .. lt /\ s[m] = t[m]
    BY <1>2, <2>1
  <2>3. CASE k = lt + 1
    <3>1. lt <= ls /\ \A m \in 1 .. lt : t[m] = s[m]
      BY <2>1, <2>2, <2>3
    <3>2. QED
      BY <1>1, <3>1 DEF Prefix
  <2>4. CASE k # lt + 1
    <3>1. k <= lt /\ k \in 1 .. lt
      BY <2>1, <2>4
    <3>2. b[k] = t[k]
      BY <1>2, <3>1
    <3>3. QED
      BY <1>1, <2>1, <2>2, <3>1, <3>2 DEF Parted
  <2>5. QED
    BY <2>3, <2>4
<1>5. ASSUME Prefix(s, b) PROVE Prefix(s, t) \/ Prefix(t, s)
  <2>1. ls <= lt + 1 /\ \A m \in 1 .. ls : s[m] = b[m]
    BY <1>1, <1>2, <1>5 DEF Prefix
  <2>2. \A m \in 1 .. lt : m \in 1 .. ls => s[m] = t[m]
    BY <1>2, <2>1
  <2>3. CASE ls <= lt
    <3>1. \A m \in 1 .. ls : s[m] = t[m]
      BY <2>2, <2>3
    <3>2. QED
      BY <1>1, <2>3, <3>1 DEF Prefix
  <2>4. CASE lt <= ls
    <3>1. \A m \in 1 .. lt : t[m] = s[m]
      BY <2>2, <2>4
    <3>2. QED
      BY <1>1, <2>4, <3>1 DEF Prefix
  <2>5. QED
    BY <2>3, <2>4
<1>6. QED
  BY <1>1, <1>3, <1>4, <1>5

(* What is known of a state and of one that waits below it, and of a       *)
(* reported path and of a waiting state.                                   *)
Whole(st) == Append(st.trace, st.pc)
Before(prog, u, w) ==
  Parted(prog, Whole(u), Whole(w)) \/ Blurred(prog, u.trace, w.trace)
Ahead(prog, s, w) ==
  \/ Parted(prog, s, Whole(w)) \/ Blurred(prog, s, w.trace)
  \/ Prefix(s, Whole(w))

(* The state that takes the place of u inherits what was known of it.      *)
LEMMA BeforeMoves ==
  ASSUME NEW prog, NEW u \in State, NEW w \in State, NEW st \in State,
         st.trace = Whole(u), Before(prog, u, w)
  PROVE  Before(prog, st, w)
<1>1. /\ u.trace \in Seq(Nat) /\ u.pc \in Nat /\ Whole(u) \in Seq(Nat)
      /\ w.trace \in Seq(Nat) /\ Whole(w) \in Seq(Nat) /\ st.pc \in Nat
  BY DEF State, Whole
<1>2. CASE Parted(prog, Whole(u), Whole(w))
  <2>1. Parted(prog, Append(Whole(u), st.pc), Whole(w))
    BY <1>1, <1>2, PartedExtends
  <2>2. QED
    BY <2>1 DEF Before, Whole
<1>3. CASE Blurred(prog, u.trace, w.trace)
  <2>1. Blurred(prog, Append(u.trace, u.pc), w.trace)
    BY <1>1, <1>3, PartedExtends
  <2>2. QED
    BY <2>1 DEF Before, Whole
<1>4. QED
  BY <1>2, <1>3 DEF Before

LEMMA AheadMoves ==
  ASSUME NEW prog, NEW s \in Seq(Nat), NEW u \in State, NEW st \in State,
         st.trace = Whole(u), Ahead(prog, s, u)
  PROVE  Ahead(prog, s, st)
<1>1. /\ u.trace \in Seq(Nat) /\ u.pc \in Nat /\ Whole(u) \in Seq(Nat)
      /\ st.pc \in Nat
  BY DEF State, Whole
<1>2. CASE Parted(prog, s, Whole(u))
  <2>1. Parted(prog, s, Append(Whole(u), st.pc))
    BY <1>1, <1>2, PartedExtends
  <2>2. QED
    BY <2>1 DEF Ahead, Whole
<1>3. CASE Blurred(prog, s, u.trace)
  <2>1. Blurred(prog, s, Append(u.trace, u.pc))
    BY <1>1, <1>3, PartedExtends
  <2>2. QED
    BY <2>1 DEF Ahead, Whole
<1>4. CASE Prefix(s, Whole(u))
  <2>1. Prefix(s, Append(Whole(u), st.pc))
    BY <1>1, <1>4, PartedExtends
  <2>2. QED
    BY <2>1 DEF Ahead, Whole
<1>5. QED
  BY <1>2, <1>3, <1>4 DEF Ahead

(* A state is reported with or without the address it is at.               *)
LEMMA BeforeReports ==
  ASSUME NEW prog, NEW u \in State, NEW w \in State, Before(prog, u, w),
         NEW path \in {u.trace, Whole(u)}
  PROVE  Ahead(prog, path, w)
<1>1. /\ u.trace \in Seq(Nat) /\ u.pc \in Nat
      /\ w.trace \in Seq(Nat) /\ Whole(w) \in Seq(Nat)
  BY DEF State, Whole
<1>2. CASE Parted(prog, Whole(u), Whole(w))
  <2>1. Parted(prog, Append(u.trace, u.pc), Whole(w))
    BY <1>2 DEF Whole
  <2>2. Parted(prog, u.trace, Whole(w)) \/ Prefix(u.trace, Whole(w))
    BY <1>1, <2>1, PartedCut
  <2>3. QED
    BY <1>2, <2>2 DEF Ahead
<1>3. CASE Blurred(prog, u.trace, w.trace)
  <2>1. Blurred(prog, Append(u.trace, u.pc), w.trace)
    BY <1>1, <1>3, PartedExtends
  <2>2. QED
    BY <1>3, <2>1 DEF Ahead, Whole
<1>4. QED
  BY <1>2, <1>3 DEF Before

LEMMA AheadReports ==
  ASSUME NEW prog, NEW s \in Seq(Nat), NEW u \in State, Ahead(prog, s, u),
         NEW path \in {u.trace, Whole(u)}
  PROVE  InOrder(prog, s, path)
<1>1. /\ u.trace \in Seq(Nat) /\ u.pc \in Nat /\ Whole(u) \in Seq(Nat)
      /\ Whole(u) = Append(u.trace, u.pc)
  BY DEF State, Whole
<1>2. CASE Parted(prog, s, Whole(u))
  <2>1. Parted(prog, s, u.trace) \/ Prefix(u.trace, s)
    BY <1>1, <1>2, PartedCut
  <2>2. QED
    BY <1>1, <1>2, <2>1, InOrderWhen
<1>3. CASE Blurred(prog, s, u.trace)
  <2>1. Blurred(prog, s, Whole(u))
    BY <1>1, <1>3, PartedExtends
  <2>2. QED
    BY <1>1, <1>3, <2>1, InOrderWhen
<1>4. CASE Prefix(s, Whole(u))
  <2>1. Prefix(s, u.trace) \/ Prefix(u.trace, s)
    BY <1>1, <1>4, PartedCut
  <2>2. QED
    BY <1>1, <1>4, <2>1, InOrderWhen
<1>5. QED
  BY <1>2, <1>3, <1>4 DEF Ahead

(* A fork: the state that takes the branch is above the one that does not. *)
LEMMA ForkInOrder ==
  ASSUME NEW prog, NEW u \in State, NEW st \in State, NEW other \in State,
         st.trace = Whole(u), other.trace = Whole(u),
         u.pc \in DOMAIN prog, prog[u.pc].kind = "jcc",
         st.pc = prog[u.pc].target, other.pc = u.pc + prog[u.pc].size
  PROVE  Before(prog, st, other)
<1>1. PICK s \in Seq(Nat) : s = Whole(u)
  BY DEF State, Whole
<1>2. PICK n \in Nat : n = Len(u.trace) + 1
  BY DEF State
<1>3. Len(s) = n /\ s[n] = u.pc /\ n >= 1
  BY <1>1, <1>2 DEF State, Whole
<1>4. CASE st.pc = other.pc
  <2>1. BranchToNext(prog, s[n])
    BY <1>3, <1>4 DEF BranchToNext
  <2>2. n \in 1 .. Len(s) /\ n <= Len(s)
    BY <1>3
  <2>3. Blurred(prog, s, s)
    BY <2>1, <2>2 DEF Blurred
  <2>4. QED
    BY <1>1, <2>3 DEF Before
<1>5. CASE st.pc # other.pc
  <2>1. PICK a, b : a = Append(s, st.pc) /\ b = Append(s, other.pc)
    OBVIOUS
  <2>2. st.pc \in Nat /\ other.pc \in Nat
    BY DEF State
  <2>3. /\ Len(a) = n + 1 /\ a[n + 1] = st.pc
        /\ \A i \in 1 .. n : a[i] = s[i]
        /\ Len(b) = n + 1 /\ b[n + 1] = other.pc
        /\ \A i \in 1 .. n : b[i] = s[i]
    BY <1>3, <2>1, <2>2, AppendAt
  <2>4. /\ n + 1 \in 2 .. Len(a) /\ n + 1 <= Len(b) /\ (n + 1) - 1 = n
        /\ n \in 1 .. n
    BY <1>3, <2>3
  <2>5. TakesTarget(prog, a, n + 1)
    BY <1>3, <2>3, <2>4 DEF TakesTarget
  <2>6. Parted(prog, a, b)
    BY <1>5, <2>3, <2>4, <2>5 DEF Parted
  <2>7. QED
    BY <1>1, <2>1, <2>6 DEF Before, Whole
<1>6. QED
  BY <1>4, <1>5

(* Whatever is reported, or going to be, is in order.                      *)
Ordered(prog, wl, ts) ==
  /\ \A j \in 1 .. Len(wl) : \A i \in 1 .. j - 1 : Before(prog, wl[j], wl[i])
  /\ \A i \in 1 .. Len(ts), j \in 1 .. Len(wl) : Ahead(prog, ts[i].path, wl[j])
  /\ \A j \in 1 .. Len(ts) : \A i \in 1 .. j - 1 :
       InOrder(prog, ts[i].path, ts[j].path)
OrderInv == Ordered(insn_map, worklist, tests)

LEMMA OrderInit == ASSUME Init PROVE OrderInv
<1>1. Len(worklist) = 1 /\ Len(tests) = 0
  BY DEF Init
<1>2. QED
  BY <1>1 DEF OrderInv, Ordered

LEMMA PathOfTest ==
  ASSUME TypeOK, NEW i \in 1 .. Len(tests) PROVE tests[i].path \in Seq(Nat)
<1>1. tests \in Seq(Test)
  BY DEF TypeOK
<1>2. tests[i] \in Test
  BY <1>1, ElementOfSeq
<1>3. QED
  BY <1>2 DEF Test

LEMMA OrderWalks ==
  ASSUME TypeOK, Ordered(insn_map, worklist, tests), Turn, Walks
  PROVE  Ordered(insn_map, worklist', tests')
<1>0. PICK n \in Nat : n = Len(worklist)
  BY LenProperties DEF TypeOK
<1>1. PICK wl : wl = worklist' /\ n = Len(worklist)
  BY <1>0
<1>2. PICK st \in State : Reaches(st) /\ worklist' = Append(Below, st)
  BY DEF Walks
<1>3. /\ worklist \in Seq(State) /\ worklist # << >> /\ n # 0
      /\ Top \in State /\ Top = worklist[n]
  BY <1>1, StackType DEF TypeOK, Turn, Top
<1>4. /\ Len(wl) = n /\ wl[n] = st
      /\ \A i \in 1 .. n - 1 : wl[i] = worklist[i]
  BY <1>1, <1>2, <1>3, GoesOnAt
<1>5. st.trace = Whole(Top)
  BY <1>2 DEF Reaches, Whole
<1>6. tests' = tests
  BY DEF Walks
<1>7. ASSUME NEW j \in 1 .. n, NEW i \in 1 .. j - 1
      PROVE  Before(insn_map, wl[j], wl[i])
  <2>1. /\ i \in 1 .. n /\ i \in 1 .. n - 1 /\ wl[i] = worklist[i]
        /\ Before(insn_map, worklist[j], worklist[i])
    BY <1>1, <1>4, <1>7 DEF Ordered
  <2>2. CASE j = n
    <3>1. worklist[i] \in State
      BY <1>1, <1>3, <2>1, ElementOfSeq
    <3>2. QED
      BY <1>3, <1>4, <1>5, <2>1, <2>2, <3>1, BeforeMoves
  <2>3. CASE j # n
    <3>1. j \in 1 .. n - 1
      BY <2>3
    <3>2. QED
      BY <1>4, <2>1, <3>1
  <2>4. QED
    BY <2>2, <2>3
<1>8. ASSUME NEW i \in 1 .. Len(tests), NEW j \in 1 .. n
      PROVE  Ahead(insn_map, tests[i].path, wl[j])
  <2>1. Ahead(insn_map, tests[i].path, worklist[j])
    BY <1>1, <1>8 DEF Ordered
  <2>2. CASE j = n
    <3>1. tests[i].path \in Seq(Nat)
      BY PathOfTest
    <3>2. QED
      BY <1>3, <1>4, <1>5, <2>1, <2>2, <3>1, AheadMoves
  <2>3. CASE j # n
    <3>1. j \in 1 .. n - 1
      BY <2>3
    <3>2. QED
      BY <1>4, <2>1, <3>1
  <2>4. QED
    BY <2>2, <2>3
<1>9. QED
  BY <1>1, <1>4, <1>6, <1>7, <1>8 DEF Ordered

LEMMA OrderParts ==
  ASSUME TypeOK, Ordered(insn_map, worklist, tests), Turn, Executes, Parts
  PROVE  Ordered(insn_map, worklist', tests')
<1>0. PICK n \in Nat : n = Len(worklist)
  BY LenProperties DEF TypeOK
<1>1. PICK wl : wl = worklist' /\ n = Len(worklist)
  BY <1>0
<1>2. PICK st \in State, other \in State :
        /\ Reaches(st) /\ Reaches(other) /\ worklist' = Below \o <<other, st>>
        /\ st.pc = Ins.target /\ other.pc = FallThrough
  BY DEF Parts
<1>3. /\ worklist \in Seq(State) /\ worklist # << >> /\ n # 0
      /\ Top \in State /\ Top = worklist[n]
  BY <1>1, StackType DEF TypeOK, Turn, Top
<1>4. /\ Len(wl) = n + 1 /\ wl[n] = other /\ wl[n + 1] = st
      /\ \A i \in 1 .. n - 1 : wl[i] = worklist[i]
  BY <1>1, <1>2, <1>3, SplitsAt
<1>5. st.trace = Whole(Top) /\ other.trace = Whole(Top)
  BY <1>2 DEF Reaches, Whole
<1>6. tests' = tests /\ Ins.kind = "jcc"
  BY DEF Parts
<1>7. Before(insn_map, st, other)
  <2>1. Top.pc \in DOMAIN insn_map /\ Ins = insn_map[Top.pc]
    BY DEF Executes, Ins
  <2>2. Ins.address = Top.pc
    BY <2>1, ProgramsAssumption DEF TypeOK
  <2>3. other.pc = Top.pc + insn_map[Top.pc].size
    BY <1>2, <2>1, <2>2 DEF FallThrough
  <2>4. QED
    BY <1>2, <1>3, <1>5, <1>6, <2>1, <2>3, ForkInOrder
<1>8. ASSUME NEW j \in 1 .. n + 1, NEW i \in 1 .. j - 1
      PROVE  Before(insn_map, wl[j], wl[i])
  <2>1. CASE i = n
    <3>1. j = n + 1
      BY <2>1
    <3>2. QED
      BY <1>4, <1>7, <2>1, <3>1
  <2>2. CASE i # n
    <3>1. /\ i \in 1 .. n - 1 /\ i \in 1 .. n
          /\ j \in 1 .. n - 1 \/ j = n \/ j = n + 1
      BY <2>2
    <3>2. wl[i] = worklist[i] /\ worklist[i] \in State
      BY <1>1, <1>3, <1>4, <3>1, ElementOfSeq
    <3>3. CASE j \in 1 .. n - 1
      <4>1. j \in 1 .. n /\ wl[j] = worklist[j]
        BY <1>4, <3>3
      <4>2. Before(insn_map, worklist[j], worklist[i])
        BY <1>1, <4>1 DEF Ordered
      <4>3. QED
        BY <3>2, <4>1, <4>2
    <3>4. CASE j = n \/ j = n + 1
      <4>1. n \in 1 .. n
        BY <1>3
      <4>2. Before(insn_map, Top, worklist[i])
        BY <1>1, <1>3, <3>1, <4>1 DEF Ordered
      <4>3. Before(insn_map, st, worklist[i]) /\ Before(insn_map, other, worklist[i])
        BY <1>3, <1>5, <3>2, <4>2, BeforeMoves
      <4>4. QED
        BY <1>4, <3>2, <3>4, <4>3
    <3>5. QED
      BY <3>1, <3>3, <3>4
  <2>3. QED
    BY <2>1, <2>2
<1>9. ASSUME NEW i \in 1 .. Len(tests), NEW j \in 1 .. n + 1
      PROVE  Ahead(insn_map, tests[i].path, wl[j])
  <2>1. CASE j \in 1 .. n - 1
    <3>1. j \in 1 .. n /\ wl[j] = worklist[j]
      BY <1>4, <2>1
    <3>2. QED
      BY <1>1, <1>9, <3>1 DEF Ordered
  <2>2. CASE j = n \/ j = n + 1
    <3>1. tests[i].path \in Seq(Nat) /\ n \in 1 .. n
      BY <1>3, PathOfTest
    <3>2. Ahead(insn_map, tests[i].path, Top)
      BY <1>1, <1>3, <3>1 DEF Ordered
    <3>3. /\ Ahead(insn_map, tests[i].path, st)
          /\ Ahead(insn_map, tests[i].path, other)
      BY <1>3, <1>5, <3>1, <3>2, AheadMoves
    <3>4. QED
      BY <1>4, <2>2, <3>3
  <2>3. QED
    BY <2>1, <2>2
<1>10. QED
  BY <1>1, <1>4, <1>6, <1>8, <1>9 DEF Ordered

LEMMA OrderReports ==
  ASSUME TypeOK, Ordered(insn_map, worklist, tests), Turn, Reports
  PROVE  Ordered(insn_map, worklist', tests')
<1>0. PICK n \in Nat, k \in Nat : n = Len(worklist) /\ k = Len(tests)
  BY LenProperties DEF TypeOK
<1>1. PICK wl, ts : /\ wl = worklist' /\ n = Len(worklist)
                    /\ ts = tests' /\ k = Len(tests)
  BY <1>0
<1>2. PICK t \in Test : Concludes(t) /\ tests' = Append(tests, t)
  BY DEF Reports
<1>3. /\ worklist \in Seq(State) /\ worklist # << >> /\ n # 0
      /\ Top \in State /\ Top = worklist[n]
  BY <1>1, StackType DEF TypeOK, Turn, Top
<1>4. Len(wl) = n - 1 /\ \A i \in 1 .. n - 1 : wl[i] = worklist[i]
  BY <1>1, <1>3, EndsAt DEF Reports
<1>5. /\ Len(ts) = k + 1 /\ ts[k + 1] = t
      /\ \A i \in 1 .. k : ts[i] = tests[i]
  BY <1>1, <1>2, AppendAt DEF TypeOK
<1>6. t.path \in {Top.trace, Whole(Top)}
  BY <1>2 DEF Concludes, EndsBefore, EndsAfter, Whole
<1>7. ASSUME NEW j \in 1 .. n - 1, NEW i \in 1 .. j - 1
      PROVE  Before(insn_map, wl[j], wl[i])
  <2>1. i \in 1 .. n - 1 /\ j \in 1 .. n
    BY <1>7
  <2>2. QED
    BY <1>1, <1>4, <2>1 DEF Ordered
<1>8. ASSUME NEW i \in 1 .. k + 1, NEW j \in 1 .. n - 1
      PROVE  Ahead(insn_map, ts[i].path, wl[j])
  <2>1. wl[j] = worklist[j] /\ j \in 1 .. n /\ n \in 1 .. n
    BY <1>3, <1>4
  <2>2. CASE i = k + 1
    <3>1. worklist[j] \in State
      BY <1>1, <1>3, <2>1, ElementOfSeq
    <3>2. Before(insn_map, Top, worklist[j])
      BY <1>1, <1>3, <2>1 DEF Ordered
    <3>3. QED
      BY <1>3, <1>5, <1>6, <2>1, <2>2, <3>1, <3>2, BeforeReports
  <2>3. CASE i # k + 1
    <3>1. i \in 1 .. k
      BY <2>3
    <3>2. QED
      BY <1>1, <1>5, <2>1, <3>1 DEF Ordered
  <2>4. QED
    BY <2>2, <2>3
<1>9. ASSUME NEW j \in 1 .. k + 1, NEW i \in 1 .. j - 1
      PROVE  InOrder(insn_map, ts[i].path, ts[j].path)
  <2>1. i \in 1 .. k /\ ts[i] = tests[i]
    BY <1>5, <1>9
  <2>2. CASE j = k + 1
    <3>1. tests[i].path \in Seq(Nat) /\ n \in 1 .. n
      BY <1>1, <1>3, <2>1, PathOfTest
    <3>2. Ahead(insn_map, tests[i].path, Top)
      BY <1>1, <1>3, <2>1, <3>1 DEF Ordered
    <3>3. QED
      BY <1>3, <1>5, <1>6, <2>1, <2>2, <3>1, <3>2, AheadReports
  <2>3. CASE j # k + 1
    <3>1. j \in 1 .. k
      BY <2>3
    <3>2. QED
      BY <1>1, <1>5, <2>1, <3>1 DEF Ordered
  <2>4. QED
    BY <2>2, <2>3
<1>10. QED
  BY <1>1, <1>4, <1>5, <1>7, <1>8, <1>9 DEF Ordered

LEMMA OrderStep == ASSUME TypeOK, OrderInv, [Next]_vars PROVE OrderInv'
<1>1. CASE Still
  BY <1>1 DEF Still, OrderInv
<1>2. CASE Turn /\ ((Executes /\ (Walks \/ Parts)) \/ Reports)
  <2>1. Ordered(insn_map, worklist', tests')
    BY <1>2, OrderWalks, OrderParts, OrderReports DEF OrderInv
  <2>2. insn_map' = insn_map
    BY <1>2 DEF Turn
  <2>3. QED
    BY <2>1, <2>2 DEF OrderInv
<1>3. QED
  BY <1>1, <1>2, Strides

(* Any two of the paths, those of the waiting states included.             *)
LEMMA AllInOrder ==
  ASSUME TypeOK, OrderInv,
         NEW k \in 1 .. Len(tests) + Len(worklist), NEW j \in 1 .. k - 1,
         NEW s, NEW t, s = ReportOrder[j], t = ReportOrder[k]
  PROVE  s \in Seq(Nat) /\ t \in Seq(Nat) /\ InOrder(insn_map, s, t)
<1>1. PICK m \in Nat, n \in Nat : m = Len(tests) /\ n = Len(worklist)
  BY LenProperties DEF TypeOK
<1>2. PICK a, b : a = n + m + 1 - j /\ b = n + m + 1 - k
  OBVIOUS
<1>3. /\ k \in 1 .. m + n /\ j \in 1 .. m + n
      /\ j > m => a \in 1 .. n /\ b \in 1 .. a - 1
      /\ k > m => b \in 1 .. n
      /\ k <= m => k \in 1 .. m /\ j \in 1 .. m
      /\ j <= m => j \in 1 .. m
  BY <1>1, <1>2
<1>4. /\ s = IF j <= m THEN tests[j].path ELSE Whole(worklist[a])
      /\ t = IF k <= m THEN tests[k].path ELSE Whole(worklist[b])
  BY <1>1, <1>2, <1>3 DEF ReportOrder, Whole
<1>5. /\ \A i \in 1 .. n : worklist[i] \in State /\ Whole(worklist[i]) \in Seq(Nat)
      /\ \A i \in 1 .. m : tests[i].path \in Seq(Nat)
  <2>1. \A i \in 1 .. n : worklist[i] \in State
    BY <1>1, ElementOfSeq DEF TypeOK
  <2>2. QED
    BY <1>1, <2>1, PathOfTest DEF State, Whole
<1>6. CASE k <= m
  <2>1. j <= m /\ k \in 1 .. m /\ j \in 1 .. m
    BY <1>1, <1>3, <1>6
  <2>2. InOrder(insn_map, tests[j].path, tests[k].path)
    BY <1>1, <2>1 DEF OrderInv, Ordered
  <2>3. QED
    BY <1>4, <1>5, <1>6, <2>1, <2>2
<1>7. CASE j <= m /\ ~(k <= m)
  <2>1. j \in 1 .. m /\ b \in 1 .. n
    BY <1>1, <1>3, <1>7
  <2>2. Ahead(insn_map, tests[j].path, worklist[b])
    BY <1>1, <2>1 DEF OrderInv, Ordered
  <2>3. InOrder(insn_map, tests[j].path, Whole(worklist[b]))
    BY <1>5, <2>1, <2>2, AheadReports
  <2>4. QED
    BY <1>4, <1>5, <1>7, <2>1, <2>3
<1>8. CASE ~(j <= m)
  <2>1. a \in 1 .. n /\ b \in 1 .. a - 1 /\ b \in 1 .. n /\ ~(k <= m)
    BY <1>1, <1>2, <1>3, <1>8
  <2>2. Before(insn_map, worklist[a], worklist[b])
    BY <1>1, <2>1 DEF OrderInv, Ordered
  <2>3. Ahead(insn_map, Whole(worklist[a]), worklist[b])
    BY <1>5, <2>1, <2>2, BeforeReports
  <2>4. InOrder(insn_map, Whole(worklist[a]), Whole(worklist[b]))
    BY <1>5, <2>1, <2>3, AheadReports
  <2>5. QED
    BY <1>4, <1>5, <1>8, <2>1, <2>4
<1>9. QED
  BY <1>1, <1>6, <1>7, <1>8

(* Tests come out in the order of a depth-first search that takes branches *)
(* first: of two paths the one reported first, waiting states included,    *)
(* went to the target of the branch at which they part.  The fork pushes   *)
(* the copy below the original, and nothing ever changes the order.        *)
THEOREM ReportedInOrder == Spec => []TargetSideFirst
<1>1. Init => OrderInv
  BY OrderInit
<1>2. TypeOK /\ OrderInv /\ [Next]_vars => OrderInv'
  BY OrderStep
<1>3. TypeOK /\ OrderInv => TargetSideFirst
  <2>1. SUFFICES ASSUME TypeOK, OrderInv,
                        NEW k \in 1 .. Len(tests) + Len(worklist),
                        NEW j \in 1 .. k - 1,
                        NEW s, NEW t, s = ReportOrder[j], t = ReportOrder[k],
                        NEW n \in DOMAIN s \cap DOMAIN t,
                        s[n] # t[n],
                        \A m \in 1 .. n - 1 : s[m] = t[m] /\ ~ToNext(s[m])
                 PROVE  /\ insn_map[s[n - 1]].kind = "jcc"
                        /\ s[n] = insn_map[s[n - 1]].target
    <3>1. DOMAIN ReportOrder = 1 .. Len(tests) + Len(worklist)
      BY DEF ReportOrder
    <3>2. QED
      BY <3>1 DEF TargetSideFirst
  <2>2. s \in Seq(Nat) /\ t \in Seq(Nat) /\ InOrder(insn_map, s, t)
    BY <2>1, AllInOrder
  <2>3. n \in 1 .. Len(s) /\ n <= Len(t)
    BY <2>1, <2>2
  <2>4. \A m \in 1 .. n - 1 : s[m] = t[m] /\ ~BranchToNext(insn_map, s[m])
    BY <2>1 DEF ToNext, BranchToNext
  <2>5. TakesTarget(insn_map, s, n)
    BY <2>1, <2>2, <2>3, <2>4 DEF InOrder
  <2>6. QED
    BY <2>5 DEF TakesTarget
<1>4. QED
  BY <1>1, <1>2, <1>3, TypeCorrect, PTL DEF Spec
=============================================================================
