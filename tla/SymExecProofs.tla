---------------------------- MODULE SymExecProofs ----------------------------
(***************************************************************************)
(* Theorems about the engine, for all programs, inputs, semantics and      *)
(* limits.  Every step of the loop has one of four shapes: nothing that    *)
(* matters changes, the top state goes on, it ends as a test case, or it   *)
(* splits in two.  That is shown once, action by action, and the           *)
(* invariants are proved over the shapes.                                  *)
(***************************************************************************)
EXTENDS SymExecProps, SequenceTheorems, TLAPS

-----------------------------------------------------------------------------
(* The stack.                                                              *)

LEMMA FrontProperties ==
  ASSUME NEW S, NEW s \in Seq(S), NEW n \in Nat, Len(s) = n + 1
  PROVE  /\ s[n + 1] \in S
         /\ SubSeq(s, 1, n) \in Seq(S)
         /\ Len(SubSeq(s, 1, n)) = n
         /\ \A i \in 1 .. n : SubSeq(s, 1, n)[i] = s[i]
OBVIOUS

LEMMA StackType ==
  ASSUME worklist \in Seq(State), worklist # << >>
  PROVE  /\ Len(worklist) \in Nat \ {0}
         /\ Top \in State
         /\ Below \in Seq(State)
         /\ Len(Below) = Len(worklist) - 1
         /\ \A i \in 1 .. Len(worklist) - 1 : Below[i] = worklist[i]
<1>1. Len(worklist) \in Nat \ {0}
  BY EmptySeq, LenProperties
<1>2. PICK n \in Nat : Len(worklist) = n + 1 /\ n = Len(worklist) - 1
  <2>1. Len(worklist) - 1 \in Nat /\ Len(worklist) = (Len(worklist) - 1) + 1
    BY <1>1
  <2>2. QED
    BY <2>1
<1>3. QED
  BY <1>1, <1>2, FrontProperties DEF Top, Below

-----------------------------------------------------------------------------
(* Records.                                                                *)

(* The instruction at an address of the program.                           *)
LEMMA InsType ==
  ASSUME insn_map \in Programs, Top.pc \in DOMAIN insn_map
  PROVE  Ins \in Instruction /\ FallThrough \in Nat
<1>1. Ins \in Instruction
  BY ProgramsAssumption DEF Ins
<1>2. QED
  BY <1>1 DEF Instruction, FallThrough

LEMMA VisitedType ==
  ASSUME Top \in State
  PROVE  /\ Visited \in State
         /\ Visited.id = Top.id /\ Visited.pcm = Top.pcm
         /\ Visited.depth = Top.depth /\ Visited.data = Top.data
         /\ Visited.callstack = Top.callstack
BY AppendProperties DEF Visited, State

LEMMA CountedType ==
  ASSUME stats \in Stats
  PROVE  /\ Counted \in Stats
         /\ Counted = [stats EXCEPT !.instructions = stats.instructions + 1]
BY DEF Counted, Stats

(* The four counters of a branch set to new values.                        *)
WithAnswers(c, b, q, s, u) ==
  [c EXCEPT !.branches = b, !.solver_queries = q,
            !.solver_sat = s, !.solver_unsat = u]

LEMMA WithAnswersType ==
  ASSUME NEW c \in Stats, NEW b \in Nat, NEW q \in Nat, NEW s \in Nat,
         NEW u \in Nat
  PROVE  /\ WithAnswers(c, b, q, s, u) \in Stats
         /\ WithAnswers(c, b, q, s, u).states_created = c.states_created
         /\ WithAnswers(c, b, q, s, u).paths_terminated = c.paths_terminated
         /\ WithAnswers(c, b, q, s, u).branches = b
         /\ WithAnswers(c, b, q, s, u).solver_queries = q
         /\ WithAnswers(c, b, q, s, u).solver_sat = s
         /\ WithAnswers(c, b, q, s, u).solver_unsat = u
BY DEF WithAnswers, Stats

LEMMA QueriedType ==
  ASSUME stats \in Stats, NEW n \in 0 .. 2
  PROVE  /\ Queried(n) \in Stats
         /\ Queried(n).states_created = stats.states_created
         /\ Queried(n).paths_terminated = stats.paths_terminated
         /\ Queried(n).branches = stats.branches + 1
         /\ Queried(n).solver_queries = stats.solver_queries + 2
         /\ Queried(n).solver_sat = stats.solver_sat + n
         /\ Queried(n).solver_unsat = stats.solver_unsat + (2 - n)
<1>1. /\ Counted \in Stats
      /\ Counted.states_created = stats.states_created
      /\ Counted.paths_terminated = stats.paths_terminated
      /\ Counted.branches = stats.branches
      /\ Counted.solver_queries = stats.solver_queries
      /\ Counted.solver_sat = stats.solver_sat
      /\ Counted.solver_unsat = stats.solver_unsat
  BY DEF Counted, Stats
<1>2. /\ stats.branches + 1 \in Nat
      /\ stats.solver_queries + 2 \in Nat
      /\ stats.solver_sat + n \in Nat
      /\ stats.solver_unsat + (2 - n) \in Nat
  <2>1. n \in Nat /\ 2 - n \in Nat
    OBVIOUS
  <2>2. QED
    BY <2>1 DEF Stats
<1>3. Queried(n) =
        WithAnswers(Counted, stats.branches + 1, stats.solver_queries + 2,
                    stats.solver_sat + n, stats.solver_unsat + (2 - n))
  BY <1>1 DEF Queried, WithAnswers, Stats
<1>4. ASSUME NEW b, b = stats.branches + 1,
             NEW q, q = stats.solver_queries + 2,
             NEW s, s = stats.solver_sat + n,
             NEW u, u = stats.solver_unsat + (2 - n)
      PROVE  /\ Queried(n) \in Stats
             /\ Queried(n).states_created = stats.states_created
             /\ Queried(n).paths_terminated = stats.paths_terminated
             /\ Queried(n).branches = b
             /\ Queried(n).solver_queries = q
             /\ Queried(n).solver_sat = s
             /\ Queried(n).solver_unsat = u
  <2>1. Queried(n) = WithAnswers(Counted, b, q, s, u)
    BY <1>3, <1>4
  <2>2. b \in Nat /\ q \in Nat /\ s \in Nat /\ u \in Nat
    BY <1>2, <1>4
  <2>3. Counted \in Stats
    BY <1>1
  <2>4. /\ WithAnswers(Counted, b, q, s, u) \in Stats
        /\ WithAnswers(Counted, b, q, s, u).states_created
             = Counted.states_created
        /\ WithAnswers(Counted, b, q, s, u).paths_terminated
             = Counted.paths_terminated
        /\ WithAnswers(Counted, b, q, s, u).branches = b
        /\ WithAnswers(Counted, b, q, s, u).solver_queries = q
        /\ WithAnswers(Counted, b, q, s, u).solver_sat = s
        /\ WithAnswers(Counted, b, q, s, u).solver_unsat = u
    BY <2>2, <2>3, WithAnswersType
  <2>5. QED
    BY <1>1, <2>1, <2>4
<1>5. QED
  BY <1>4

-----------------------------------------------------------------------------
(* The shapes of a step.                                                   *)

Balanced(c) ==
  /\ c.solver_queries = c.solver_sat + c.solver_unsat
  /\ c.solver_queries <= 2 * c.branches

(* Counters a step may leave behind, before it counts a state or a path.   *)
Settles(c) ==
  /\ c \in Stats
  /\ c.states_created = stats.states_created
  /\ c.paths_terminated = stats.paths_terminated
  /\ Balanced(stats) => Balanced(c)

(* Those of a step that creates no state when the solver decides.          *)
Levels(c) ==
  SolverComplete /\ Top.pcm # {} =>
    2 * c.solver_sat - c.solver_queries
      = 2 * stats.solver_sat - stats.solver_queries

(* A state the top one may turn into.                                      *)
Follows(st) ==
  /\ st \in State
  /\ st.id = Top.id
  /\ st.pcm \subseteq Top.pcm
  /\ Top.pcm # {} => st.pcm # {}
  /\ SolverComplete => st.pcm = Top.pcm
  /\ \/ st.depth = Top.depth
     \/ st.depth = Top.depth + 1 /\ Top.depth <= MaxDepth

(* The test case of the top state.                                         *)
Closes(t) ==
  /\ t \in Test /\ t.state_id = Top.id /\ t.cond = Top.pcm
  /\ SolverComplete /\ Top.pcm # {} => t.assignments # {}

Turn ==
  /\ worklist # << >> /\ steps < MaxSteps
  /\ stats.states_created < MaxStates
  /\ steps' \in {steps, steps + 1}
  /\ UNCHANGED <<insn_map, running, aborted>>

GoesOn ==
  /\ \E st \in State : Follows(st) /\ worklist' = Append(Below, st)
  /\ UNCHANGED <<tests, next_state_id>>
  /\ Settles(stats') /\ Levels(stats')

Ends ==
  /\ worklist' = Below
  /\ \E t \in Test : Closes(t) /\ tests' = Append(tests, t)
  /\ UNCHANGED next_state_id
  /\ \E c \in Stats :
       /\ Settles(c) /\ Levels(c)
       /\ stats' = [c EXCEPT !.paths_terminated = c.paths_terminated + 1]

Splits ==
  /\ \E st, other \in State :
       /\ worklist' = Below \o <<other, st>>
       /\ st.id = Top.id /\ other.id = next_state_id
       /\ st.pcm # {} /\ other.pcm # {}
       /\ st.pcm \cap other.pcm = {} /\ st.pcm \cup other.pcm = Top.pcm
       /\ st.depth = Top.depth + 1 /\ other.depth = Top.depth + 1
  /\ Top.depth <= MaxDepth
  /\ next_state_id' = next_state_id + 1
  /\ UNCHANGED tests
  /\ \E c \in Stats :
       /\ Settles(c)
       /\ 2 * c.solver_sat - c.solver_queries
            = 2 * stats.solver_sat - stats.solver_queries + 2
       /\ stats' = [c EXCEPT !.states_created = c.states_created + 1]

Still ==
  /\ UNCHANGED <<insn_map, worklist, tests, steps, stats, next_state_id>>
  /\ running' \in BOOLEAN /\ aborted' \in BOOLEAN
  /\ ~running' /\ ~aborted' => ~(running \/ aborted) \/ ~MayIterate

LEMMA ResumeShape ==
  ASSUME NEW st, Follows(st), NEW c, Settles(c), Levels(c), Resume(st, c)
  PROVE  GoesOn
BY DEF GoesOn, Resume, Follows

LEMMA ReportShape ==
  ASSUME NEW st \in State, st.id = Top.id, st.pcm = Top.pcm,
         NEW c, Settles(c), Levels(c), Report(st, c)
  PROVE  Ends
<1>1. PICK m \in Models(st.pcm) :
        tests' = Append(tests, [state_id |-> st.id, path |-> st.trace,
                                assignments |-> m, cond |-> st.pcm])
  BY DEF Report
<1>2. m \in SUBSET Inputs /\ (SolverComplete /\ st.pcm # {} => m # {})
  BY DEF Models, Verdicts, State
<1>3. Closes([state_id |-> st.id, path |-> st.trace,
              assignments |-> m, cond |-> st.pcm])
  BY <1>2 DEF Closes, Test, State
<1>4. stats' = [c EXCEPT !.paths_terminated = c.paths_terminated + 1]
  BY DEF Report
<1>5. QED
  BY <1>1, <1>3, <1>4 DEF Ends, Report, Closes, Settles

LEMMA StatsSettles == ASSUME stats \in Stats PROVE Settles(stats) /\ Levels(stats)
BY DEF Settles, Levels

LEMMA CountedSettles ==
  ASSUME stats \in Stats PROVE Settles(Counted) /\ Levels(Counted)
BY DEF Settles, Levels, Balanced, Counted, Stats

LEMMA QueriedSettles ==
  ASSUME stats \in Stats, NEW n \in 0 .. 2
  PROVE  /\ Settles(Queried(n))
         /\ 2 * Queried(n).solver_sat - Queried(n).solver_queries
              = 2 * stats.solver_sat - stats.solver_queries + 2 * n - 2
<1>1. /\ stats.solver_sat \in Nat /\ stats.solver_unsat \in Nat
      /\ stats.solver_queries \in Nat /\ stats.branches \in Nat
  BY DEF Stats
<1>2. QED
  BY <1>1, QueriedType DEF Settles, Balanced

-----------------------------------------------------------------------------
(* Every step of the loop has one of the shapes.                           *)

(* What the steps that fetch an instruction know.                          *)
LEMMA FetchFacts ==
  ASSUME TypeOK, NEW k, Fetching(k)
  PROVE  /\ Turn /\ Top \in State /\ Visited \in State
         /\ Ins \in Instruction /\ FallThrough \in Nat
         /\ Top.depth <= MaxDepth
         /\ Visited.id = Top.id /\ Visited.pcm = Top.pcm
         /\ Visited.depth = Top.depth /\ Visited.data = Top.data
         /\ Visited.callstack = Top.callstack
<1>1. worklist # << >> /\ worklist \in Seq(State) /\ insn_map \in Programs
  BY DEF TypeOK, Fetching, Stepping, Iterating, MayIterate
<1>2. Top \in State
  BY <1>1, StackType
<1>3. Turn
  BY DEF Turn, Fetching, Stepping, Iterating, MayIterate
<1>4. Top.depth <= MaxDepth
  BY <1>2, LimitsAssumption DEF Fetching, Stepping, TooDeep, State
<1>5. Ins \in Instruction /\ FallThrough \in Nat
  BY <1>1, InsType DEF Fetching, AtInstruction
<1>6. QED
  BY <1>2, <1>3, <1>4, <1>5, VisitedType

(* A state that only moves on to another address.                          *)
LEMMA Moves ==
  ASSUME TypeOK, NEW k, Fetching(k), NEW st \in State, st.id = Visited.id,
         st.pcm = Visited.pcm, st.depth = Visited.depth, Resume(st, Counted)
  PROVE  Turn /\ GoesOn
<1>1. stats \in Stats
  BY DEF TypeOK
<1>2. Turn /\ Follows(st)
  BY FetchFacts DEF Follows
<1>3. QED
  BY <1>1, <1>2, CountedSettles, ResumeShape

(* The two sides of a branch.                                              *)
LEMMA Sides ==
  ASSUME TypeOK, Branching
  PROVE  /\ CondTrue \cup CondFalse = Top.pcm
         /\ CondTrue \cap CondFalse = {}
         /\ Top.pcm \in SUBSET Inputs
         /\ \A cond \in SUBSET Inputs, to \in Nat :
              /\ Branched(cond, to) \in State
              /\ Branched(cond, to).id = Top.id
              /\ Branched(cond, to).pcm = cond
              /\ Branched(cond, to).depth = Top.depth + 1
<1>1. CondTrue \cup CondFalse = Top.pcm /\ CondTrue \cap CondFalse = {}
  BY DEF CondTrue, CondFalse
<1>2. Visited \in State /\ Top \in State /\ Visited.id = Top.id
      /\ Visited.depth = Top.depth
  BY FetchFacts DEF Branching
<1>3. ASSUME NEW cond \in SUBSET Inputs, NEW to \in Nat
      PROVE  /\ Branched(cond, to) \in State
             /\ Branched(cond, to).id = Top.id
             /\ Branched(cond, to).pcm = cond
             /\ Branched(cond, to).depth = Top.depth + 1
  <2>1. PICK d \in Nat : d = Top.depth + 1
    BY <1>2 DEF State
  <2>2. Branched(cond, to)
          = [Visited EXCEPT !.pcm = cond, !.pc = to, !.depth = d]
    BY <1>2, <2>1 DEF Branched, State
  <2>3. /\ [Visited EXCEPT !.pcm = cond, !.pc = to, !.depth = d] \in State
        /\ [Visited EXCEPT !.pcm = cond, !.pc = to, !.depth = d].id = Visited.id
        /\ [Visited EXCEPT !.pcm = cond, !.pc = to, !.depth = d].pcm = cond
        /\ [Visited EXCEPT !.pcm = cond, !.pc = to, !.depth = d].depth = d
    BY <1>2 DEF State
  <2>4. QED
    BY <1>2, <2>1, <2>2, <2>3
<1>4. QED
  BY <1>1, <1>2, <1>3 DEF State

LEMMA VerdictsFacts ==
  ASSUME NEW cond
  PROVE  /\ TRUE \in Verdicts(cond) => cond # {}
         /\ FALSE \in Verdicts(cond) /\ SolverComplete => cond = {}
BY DEF Verdicts

(* A branch with one side known to be feasible.                            *)
LEMMA OneAnswer ==
  ASSUME stats \in Stats PROVE Settles(Queried(1)) /\ Levels(Queried(1))
<1>1. 1 \in 0 .. 2
  OBVIOUS
<1>2. /\ Settles(Queried(1)) /\ Queried(1) \in Stats
      /\ 2 * Queried(1).solver_sat - Queried(1).solver_queries
           = 2 * stats.solver_sat - stats.solver_queries + 2 * 1 - 2
  BY <1>1, QueriedSettles, QueriedType
<1>3. QED
  BY <1>2 DEF Levels, Stats

(* A state that ends as it is, whatever was counted.                       *)
LEMMA Stops ==
  ASSUME TypeOK, NEW k, Fetching(k), NEW c, Settles(c), Levels(c),
         Report(Visited, c)
  PROVE  Turn /\ Ends
BY FetchFacts, ReportShape

LEMMA StepShape ==
  ASSUME TypeOK, [Next]_vars
  PROVE  Still \/ (Turn /\ (GoesOn \/ Ends \/ Splits))
<1>1. worklist \in Seq(State) /\ insn_map \in Programs /\ stats \in Stats
      /\ running \in BOOLEAN /\ aborted \in BOOLEAN /\ next_state_id \in Nat
  BY DEF TypeOK
<1>2. CASE UNCHANGED vars
  BY <1>1, <1>2 DEF Still, vars
<1>3. CASE DepthExceeded
  <2>1. Turn
    BY <1>3 DEF DepthExceeded, Iterating, MayIterate, Turn
  <2>2. Top \in State
    BY <1>1, <2>1, StackType DEF Turn
  <2>3. QED
    BY <1>1, <1>3, <2>1, <2>2, StatsSettles, ReportShape DEF DepthExceeded
<1>4. CASE LeaveCode
  <2>1. Turn
    BY <1>4 DEF LeaveCode, Stepping, Iterating, MayIterate, Turn
  <2>2. Top \in State
    BY <1>1, <2>1, StackType DEF Turn
  <2>3. QED
    BY <1>1, <1>4, <2>1, <2>2, StatsSettles, ReportShape DEF LeaveCode
<1>5. CASE Return
  <2>1. Fetching("ret") /\ Top.callstack # << >>
    BY <1>5 DEF Return
  <2>2. PICK st : /\ Resume(st, Counted)
                  /\ st = [Visited EXCEPT
                             !.pc = Top.callstack[Len(Top.callstack)],
                             !.callstack = SubSeq(Visited.callstack, 1,
                                                  Len(Top.callstack) - 1)]
    BY <1>5 DEF Return
  <2>3. Visited \in State /\ Top \in State /\ Visited.callstack = Top.callstack
    BY <2>1, FetchFacts
  <2>4. /\ Top.callstack[Len(Top.callstack)] \in Nat
        /\ SubSeq(Visited.callstack, 1, Len(Top.callstack) - 1) \in Seq(Nat)
    <3>1. Top.callstack \in Seq(Nat)
      BY <2>3 DEF State
    <3>2. Len(Top.callstack) \in Nat \ {0}
      BY <2>1, <3>1, EmptySeq, LenProperties
    <3>3. PICK n \in Nat : Len(Top.callstack) = n + 1 /\ n = Len(Top.callstack) - 1
      <4>1. /\ Len(Top.callstack) - 1 \in Nat
            /\ Len(Top.callstack) = (Len(Top.callstack) - 1) + 1
        BY <3>2
      <4>2. QED
        BY <4>1
    <3>4. QED
      BY <2>3, <3>1, <3>3, FrontProperties
  <2>5. st \in State /\ st.id = Visited.id /\ st.pcm = Visited.pcm
        /\ st.depth = Visited.depth
    BY <2>2, <2>3, <2>4 DEF State
  <2>6. QED
    BY <2>1, <2>2, <2>5, Moves
<1>6. CASE ReturnFromEntry
  BY <1>1, <1>6, CountedSettles, Stops DEF ReturnFromEntry
<1>7. CASE Jump
  <2>1. Fetching("jmp")
    BY <1>7 DEF Jump
  <2>2. PICK st : /\ Resume(st, Counted)
                  /\ st = [Visited EXCEPT !.pc = Ins.target]
    BY <1>7 DEF Jump
  <2>3. Visited \in State /\ Ins \in Instruction
    BY <2>1, FetchFacts
  <2>4. st \in State /\ st.id = Visited.id /\ st.pcm = Visited.pcm
        /\ st.depth = Visited.depth
    BY <2>2, <2>3 DEF State, Instruction
  <2>5. QED
    BY <2>1, <2>2, <2>4, Moves
<1>8. CASE JumpIndirect
  BY <1>1, <1>8, CountedSettles, Stops DEF JumpIndirect
<1>9. CASE Call
  <2>1. Fetching("call")
    BY <1>9 DEF Call
  <2>2. PICK st : /\ Resume(st, Counted)
                  /\ st = [Visited EXCEPT !.pc = Ins.target,
                             !.callstack = Append(Visited.callstack, FallThrough)]
    BY <1>9 DEF Call
  <2>3. Visited \in State /\ Ins.target \in Nat /\ FallThrough \in Nat
    BY <2>1, FetchFacts DEF Instruction
  <2>4. Append(Visited.callstack, FallThrough) \in Seq(Nat)
    BY <2>3, AppendProperties DEF State
  <2>5. st \in State /\ st.id = Visited.id /\ st.pcm = Visited.pcm
        /\ st.depth = Visited.depth
    BY <2>2, <2>3, <2>4 DEF State
  <2>6. QED
    BY <2>1, <2>2, <2>5, Moves
<1>10. CASE CallSkipped
  <2>1. Fetching("call")
    BY <1>10 DEF CallSkipped
  <2>2. PICK st : /\ Resume(st, Counted)
                  /\ st = [Visited EXCEPT !.pc = FallThrough]
    BY <1>10 DEF CallSkipped
  <2>3. Visited \in State /\ FallThrough \in Nat
    BY <2>1, FetchFacts
  <2>4. st \in State /\ st.id = Visited.id /\ st.pcm = Visited.pcm
        /\ st.depth = Visited.depth
    BY <2>2, <2>3 DEF State
  <2>5. QED
    BY <2>1, <2>2, <2>4, Moves
<1>11. CASE BranchIndirect
  <2>1. Fetching("jcc") /\ Report(Visited, [Counted EXCEPT !.branches = @ + 1])
    BY <1>11 DEF BranchIndirect
  <2>2. /\ Settles([Counted EXCEPT !.branches = @ + 1])
        /\ Levels([Counted EXCEPT !.branches = @ + 1])
    <3>1. Counted \in Stats /\ Settles(Counted) /\ Levels(Counted)
      BY <1>1, CountedType, CountedSettles
    <3>2. PICK b \in Nat : b = Counted.branches + 1
      BY <3>1 DEF Stats
    <3>3. PICK d :
            d = [Counted EXCEPT !.branches = b]
      OBVIOUS
    <3>4. /\ d \in Stats
          /\ d.states_created = Counted.states_created
          /\ d.paths_terminated = Counted.paths_terminated
          /\ d.branches = b /\ d.solver_queries = Counted.solver_queries
          /\ d.solver_sat = Counted.solver_sat
          /\ d.solver_unsat = Counted.solver_unsat
      BY <3>1, <3>3 DEF Stats
    <3>5. Settles(d) /\ Levels(d)
      <4>1. /\ Counted.solver_queries \in Nat /\ Counted.solver_sat \in Nat
            /\ Counted.solver_unsat \in Nat /\ Counted.branches \in Nat
        BY <3>1 DEF Stats
      <4>2. QED
        BY <3>1, <3>2, <3>4, <4>1 DEF Settles, Levels, Balanced
    <3>6. [Counted EXCEPT !.branches = @ + 1] = d
      BY <3>2, <3>3
    <3>7. QED
      BY <3>5, <3>6
  <2>3. QED
    BY <2>1, <2>2, Stops
<1>12. CASE Fork
  <2>1. Branching /\ TRUE \in Verdicts(CondTrue) /\ TRUE \in Verdicts(CondFalse)
    BY <1>12 DEF Fork
  <2>2. /\ CondTrue # {} /\ CondFalse # {}
        /\ CondTrue \in SUBSET Inputs /\ CondFalse \in SUBSET Inputs
        /\ CondTrue \cup CondFalse = Top.pcm /\ CondTrue \cap CondFalse = {}
    BY <2>1, VerdictsFacts, Sides
  <2>3. /\ Turn /\ Top.depth <= MaxDepth
        /\ Ins.target \in Nat /\ FallThrough \in Nat
    BY <2>1, FetchFacts DEF Branching, Instruction
  <2>4. PICK st, other :
          /\ st = Branched(CondTrue, Ins.target) /\ other = Other
          /\ worklist' = Below \o <<other, st>>
    BY <1>12 DEF Fork
  <2>5. /\ st \in State /\ st.id = Top.id /\ st.pcm = CondTrue
        /\ st.depth = Top.depth + 1
    BY <2>1, <2>2, <2>3, <2>4, Sides
  <2>6. /\ other \in State /\ other.id = next_state_id
        /\ other.pcm = CondFalse /\ other.depth = Top.depth + 1
    <3>1. PICK b \in State : /\ b = Branched(CondFalse, FallThrough)
                             /\ b.pcm = CondFalse /\ b.depth = Top.depth + 1
      BY <2>1, <2>2, <2>3, Sides
    <3>2. other = [b EXCEPT !.id = next_state_id]
      BY <2>4, <3>1 DEF Other
    <3>3. QED
      BY <1>1, <3>1, <3>2 DEF State
  <2>7. /\ Settles(Queried(2)) /\ Queried(2) \in Stats
        /\ 2 * Queried(2).solver_sat - Queried(2).solver_queries
             = 2 * stats.solver_sat - stats.solver_queries + 2
    <3>1. 2 \in 0 .. 2
      OBVIOUS
    <3>2. /\ Settles(Queried(2)) /\ Queried(2) \in Stats
          /\ 2 * Queried(2).solver_sat - Queried(2).solver_queries
               = 2 * stats.solver_sat - stats.solver_queries + 2 * 2 - 2
      BY <1>1, <3>1, QueriedSettles, QueriedType
    <3>3. QED
      BY <1>1, <3>2 DEF Stats
  <2>8. stats' = [Queried(2) EXCEPT !.states_created
                                      = Queried(2).states_created + 1]
    BY <1>12 DEF Fork
  <2>9. Splits
    BY <1>12, <2>2, <2>3, <2>4, <2>5, <2>6, <2>7, <2>8 DEF Fork, Splits
  <2>10. QED
    BY <2>3, <2>9
<1>13. CASE TakeTarget
  <2>1. Branching /\ TRUE \in Verdicts(CondTrue)
    BY <1>13 DEF TakeTarget
  <2>2. /\ Turn /\ Top.depth <= MaxDepth
        /\ Ins.target \in Nat /\ MayFork
    BY <2>1, FetchFacts DEF Branching, Instruction, Turn, MayFork
  <2>3. /\ FALSE \in Verdicts(CondFalse)
        /\ Resume(Branched(CondTrue, Ins.target), Queried(1))
    <3>1. PICK cf \in Verdicts(CondFalse) :
            /\ ~(cf /\ MayFork)
            /\ Resume(Branched(CondTrue, Ins.target),
                      Queried(IF cf THEN 2 ELSE 1))
      BY <1>13 DEF TakeTarget
    <3>2. cf = FALSE
      BY <2>2, <3>1 DEF Verdicts
    <3>3. QED
      BY <3>1, <3>2
  <2>4. Follows(Branched(CondTrue, Ins.target))
    <3>1. CondTrue # {} /\ (SolverComplete => CondFalse = {})
      BY <2>1, <2>3, VerdictsFacts
    <3>2. CondTrue \cup CondFalse = Top.pcm /\ CondTrue \in SUBSET Inputs
      BY <2>1, Sides
    <3>3. /\ Branched(CondTrue, Ins.target) \in State
          /\ Branched(CondTrue, Ins.target).id = Top.id
          /\ Branched(CondTrue, Ins.target).pcm = CondTrue
          /\ Branched(CondTrue, Ins.target).depth = Top.depth + 1
      BY <2>1, <2>2, <3>2, Sides
    <3>4. QED
      BY <2>2, <3>1, <3>2, <3>3 DEF Follows
  <2>5. QED
    BY <1>1, <2>2, <2>3, <2>4, OneAnswer, ResumeShape
<1>14. CASE TakeFallThrough
  <2>1. /\ Branching /\ TRUE \in Verdicts(CondFalse)
        /\ FALSE \in Verdicts(CondTrue)
        /\ Resume(Branched(CondFalse, FallThrough), Queried(1))
    BY <1>14 DEF TakeFallThrough
  <2>2. Turn /\ Top.depth <= MaxDepth /\ FallThrough \in Nat
    BY <2>1, FetchFacts DEF Branching
  <2>3. Follows(Branched(CondFalse, FallThrough))
    <3>1. CondFalse # {} /\ (SolverComplete => CondTrue = {})
      BY <2>1, VerdictsFacts
    <3>2. CondTrue \cup CondFalse = Top.pcm /\ CondFalse \in SUBSET Inputs
      BY <2>1, Sides
    <3>3. /\ Branched(CondFalse, FallThrough) \in State
          /\ Branched(CondFalse, FallThrough).id = Top.id
          /\ Branched(CondFalse, FallThrough).pcm = CondFalse
          /\ Branched(CondFalse, FallThrough).depth = Top.depth + 1
      BY <2>1, <2>2, <3>2, Sides
    <3>4. QED
      BY <2>2, <3>1, <3>2, <3>3 DEF Follows
  <2>4. QED
    BY <1>1, <2>1, <2>2, <2>3, OneAnswer, ResumeShape
<1>15. CASE DeadEnd
  <2>1. /\ Fetching("jcc") /\ Branching /\ FALSE \in Verdicts(CondFalse)
        /\ FALSE \in Verdicts(CondTrue) /\ Report(Visited, Queried(0))
    BY <1>15 DEF DeadEnd, Branching
  <2>2. SolverComplete => Top.pcm = {}
    <3>1. SolverComplete => CondTrue = {} /\ CondFalse = {}
      BY <2>1, VerdictsFacts
    <3>2. QED
      BY <2>1, <3>1, Sides
  <2>3. 0 \in 0 .. 2
    OBVIOUS
  <2>4. Settles(Queried(0)) /\ Levels(Queried(0))
    BY <1>1, <2>2, <2>3, QueriedSettles DEF Levels
  <2>5. QED
    BY <2>1, <2>4, Stops
<1>16. CASE NonBranch
  <2>1. Fetching("op")
    BY <1>16 DEF NonBranch
  <2>2. PICK st : /\ Resume(st, Counted)
                  /\ st = [Visited EXCEPT
                             !.data = ExecData(Visited.data, Ins.op),
                             !.pc = FallThrough]
    BY <1>16 DEF NonBranch
  <2>3. Visited \in State /\ FallThrough \in Nat /\ Ins.op \in Ops
    BY <2>1, FetchFacts DEF Instruction
  <2>4. ExecData(Visited.data, Ins.op) \in Data
    BY <2>3, DataAssumption DEF State
  <2>5. st \in State /\ st.id = Visited.id /\ st.pcm = Visited.pcm
        /\ st.depth = Visited.depth
    BY <2>2, <2>3, <2>4 DEF State
  <2>6. QED
    BY <2>1, <2>2, <2>5, Moves
<1>17. CASE Finish
  BY <1>1, <1>17 DEF Finish, Still
<1>18. CASE Terminated
  BY <1>1, <1>18 DEF Terminated, Still, vars
<1>19. CASE Abort
  BY <1>19 DEF Abort, Still
<1>20. QED
  BY <1>2, <1>3, <1>4, <1>5, <1>6, <1>7, <1>8, <1>9, <1>10, <1>11, <1>12,
     <1>13, <1>14, <1>15, <1>16, <1>17, <1>18, <1>19 DEF Next

-----------------------------------------------------------------------------
(* What each shape leaves at each position.                                *)

LEMMA AppendAt ==
  ASSUME NEW S, NEW s \in Seq(S), NEW e \in S
  PROVE  /\ Append(s, e) \in Seq(S)
         /\ Len(Append(s, e)) = Len(s) + 1
         /\ \A i \in 1 .. Len(s) : Append(s, e)[i] = s[i]
         /\ Append(s, e)[Len(s) + 1] = e
BY AppendProperties

LEMMA GoesOnAt ==
  ASSUME worklist \in Seq(State), worklist # << >>, NEW st \in State,
         worklist' = Append(Below, st)
  PROVE  /\ worklist' \in Seq(State)
         /\ Len(worklist') = Len(worklist)
         /\ \A i \in 1 .. Len(worklist) - 1 : worklist'[i] = worklist[i]
         /\ worklist'[Len(worklist)] = st
<1>1. /\ Len(worklist) \in Nat \ {0} /\ Below \in Seq(State)
      /\ Len(Below) = Len(worklist) - 1
      /\ \A i \in 1 .. Len(worklist) - 1 : Below[i] = worklist[i]
  BY StackType
<1>2. /\ worklist' \in Seq(State) /\ Len(worklist') = Len(Below) + 1
      /\ \A i \in 1 .. Len(Below) : worklist'[i] = Below[i]
      /\ worklist'[Len(Below) + 1] = st
  BY <1>1, AppendAt
<1>3. QED
  BY <1>1, <1>2

LEMMA EndsAt ==
  ASSUME worklist \in Seq(State), worklist # << >>, worklist' = Below
  PROVE  /\ worklist' \in Seq(State)
         /\ Len(worklist') = Len(worklist) - 1
         /\ \A i \in 1 .. Len(worklist) - 1 : worklist'[i] = worklist[i]
BY StackType

LEMMA ConcatTwo ==
  ASSUME NEW S, NEW s \in Seq(S), NEW e \in S, NEW f \in S
  PROVE  /\ s \o <<e, f>> \in Seq(S)
         /\ Len(s \o <<e, f>>) = Len(s) + 2
         /\ \A i \in 1 .. Len(s) : (s \o <<e, f>>)[i] = s[i]
         /\ (s \o <<e, f>>)[Len(s) + 1] = e
         /\ (s \o <<e, f>>)[Len(s) + 2] = f
OBVIOUS

LEMMA SplitsAt ==
  ASSUME worklist \in Seq(State), worklist # << >>,
         NEW st \in State, NEW other \in State,
         worklist' = Below \o <<other, st>>
  PROVE  /\ worklist' \in Seq(State)
         /\ Len(worklist') = Len(worklist) + 1
         /\ \A i \in 1 .. Len(worklist) - 1 : worklist'[i] = worklist[i]
         /\ worklist'[Len(worklist)] = other
         /\ worklist'[Len(worklist) + 1] = st
<1>1. /\ Len(worklist) \in Nat \ {0} /\ Below \in Seq(State)
      /\ Len(Below) = Len(worklist) - 1
      /\ \A i \in 1 .. Len(worklist) - 1 : Below[i] = worklist[i]
  BY StackType
<1>2. /\ Below \o <<other, st>> \in Seq(State)
      /\ Len(Below \o <<other, st>>) = Len(Below) + 2
      /\ \A i \in 1 .. Len(Below) : (Below \o <<other, st>>)[i] = Below[i]
      /\ (Below \o <<other, st>>)[Len(Below) + 1] = other
      /\ (Below \o <<other, st>>)[Len(Below) + 2] = st
  <2>1. Below \in Seq(State)
    BY <1>1
  <2>2. QED
    BY <2>1, ConcatTwo
<1>3. /\ Len(Below) + 1 = Len(worklist) /\ Len(Below) + 2 = Len(worklist) + 1
      /\ 1 .. Len(Below) = 1 .. Len(worklist) - 1
  BY <1>1
<1>4. QED
  BY <1>1, <1>2, <1>3

-----------------------------------------------------------------------------
(* Type correctness.                                                       *)

LEMMA TypeInit == ASSUME Init PROVE TypeOK
<1>1. InitialState \in State
  BY ProgramsAssumption, DataAssumption DEF InitialState, State
<1>2. InitialStats \in Stats
  BY DEF InitialStats, Stats
<1>3. worklist \in Seq(State) /\ tests \in Seq(Test)
  BY <1>1 DEF Init
<1>4. running \in BOOLEAN /\ aborted \in BOOLEAN
  BY DEF Init
<1>5. steps \in 0 .. MaxSteps /\ next_state_id \in Nat
  BY LimitsAssumption DEF Init
<1>6. QED
  BY <1>2, <1>3, <1>4, <1>5 DEF Init, TypeOK

LEMMA TypeStep == ASSUME TypeOK, [Next]_vars PROVE TypeOK'
<1>1. /\ worklist \in Seq(State) /\ tests \in Seq(Test) /\ stats \in Stats
      /\ steps \in 0 .. MaxSteps /\ next_state_id \in Nat
      /\ insn_map \in Programs /\ running \in BOOLEAN /\ aborted \in BOOLEAN
  BY DEF TypeOK
<1>2. CASE Still
  BY <1>1, <1>2 DEF Still, TypeOK
<1>3. CASE Turn /\ GoesOn
  <2>1. worklist' \in Seq(State)
    BY <1>1, <1>3, GoesOnAt DEF Turn, GoesOn
  <2>2. QED
    BY <1>1, <1>3, <2>1, LimitsAssumption DEF Turn, GoesOn, Settles, TypeOK
<1>4. CASE Turn /\ Ends
  <2>1. worklist' \in Seq(State)
    BY <1>1, <1>4, EndsAt DEF Turn, Ends
  <2>2. tests' \in Seq(Test)
    BY <1>1, <1>4, AppendAt DEF Ends
  <2>3. stats' \in Stats
    BY <1>4 DEF Ends, Stats
  <2>4. QED
    BY <1>1, <1>4, <2>1, <2>2, <2>3, LimitsAssumption DEF Turn, Ends, TypeOK
<1>5. CASE Turn /\ Splits
  <2>1. worklist' \in Seq(State)
    BY <1>1, <1>5, SplitsAt DEF Turn, Splits
  <2>2. stats' \in Stats
    <3>1. PICK c \in Stats :
            stats' = [c EXCEPT !.states_created = c.states_created + 1]
      BY <1>5 DEF Splits
    <3>2. QED
      BY <3>1 DEF Stats
  <2>3. QED
    BY <1>1, <1>5, <2>1, <2>2, LimitsAssumption DEF Turn, Splits, TypeOK
<1>6. QED
  BY <1>2, <1>3, <1>4, <1>5, StepShape

(* Every variable of run() keeps its type.                                 *)
THEOREM TypeCorrect == Spec => []TypeOK
<1>1. Init => TypeOK
  BY TypeInit
<1>2. TypeOK /\ [Next]_vars => TypeOK'
  BY TypeStep
<1>3. QED
  BY <1>1, <1>2, PTL DEF Spec

-----------------------------------------------------------------------------
(* Counting.                                                               *)

(* What the two updates of the counters leave.                             *)
LEMMA PathCounted ==
  ASSUME NEW c \in Stats, NEW d,
         d = [c EXCEPT !.paths_terminated = c.paths_terminated + 1]
  PROVE  /\ d.states_created = c.states_created
         /\ d.paths_terminated = c.paths_terminated + 1
         /\ d.branches = c.branches /\ d.solver_queries = c.solver_queries
         /\ d.solver_sat = c.solver_sat /\ d.solver_unsat = c.solver_unsat
BY DEF Stats

LEMMA StateCounted ==
  ASSUME NEW c \in Stats, NEW d,
         d = [c EXCEPT !.states_created = c.states_created + 1]
  PROVE  /\ d.states_created = c.states_created + 1
         /\ d.paths_terminated = c.paths_terminated
         /\ d.branches = c.branches /\ d.solver_queries = c.solver_queries
         /\ d.solver_sat = c.solver_sat /\ d.solver_unsat = c.solver_unsat
BY DEF Stats

LEMMA StatsNat ==
  ASSUME NEW c \in Stats
  PROVE  /\ c.states_created \in Nat /\ c.paths_terminated \in Nat
         /\ c.branches \in Nat /\ c.solver_queries \in Nat
         /\ c.solver_sat \in Nat /\ c.solver_unsat \in Nat
BY DEF Stats

LEMMA AccountingInit == ASSUME Init PROVE Accounting
BY DEF Init, InitialStats, Accounting

LEMMA AccountingStep ==
  ASSUME TypeOK, Accounting, [Next]_vars PROVE Accounting'
<1>1. /\ worklist \in Seq(State) /\ tests \in Seq(Test) /\ stats \in Stats
      /\ next_state_id \in Nat /\ Len(tests) \in Nat /\ Len(worklist) \in Nat
  BY LenProperties DEF TypeOK
<1>2. /\ next_state_id = stats.states_created + 1
      /\ stats.states_created = Len(worklist) + Len(tests)
      /\ stats.paths_terminated = Len(tests)
      /\ Balanced(stats)
  BY DEF Accounting, Balanced
<1>3. SUFFICES /\ next_state_id' = stats'.states_created + 1
               /\ stats'.states_created = Len(worklist') + Len(tests')
               /\ stats'.paths_terminated = Len(tests')
               /\ Balanced(stats')
  BY DEF Accounting, Balanced
<1>4. CASE Still
  BY <1>2, <1>4 DEF Still
<1>5. CASE Turn /\ GoesOn
  <2>1. Len(worklist') = Len(worklist)
    BY <1>1, <1>5, GoesOnAt DEF Turn, GoesOn
  <2>2. QED
    BY <1>2, <1>5, <2>1 DEF GoesOn, Settles
<1>6. CASE Turn /\ Ends
  <2>1. Len(worklist') = Len(worklist) - 1
    BY <1>1, <1>6, EndsAt DEF Turn, Ends
  <2>2. Len(tests') = Len(tests) + 1
    BY <1>1, <1>6, AppendAt DEF Ends
  <2>3. PICK c \in Stats :
          /\ Settles(c)
          /\ stats' = [c EXCEPT !.paths_terminated = c.paths_terminated + 1]
    BY <1>6 DEF Ends
  <2>4. /\ stats'.states_created = stats.states_created
        /\ stats'.paths_terminated = stats.paths_terminated + 1
        /\ Balanced(stats')
    BY <1>2, <2>3, PathCounted DEF Settles, Balanced
  <2>5. QED
    BY <1>1, <1>2, <1>6, <2>1, <2>2, <2>4 DEF Ends
<1>7. CASE Turn /\ Splits
  <2>1. Len(worklist') = Len(worklist) + 1
    BY <1>1, <1>7, SplitsAt DEF Turn, Splits
  <2>2. PICK c \in Stats :
          /\ Settles(c)
          /\ stats' = [c EXCEPT !.states_created = c.states_created + 1]
    BY <1>7 DEF Splits
  <2>3. /\ stats'.states_created = stats.states_created + 1
        /\ stats'.paths_terminated = stats.paths_terminated
        /\ Balanced(stats')
    BY <1>2, <2>2, StateCounted DEF Settles, Balanced
  <2>4. next_state_id' = next_state_id + 1 /\ tests' = tests
    BY <1>7 DEF Splits
  <2>5. QED
    BY <1>1, <1>2, <2>1, <2>3, <2>4, StatsNat
<1>8. QED
  BY <1>4, <1>5, <1>6, <1>7, StepShape

(* No state is lost or reported twice, and the counters tell so.           *)
THEOREM AccountingHolds == Spec => []Accounting
<1>1. Init => Accounting
  BY AccountingInit
<1>2. TypeOK /\ Accounting /\ [Next]_vars => Accounting'
  BY AccountingStep
<1>3. QED
  BY <1>1, <1>2, TypeCorrect, PTL DEF Spec

-----------------------------------------------------------------------------
(* Depth-first search: the deeper a state lies in the stack, the fewer     *)
(* branches it has passed.                                                 *)

DepthInv == DepthOfPosition /\ DepthBounded

LEMMA DepthInit == ASSUME Init PROVE DepthInv
BY LimitsAssumption
   DEF Init, InitialState, DepthInv, DepthOfPosition, DepthBounded, Pending

LEMMA DepthStep ==
  ASSUME TypeOK, DepthInv, [Next]_vars PROVE DepthInv'
<1>1. worklist \in Seq(State) /\ MaxDepth \in Nat
  BY LimitsAssumption DEF TypeOK
<1>2. /\ \A i \in 1 .. Len(worklist) :
           worklist[i].depth >= (IF i < Len(worklist) THEN i ELSE i - 1)
      /\ \A i \in 1 .. Len(worklist) : worklist[i].depth <= MaxDepth + 1
  BY DEF DepthInv, DepthOfPosition, DepthBounded, Pending
<1>3. SUFFICES ASSUME NEW i \in 1 .. Len(worklist')
               PROVE  /\ worklist'[i].depth
                           >= (IF i < Len(worklist') THEN i ELSE i - 1)
                      /\ worklist'[i].depth <= MaxDepth + 1
  BY DEF DepthInv, DepthOfPosition, DepthBounded, Pending
<1>4. CASE Still
  BY <1>2, <1>4 DEF Still
<1>5. ASSUME Turn
      PROVE  /\ Len(worklist) \in Nat \ {0}
             /\ \A j \in 1 .. Len(worklist) : worklist[j].depth \in Nat
             /\ Top.depth \in Nat
             /\ Top.depth >= Len(worklist) - 1
             /\ Top.depth <= MaxDepth + 1
  <2>1. Len(worklist) \in Nat \ {0}
    BY <1>1, <1>5, StackType DEF Turn
  <2>2. \A j \in 1 .. Len(worklist) : worklist[j] \in State
    BY <1>1, ElementOfSeq
  <2>3. \A j \in 1 .. Len(worklist) : worklist[j].depth \in Nat
    BY <2>2 DEF State
  <2>4. Len(worklist) \in 1 .. Len(worklist)
    BY <2>1
  <2>5. QED
    BY <1>2, <2>1, <2>3, <2>4 DEF Top
<1>6. CASE Turn /\ GoesOn
  <2>1. PICK st \in State : Follows(st) /\ worklist' = Append(Below, st)
    BY <1>6 DEF GoesOn
  <2>2. /\ Len(worklist') = Len(worklist)
        /\ \A j \in 1 .. Len(worklist) - 1 : worklist'[j] = worklist[j]
        /\ worklist'[Len(worklist)] = st
    BY <1>1, <1>6, <2>1, GoesOnAt DEF Turn
  <2>3. st.depth \in Nat /\ st.depth >= Top.depth /\ st.depth <= MaxDepth + 1
    <3>1. st.depth \in Nat
      BY <2>1 DEF State
    <3>2. \/ st.depth = Top.depth
          \/ st.depth = Top.depth + 1 /\ Top.depth <= MaxDepth
      BY <2>1 DEF Follows
    <3>3. QED
      BY <1>1, <1>5, <1>6, <3>1, <3>2
  <2>4. CASE i \in 1 .. Len(worklist) - 1
    BY <1>2, <1>5, <1>6, <2>2, <2>4
  <2>5. CASE i = Len(worklist)
    BY <1>5, <1>6, <2>2, <2>3, <2>5
  <2>6. QED
    BY <1>5, <1>6, <2>2, <2>4, <2>5
<1>7. CASE Turn /\ Ends
  <2>1. /\ Len(worklist') = Len(worklist) - 1
        /\ \A j \in 1 .. Len(worklist) - 1 : worklist'[j] = worklist[j]
    BY <1>1, <1>7, EndsAt DEF Turn, Ends
  <2>2. /\ i \in 1 .. Len(worklist) - 1 /\ i \in 1 .. Len(worklist)
        /\ i \in Nat /\ i < Len(worklist)
    BY <1>5, <1>7, <2>1
  <2>3. /\ worklist'[i] = worklist[i] /\ worklist[i].depth \in Nat
        /\ worklist[i].depth >= i /\ worklist[i].depth <= MaxDepth + 1
    BY <1>2, <1>5, <1>7, <2>1, <2>2
  <2>4. QED
    BY <2>2, <2>3
<1>8. CASE Turn /\ Splits
  <2>1. PICK st \in State, other \in State :
          /\ worklist' = Below \o <<other, st>>
          /\ st.depth = Top.depth + 1 /\ other.depth = Top.depth + 1
    BY <1>8 DEF Splits
  <2>2. /\ Len(worklist') = Len(worklist) + 1
        /\ \A j \in 1 .. Len(worklist) - 1 : worklist'[j] = worklist[j]
        /\ worklist'[Len(worklist)] = other
        /\ worklist'[Len(worklist) + 1] = st
    BY <1>1, <1>8, <2>1, SplitsAt DEF Turn
  <2>3. Top.depth <= MaxDepth
    BY <1>8 DEF Splits
  <2>4. CASE i \in 1 .. Len(worklist) - 1
    BY <1>2, <1>5, <1>8, <2>2, <2>4
  <2>5. CASE i = Len(worklist)
    BY <1>1, <1>5, <1>8, <2>1, <2>2, <2>3, <2>5
  <2>6. CASE i = Len(worklist) + 1
    <3>1. /\ i \in Nat /\ ~(i < Len(worklist')) /\ i - 1 = Len(worklist)
          /\ worklist'[i].depth = Top.depth + 1
      <4>1. worklist'[i] = st /\ Len(worklist') = i
        BY <2>2, <2>6
      <4>2. Len(worklist) \in Nat
        BY <1>5, <1>8
      <4>3. QED
        BY <2>1, <2>6, <4>1, <4>2
    <3>2. /\ Len(worklist) \in Nat /\ Top.depth \in Nat
          /\ Top.depth >= Len(worklist) - 1
      BY <1>5, <1>8
    <3>3. worklist'[i].depth >= i - 1 /\ worklist'[i].depth <= MaxDepth + 1
      BY <1>1, <2>3, <3>1, <3>2
    <3>4. QED
      BY <3>1, <3>3
  <2>7. QED
    BY <1>5, <1>8, <2>2, <2>4, <2>5, <2>6
<1>9. QED
  BY <1>4, <1>6, <1>7, <1>8, StepShape

(* The number of states ever created.                                      *)
StatesInv ==
  stats.states_created <= (IF MaxStates = 0 THEN 1 ELSE MaxStates)

LEMMA StatesInit == ASSUME Init PROVE StatesInv
BY LimitsAssumption DEF Init, InitialStats, StatesInv

LEMMA StatesStep == ASSUME TypeOK, StatesInv, [Next]_vars PROVE StatesInv'
<1>1. stats \in Stats /\ stats.states_created \in Nat /\ MaxStates \in Nat
  BY StatsNat, LimitsAssumption DEF TypeOK
<1>2. CASE Still
  BY <1>2 DEF Still, StatesInv
<1>3. CASE Turn /\ GoesOn
  BY <1>3 DEF GoesOn, Settles, StatesInv
<1>4. CASE Turn /\ Ends
  <2>1. PICK c \in Stats :
          /\ Settles(c)
          /\ stats' = [c EXCEPT !.paths_terminated = c.paths_terminated + 1]
    BY <1>4 DEF Ends
  <2>2. stats'.states_created = stats.states_created
    BY <2>1, PathCounted DEF Settles
  <2>3. QED
    BY <2>2 DEF StatesInv
<1>5. CASE Turn /\ Splits
  <2>1. PICK c \in Stats :
          /\ Settles(c)
          /\ stats' = [c EXCEPT !.states_created = c.states_created + 1]
    BY <1>5 DEF Splits
  <2>2. stats'.states_created = stats.states_created + 1
    BY <2>1, StateCounted DEF Settles
  <2>3. stats.states_created < MaxStates
    BY <1>5 DEF Turn
  <2>4. QED
    BY <1>1, <2>2, <2>3 DEF StatesInv
<1>6. QED
  BY <1>2, <1>3, <1>4, <1>5, StepShape

LEMMA DepthGivesBound ==
  ASSUME TypeOK, Accounting, DepthInv, StatesInv PROVE FrontierBound
<1>1. /\ Len(worklist) \in Nat /\ Len(tests) \in Nat
      /\ stats.states_created = Len(worklist) + Len(tests)
  BY LenProperties DEF TypeOK, Accounting
<1>2. Len(worklist) <= (IF MaxStates = 0 THEN 1 ELSE MaxStates)
  BY <1>1, LimitsAssumption DEF StatesInv
<1>3. Len(worklist) <= MaxDepth + 2
  <2>1. CASE Len(worklist) = 0
    BY <2>1, LimitsAssumption
  <2>2. CASE Len(worklist) # 0
    <3>1. Len(worklist) \in Pending
      BY <1>1, <2>2 DEF Pending
    <3>2. worklist[Len(worklist)] \in State
      BY <3>1, ElementOfSeq DEF TypeOK, Pending
    <3>3. worklist[Len(worklist)].depth \in Nat
      BY <3>2 DEF State
    <3>4. /\ worklist[Len(worklist)].depth >= Len(worklist) - 1
          /\ worklist[Len(worklist)].depth <= MaxDepth + 1
      BY <1>1, <3>1 DEF DepthInv, DepthOfPosition, DepthBounded
    <3>5. QED
      BY <1>1, <3>3, <3>4, LimitsAssumption
  <2>3. QED
    BY <2>1, <2>2
<1>4. QED
  BY <1>2, <1>3 DEF FrontierBound

(* The worklist stays within max_depth + 2 states, and within max_states.  *)
THEOREM FrontierBounded == Spec => []FrontierBound
<1>1. Init => DepthInv /\ StatesInv
  BY DepthInit, StatesInit
<1>2. TypeOK /\ DepthInv /\ [Next]_vars => DepthInv'
  BY DepthStep
<1>3. TypeOK /\ StatesInv /\ [Next]_vars => StatesInv'
  BY StatesStep
<1>4. TypeOK /\ Accounting /\ DepthInv /\ StatesInv => FrontierBound
  BY DepthGivesBound
<1>5. QED
  BY <1>1, <1>2, <1>3, <1>4, TypeCorrect, AccountingHolds, PTL DEF Spec

-----------------------------------------------------------------------------
(* Identities and path conditions.  Two states are apart when their ids    *)
(* differ and no input satisfies both conditions.  The invariant adds to   *)
(* that, for the new state of a fork, that ids in use are below the next   *)
(* one, and that no condition is empty.                                    *)

Apart(w, x) == w.id # x.id /\ w.pcm \cap x.pcm = {}
ApartFromTest(w, t) == w.id # t.state_id /\ w.pcm \cap t.cond = {}
TestsApart(t, u) == t.state_id # u.state_id /\ t.cond \cap u.cond = {}

AliveInv ==
  /\ \A i \in 1 .. Len(worklist) :
       worklist[i].id < next_state_id /\ worklist[i].pcm # {}
  /\ \A i \in 1 .. Len(tests) :
       tests[i].state_id < next_state_id /\ tests[i].cond # {}

ApartInv ==
  /\ \A j \in 1 .. Len(worklist) : \A i \in 1 .. j - 1 :
       Apart(worklist[i], worklist[j])
  /\ \A j \in 1 .. Len(tests) : \A i \in 1 .. j - 1 :
       TestsApart(tests[i], tests[j])
  /\ \A i \in 1 .. Len(worklist) : \A j \in 1 .. Len(tests) :
       ApartFromTest(worklist[i], tests[j])

LEMMA ApartInit == ASSUME Init PROVE AliveInv /\ ApartInv
<1>1. /\ worklist = <<InitialState>> /\ tests = << >> /\ next_state_id = 2
      /\ InitialState.id = 1 /\ InitialState.pcm = Inputs
  BY DEF Init, InitialState
<1>2. /\ Len(worklist) = 1 /\ worklist[1] = InitialState /\ Len(tests) = 0
  BY <1>1
<1>3. QED
  BY <1>1, <1>2, InputsAssumption DEF AliveInv, ApartInv

(* What the invariant says of the top state and those below it.            *)
LEMMA TopApart ==
  ASSUME TypeOK, Turn, AliveInv, ApartInv
  PROVE  /\ Len(worklist) \in Nat \ {0} /\ Top \in State
         /\ Top.id < next_state_id /\ Top.pcm # {}
         /\ \A i \in 1 .. Len(worklist) - 1 :
              worklist[i] \in State /\ Apart(worklist[i], Top)
         /\ \A j \in 1 .. Len(tests) :
              tests[j] \in Test /\ ApartFromTest(Top, tests[j])
<1>1. worklist \in Seq(State) /\ tests \in Seq(Test) /\ worklist # << >>
  BY DEF TypeOK, Turn
<1>2. Len(worklist) \in Nat \ {0} /\ Top \in State
  BY <1>1, StackType
<1>3. Len(worklist) \in 1 .. Len(worklist) /\ Top = worklist[Len(worklist)]
  BY <1>2 DEF Top
<1>4. Top.id < next_state_id /\ Top.pcm # {}
  BY <1>3 DEF AliveInv
<1>5. ASSUME NEW i \in 1 .. Len(worklist) - 1
      PROVE  worklist[i] \in State /\ Apart(worklist[i], Top)
  <2>1. i \in 1 .. Len(worklist)
    BY <1>2
  <2>2. QED
    BY <1>1, <1>3, <2>1, ElementOfSeq DEF ApartInv
<1>6. ASSUME NEW j \in 1 .. Len(tests)
      PROVE  tests[j] \in Test /\ ApartFromTest(Top, tests[j])
  BY <1>1, <1>3, ElementOfSeq DEF ApartInv
<1>7. QED
  BY <1>2, <1>4, <1>5, <1>6

LEMMA ApartGoesOn ==
  ASSUME TypeOK, AliveInv, ApartInv, Turn, GoesOn
  PROVE  AliveInv' /\ ApartInv'
<1>1. worklist \in Seq(State) /\ worklist # << >>
  BY DEF TypeOK, Turn
<1>2. PICK st \in State : Follows(st) /\ worklist' = Append(Below, st)
  BY DEF GoesOn
<1>3. /\ Len(worklist') = Len(worklist)
      /\ \A i \in 1 .. Len(worklist) - 1 : worklist'[i] = worklist[i]
      /\ worklist'[Len(worklist)] = st
  BY <1>1, <1>2, GoesOnAt
<1>4. tests' = tests /\ next_state_id' = next_state_id
  BY DEF GoesOn
<1>5. /\ st.id = Top.id /\ st.pcm \subseteq Top.pcm /\ st.pcm # {}
      /\ Len(worklist) \in Nat \ {0} /\ Top.id < next_state_id
  BY <1>2, TopApart DEF Follows
<1>6. /\ \A i \in 1 .. Len(worklist) - 1 : Apart(worklist[i], st)
      /\ \A j \in 1 .. Len(tests) : ApartFromTest(st, tests[j])
  BY <1>5, TopApart DEF Apart, ApartFromTest
<1>7. \A i \in 1 .. Len(worklist) :
        i \in 1 .. Len(worklist) - 1 \/ i = Len(worklist)
  BY <1>5
<1>8. AliveInv'
  BY <1>3, <1>4, <1>5, <1>7 DEF AliveInv
<1>9. ASSUME NEW j \in 1 .. Len(worklist), NEW i \in 1 .. j - 1
      PROVE  Apart(worklist'[i], worklist'[j])
  <2>1. i \in 1 .. Len(worklist) - 1
    BY <1>5
  <2>2. QED
    BY <1>3, <1>6, <1>7, <2>1 DEF ApartInv
<1>10. ASSUME NEW i \in 1 .. Len(worklist), NEW j \in 1 .. Len(tests)
       PROVE  ApartFromTest(worklist'[i], tests[j])
  BY <1>3, <1>6, <1>7 DEF ApartInv
<1>11. QED
  BY <1>3, <1>4, <1>8, <1>9, <1>10 DEF ApartInv

LEMMA ApartEnds ==
  ASSUME TypeOK, AliveInv, ApartInv, Turn, Ends
  PROVE  AliveInv' /\ ApartInv'
<1>1. worklist \in Seq(State) /\ worklist # << >> /\ tests \in Seq(Test)
      /\ Len(tests) \in Nat
  BY LenProperties DEF TypeOK, Turn
<1>2. PICK t \in Test : Closes(t) /\ tests' = Append(tests, t)
  BY DEF Ends
<1>3. /\ Len(worklist') = Len(worklist) - 1
      /\ \A i \in 1 .. Len(worklist) - 1 : worklist'[i] = worklist[i]
  BY <1>1, EndsAt DEF Ends
<1>4. /\ Len(tests') = Len(tests) + 1
      /\ \A i \in 1 .. Len(tests) : tests'[i] = tests[i]
      /\ tests'[Len(tests) + 1] = t
  BY <1>1, <1>2, AppendAt
<1>5. next_state_id' = next_state_id
  BY DEF Ends
<1>6. /\ t.state_id = Top.id /\ t.cond = Top.pcm
      /\ Len(worklist) \in Nat \ {0} /\ Top.id < next_state_id
      /\ Top.pcm # {}
  BY <1>2, TopApart DEF Closes
<1>7. /\ \A i \in 1 .. Len(worklist) - 1 : ApartFromTest(worklist[i], t)
      /\ \A j \in 1 .. Len(tests) : TestsApart(tests[j], t)
  BY <1>6, TopApart DEF Apart, ApartFromTest, TestsApart
<1>8. \A i \in 1 .. Len(tests) + 1 : i \in 1 .. Len(tests) \/ i = Len(tests) + 1
  BY <1>1
<1>9. \A i \in 1 .. Len(worklist) - 1 : i \in 1 .. Len(worklist)
  BY <1>6
<1>10. AliveInv'
  BY <1>3, <1>4, <1>5, <1>6, <1>8, <1>9 DEF AliveInv
<1>11. ASSUME NEW j \in 1 .. Len(worklist) - 1, NEW i \in 1 .. j - 1
       PROVE  Apart(worklist'[i], worklist'[j])
  <2>1. i \in 1 .. Len(worklist) - 1
    BY <1>6
  <2>2. QED
    BY <1>3, <1>9, <2>1 DEF ApartInv
<1>12. ASSUME NEW j \in 1 .. Len(tests) + 1, NEW i \in 1 .. j - 1
       PROVE  TestsApart(tests'[i], tests'[j])
  <2>1. i \in 1 .. Len(tests)
    BY <1>1
  <2>2. QED
    BY <1>4, <1>7, <1>8, <2>1 DEF ApartInv
<1>13. ASSUME NEW i \in 1 .. Len(worklist) - 1, NEW j \in 1 .. Len(tests) + 1
       PROVE  ApartFromTest(worklist'[i], tests'[j])
  BY <1>3, <1>4, <1>7, <1>8, <1>9 DEF ApartInv
<1>14. QED
  BY <1>3, <1>4, <1>10, <1>11, <1>12, <1>13 DEF ApartInv

LEMMA ApartSplits ==
  ASSUME TypeOK, AliveInv, ApartInv, Turn, Splits
  PROVE  AliveInv' /\ ApartInv'
<1>1. /\ worklist \in Seq(State) /\ worklist # << >> /\ tests \in Seq(Test)
      /\ next_state_id \in Nat
  BY DEF TypeOK, Turn
<1>2. PICK st \in State, other \in State :
        /\ worklist' = Below \o <<other, st>>
        /\ st.id = Top.id /\ other.id = next_state_id
        /\ st.pcm # {} /\ other.pcm # {}
        /\ st.pcm \cap other.pcm = {} /\ st.pcm \cup other.pcm = Top.pcm
  BY DEF Splits
<1>3. /\ Len(worklist') = Len(worklist) + 1
      /\ \A i \in 1 .. Len(worklist) - 1 : worklist'[i] = worklist[i]
      /\ worklist'[Len(worklist)] = other
      /\ worklist'[Len(worklist) + 1] = st
  BY <1>1, <1>2, SplitsAt
<1>4. tests' = tests /\ next_state_id' = next_state_id + 1
  BY DEF Splits
<1>5. /\ Len(worklist) \in Nat \ {0} /\ Top \in State
      /\ Top.id \in Nat /\ Top.id < next_state_id
  BY TopApart DEF State
<1>6. \A i \in 1 .. Len(worklist) + 1 :
        i \in 1 .. Len(worklist) - 1 \/ i = Len(worklist) \/ i = Len(worklist) + 1
  BY <1>5
<1>7. \A i \in 1 .. Len(worklist) - 1 : i \in 1 .. Len(worklist)
  BY <1>5
<1>8. /\ \A i \in 1 .. Len(worklist) - 1 :
           worklist[i].id \in Nat /\ worklist[i].id < next_state_id
      /\ \A j \in 1 .. Len(tests) :
           tests[j].state_id \in Nat /\ tests[j].state_id < next_state_id
  BY <1>7, TopApart DEF AliveInv, State, Test
<1>9. /\ \A i \in 1 .. Len(worklist) - 1 :
           worklist[i].id < next_state_id + 1 /\ worklist[i].id # next_state_id
      /\ \A j \in 1 .. Len(tests) :
           tests[j].state_id < next_state_id + 1
             /\ tests[j].state_id # next_state_id
      /\ Top.id < next_state_id + 1 /\ Top.id # next_state_id
      /\ next_state_id < next_state_id + 1
  BY <1>1, <1>5, <1>8
<1>10. AliveInv'
  <2>1. ASSUME NEW i \in 1 .. Len(worklist) + 1
        PROVE  worklist'[i].id < next_state_id + 1 /\ worklist'[i].pcm # {}
    BY <1>2, <1>3, <1>6, <1>7, <1>9 DEF AliveInv
  <2>2. ASSUME NEW j \in 1 .. Len(tests)
        PROVE  tests[j].state_id < next_state_id + 1 /\ tests[j].cond # {}
    BY <1>9 DEF AliveInv
  <2>3. QED
    BY <1>3, <1>4, <2>1, <2>2 DEF AliveInv
<1>11. /\ \A i \in 1 .. Len(worklist) - 1 :
            Apart(worklist[i], other) /\ Apart(worklist[i], st)
       /\ \A j \in 1 .. Len(tests) :
            ApartFromTest(other, tests[j]) /\ ApartFromTest(st, tests[j])
       /\ Apart(other, st)
  <2>1. st.pcm \subseteq Top.pcm /\ other.pcm \subseteq Top.pcm
    BY <1>2
  <2>2. QED
    BY <1>2, <1>9, <2>1, TopApart DEF Apart, ApartFromTest
<1>12. ASSUME NEW j \in 1 .. Len(worklist) + 1, NEW i \in 1 .. j - 1
       PROVE  Apart(worklist'[i], worklist'[j])
  <2>1. CASE j \in 1 .. Len(worklist) - 1
    <3>1. i \in 1 .. Len(worklist) - 1
      BY <1>5, <2>1
    <3>2. QED
      BY <1>3, <1>7, <2>1, <3>1 DEF ApartInv
  <2>2. CASE j = Len(worklist)
    <3>1. i \in 1 .. Len(worklist) - 1
      BY <2>2
    <3>2. QED
      BY <1>3, <1>11, <2>2, <3>1
  <2>3. CASE j = Len(worklist) + 1
    <3>1. i \in 1 .. Len(worklist) - 1 \/ i = Len(worklist)
      BY <1>5, <2>3
    <3>2. worklist'[j] = st
      BY <1>3, <2>3
    <3>3. QED
      BY <1>3, <1>11, <3>1, <3>2
  <2>4. QED
    BY <1>6, <2>1, <2>2, <2>3
<1>13. ASSUME NEW i \in 1 .. Len(worklist) + 1, NEW j \in 1 .. Len(tests)
       PROVE  ApartFromTest(worklist'[i], tests[j])
  BY <1>3, <1>6, <1>7, <1>11 DEF ApartInv
<1>14. QED
  BY <1>3, <1>4, <1>10, <1>12, <1>13 DEF ApartInv

LEMMA ApartStep ==
  ASSUME TypeOK, AliveInv, ApartInv, [Next]_vars
  PROVE  AliveInv' /\ ApartInv'
<1>1. CASE Still
  BY <1>1 DEF Still, AliveInv, ApartInv
<1>2. QED
  BY <1>1, ApartGoesOn, ApartEnds, ApartSplits, StepShape

(* The invariant orders its pairs, the properties do not.                  *)
LEMMA ApartGives ==
  ASSUME TypeOK, AliveInv, ApartInv PROVE IdsUnique /\ PathsDisjoint
<1>1. Len(worklist) \in Nat /\ Len(tests) \in Nat
  BY LenProperties DEF TypeOK
<1>2. ASSUME NEW i \in 1 .. Len(worklist), NEW j \in 1 .. Len(worklist), i # j
      PROVE  /\ worklist[i].id # worklist[j].id
             /\ worklist[i].pcm \cap worklist[j].pcm = {}
  <2>1. i \in 1 .. j - 1 \/ j \in 1 .. i - 1
    BY <1>1, <1>2
  <2>2. Apart(worklist[i], worklist[j]) \/ Apart(worklist[j], worklist[i])
    BY <2>1 DEF ApartInv
  <2>3. QED
    BY <2>2 DEF Apart
<1>3. ASSUME NEW i \in 1 .. Len(tests), NEW j \in 1 .. Len(tests), i # j
      PROVE  /\ tests[i].state_id # tests[j].state_id
             /\ tests[i].cond \cap tests[j].cond = {}
  <2>1. i \in 1 .. j - 1 \/ j \in 1 .. i - 1
    BY <1>1, <1>3
  <2>2. TestsApart(tests[i], tests[j]) \/ TestsApart(tests[j], tests[i])
    BY <2>1 DEF ApartInv
  <2>3. QED
    BY <2>2 DEF TestsApart
<1>4. ASSUME NEW i \in 1 .. Len(worklist), NEW j \in 1 .. Len(tests)
      PROVE  /\ worklist[i].id # tests[j].state_id
             /\ worklist[i].pcm \cap tests[j].cond = {}
  BY DEF ApartInv, ApartFromTest
<1>5. IdsUnique
  BY <1>2, <1>3, <1>4 DEF IdsUnique, Pending, Reported
<1>6. PathsDisjoint
  BY <1>2, <1>3, <1>4 DEF PathsDisjoint, Pending, Reported, AliveInv
<1>7. QED
  BY <1>5, <1>6

(* The states waiting and reported are apart in every respect the other    *)
(* theorems need: by id, by input, and none is without an input.           *)
THEOREM ApartHolds == Spec => [](AliveInv /\ ApartInv)
<1>1. Init => AliveInv /\ ApartInv
  BY ApartInit
<1>2. TypeOK /\ (AliveInv /\ ApartInv) /\ [Next]_vars => (AliveInv /\ ApartInv)'
  BY ApartStep
<1>3. QED
  BY <1>1, <1>2, TypeCorrect, PTL DEF Spec

(* No two states ever have the same id.                                    *)
THEOREM IdentitiesUnique == Spec => []IdsUnique
<1>1. TypeOK /\ (AliveInv /\ ApartInv) => IdsUnique
  BY ApartGives
<1>2. QED
  BY <1>1, TypeCorrect, ApartHolds, PTL

(* No input is ever on two paths, and no path is without an input.         *)
THEOREM PathsStayDisjoint == Spec => []PathsDisjoint
<1>1. TypeOK /\ (AliveInv /\ ApartInv) => PathsDisjoint
  BY ApartGives
<1>2. QED
  BY <1>1, TypeCorrect, ApartHolds, PTL

-----------------------------------------------------------------------------
(* A branch whose two sides are feasible makes a state, with a solver that *)
(* always decides.                                                         *)

LEMMA LedgerInit == ASSUME Init PROVE SolverLedger
BY DEF Init, InitialStats, SolverLedger

LEMMA LedgerStep ==
  ASSUME TypeOK, AliveInv, ApartInv, SolverLedger, [Next]_vars
  PROVE  SolverLedger'
<1>1. stats \in Stats /\ stats' \in Stats
  BY TypeStep DEF TypeOK
<1>2. SUFFICES ASSUME SolverComplete,
                      2 * stats.solver_sat - stats.solver_queries
                        = 2 * (stats.states_created - 1)
               PROVE  2 * stats'.solver_sat - stats'.solver_queries
                        = 2 * (stats'.states_created - 1)
  BY <1>1, StatsNat DEF SolverLedger
<1>3. CASE Still
  BY <1>2, <1>3 DEF Still
<1>4. CASE Turn /\ GoesOn
  <2>1. Top.pcm # {}
    BY <1>4, TopApart
  <2>2. Settles(stats') /\ Levels(stats')
    BY <1>4 DEF GoesOn
  <2>3. QED
    BY <1>2, <2>1, <2>2 DEF Settles, Levels
<1>5. CASE Turn /\ Ends
  <2>1. Top.pcm # {}
    BY <1>5, TopApart
  <2>2. PICK c \in Stats :
          /\ Settles(c) /\ Levels(c)
          /\ stats' = [c EXCEPT !.paths_terminated = c.paths_terminated + 1]
    BY <1>5 DEF Ends
  <2>3. /\ stats'.solver_sat = c.solver_sat
        /\ stats'.solver_queries = c.solver_queries
        /\ stats'.states_created = c.states_created
    BY <2>2, PathCounted
  <2>4. QED
    BY <1>2, <2>1, <2>2, <2>3 DEF Settles, Levels
<1>6. CASE Turn /\ Splits
  <2>1. PICK c \in Stats :
          /\ Settles(c)
          /\ 2 * c.solver_sat - c.solver_queries
               = 2 * stats.solver_sat - stats.solver_queries + 2
          /\ stats' = [c EXCEPT !.states_created = c.states_created + 1]
    BY <1>6 DEF Splits
  <2>2. /\ stats'.solver_sat = c.solver_sat
        /\ stats'.solver_queries = c.solver_queries
        /\ stats'.states_created = stats.states_created + 1
    BY <2>1, StateCounted DEF Settles
  <2>3. QED
    BY <1>1, <1>2, <2>1, <2>2, StatsNat
<1>7. QED
  BY <1>3, <1>4, <1>5, <1>6, StepShape

(* With a solver that always decides, the loop never meets the limit on    *)
(* states inside a branch: each branch feasible on both sides forks.       *)
THEOREM LedgerHolds == Spec => []SolverLedger
<1>1. Init => SolverLedger
  BY LedgerInit
<1>2. TypeOK /\ (AliveInv /\ ApartInv) /\ SolverLedger /\ [Next]_vars
        => SolverLedger'
  BY LedgerStep
<1>3. QED
  BY <1>1, <1>2, TypeCorrect, ApartHolds, PTL DEF Spec

-----------------------------------------------------------------------------
(* The engine implements the division of the inputs into classes.          *)

LowerClasses == {worklist[i].pcm : i \in 1 .. Len(worklist) - 1}
OpenClasses == {worklist[i].pcm : i \in Pending}
ClosedClasses == {tests[i].cond : i \in Reported}

(* Below the top there is no state with its condition.                     *)
LEMMA ClassesNow ==
  ASSUME TypeOK, AliveInv, ApartInv, Turn
  PROVE  /\ OpenClasses = LowerClasses \cup {Top.pcm}
         /\ Top.pcm \notin LowerClasses /\ Top.pcm # {}
         /\ Len(worklist) \in Nat \ {0}
<1>1. Len(worklist) \in Nat \ {0} /\ Top.pcm # {}
  BY TopApart
<1>2. Pending = (1 .. Len(worklist) - 1) \cup {Len(worklist)}
  BY <1>1 DEF Pending
<1>3. OpenClasses = LowerClasses \cup {Top.pcm}
  BY <1>2 DEF OpenClasses, LowerClasses, Top
<1>4. Top.pcm \notin LowerClasses
  BY <1>1, TopApart DEF Apart, LowerClasses
<1>5. QED
  BY <1>1, <1>3, <1>4

LEMMA ClassesGoOn ==
  ASSUME TypeOK, AliveInv, ApartInv, Turn, GoesOn
  PROVE  \E c \in SUBSET Top.pcm :
           /\ c # {} /\ (SolverComplete => c = Top.pcm)
           /\ OpenClasses' = LowerClasses \cup {c}
           /\ ClosedClasses' = ClosedClasses
<1>1. worklist \in Seq(State) /\ worklist # << >>
  BY DEF TypeOK, Turn
<1>2. PICK st \in State : Follows(st) /\ worklist' = Append(Below, st)
  BY DEF GoesOn
<1>3. /\ Len(worklist') = Len(worklist)
      /\ \A i \in 1 .. Len(worklist) - 1 : worklist'[i] = worklist[i]
      /\ worklist'[Len(worklist)] = st
  BY <1>1, <1>2, GoesOnAt
<1>4. Pending' = (1 .. Len(worklist) - 1) \cup {Len(worklist)}
  BY <1>3, ClassesNow DEF Pending
<1>5. OpenClasses' = LowerClasses \cup {st.pcm}
  BY <1>3, <1>4 DEF OpenClasses, LowerClasses
<1>6. ClosedClasses' = ClosedClasses
  BY DEF GoesOn, ClosedClasses, Reported
<1>7. /\ st.pcm \in SUBSET Top.pcm /\ st.pcm # {}
      /\ SolverComplete => st.pcm = Top.pcm
  BY <1>2, ClassesNow DEF Follows
<1>8. QED
  BY <1>5, <1>6, <1>7

LEMMA ClassesEnd ==
  ASSUME TypeOK, AliveInv, ApartInv, Turn, Ends
  PROVE  /\ OpenClasses' = LowerClasses
         /\ ClosedClasses' = ClosedClasses \cup {Top.pcm}
<1>1. worklist \in Seq(State) /\ worklist # << >> /\ tests \in Seq(Test)
      /\ Len(tests) \in Nat
  BY LenProperties DEF TypeOK, Turn
<1>2. PICK t \in Test : Closes(t) /\ tests' = Append(tests, t)
  BY DEF Ends
<1>3. /\ Len(worklist') = Len(worklist) - 1
      /\ \A i \in 1 .. Len(worklist) - 1 : worklist'[i] = worklist[i]
  BY <1>1, EndsAt DEF Ends
<1>4. /\ Len(tests') = Len(tests) + 1
      /\ \A i \in 1 .. Len(tests) : tests'[i] = tests[i]
      /\ tests'[Len(tests) + 1] = t
  BY <1>1, <1>2, AppendAt
<1>5. OpenClasses' = LowerClasses
  BY <1>3 DEF OpenClasses, LowerClasses, Pending
<1>6. Reported' = Reported \cup {Len(tests) + 1}
  BY <1>1, <1>4 DEF Reported
<1>7. ClosedClasses' = ClosedClasses \cup {t.cond}
  BY <1>4, <1>6 DEF ClosedClasses, Reported
<1>8. QED
  BY <1>2, <1>5, <1>7 DEF Closes

LEMMA ClassesSplit ==
  ASSUME TypeOK, AliveInv, ApartInv, Turn, Splits
  PROVE  \E c \in SUBSET Top.pcm :
           /\ c # {} /\ c # Top.pcm
           /\ OpenClasses' = LowerClasses \cup {c, Top.pcm \ c}
           /\ ClosedClasses' = ClosedClasses
<1>1. worklist \in Seq(State) /\ worklist # << >>
  BY DEF TypeOK, Turn
<1>2. PICK st \in State, other \in State :
        /\ worklist' = Below \o <<other, st>>
        /\ st.pcm # {} /\ other.pcm # {}
        /\ st.pcm \cap other.pcm = {} /\ st.pcm \cup other.pcm = Top.pcm
  BY DEF Splits
<1>3. /\ Len(worklist') = Len(worklist) + 1
      /\ \A i \in 1 .. Len(worklist) - 1 : worklist'[i] = worklist[i]
      /\ worklist'[Len(worklist)] = other
      /\ worklist'[Len(worklist) + 1] = st
  BY <1>1, <1>2, SplitsAt
<1>4. Pending' = (1 .. Len(worklist) - 1)
                   \cup {Len(worklist), Len(worklist) + 1}
  BY <1>3, ClassesNow DEF Pending
<1>5. OpenClasses' = LowerClasses \cup {st.pcm, other.pcm}
  BY <1>3, <1>4 DEF OpenClasses, LowerClasses
<1>6. ClosedClasses' = ClosedClasses
  BY DEF Splits, ClosedClasses, Reported
<1>7. /\ st.pcm \in SUBSET Top.pcm /\ st.pcm # Top.pcm
      /\ other.pcm = Top.pcm \ st.pcm
  BY <1>2
<1>8. QED
  BY <1>2, <1>5, <1>6, <1>7

LEMMA PartitionInit == ASSUME Init PROVE Classify!Init
<1>1. /\ worklist = <<InitialState>> /\ tests = << >>
      /\ InitialState.pcm = Inputs
  BY DEF Init, InitialState
<1>2. Pending = {1} /\ Reported = {} /\ worklist[1].pcm = Inputs
  BY <1>1 DEF Pending, Reported
<1>3. QED
  BY <1>2 DEF Classify!Init

LEMMA StepOfClass ==
  ASSUME NEW c \in OpenClasses,
         Classify!Split(c) \/ Classify!Narrow(c) \/ Classify!Close(c)
  PROVE  Classify!Next
<1>1. \E d \in OpenClasses :
        Classify!Split(d) \/ Classify!Narrow(d) \/ Classify!Close(d)
  OBVIOUS
<1>2. QED
  BY <1>1 DEF OpenClasses, Classify!Next

LEMMA PartitionStep ==
  ASSUME TypeOK, AliveInv, ApartInv, [Next]_vars
  PROVE  [Classify!Next]_(Classify!vars)
<1>0. PICK top : top = Top.pcm
  OBVIOUS
<1>1. CASE Still
  <2>1. OpenClasses' = OpenClasses /\ ClosedClasses' = ClosedClasses
    BY <1>1 DEF Still, OpenClasses, ClosedClasses, Pending, Reported
  <2>2. QED
    BY <2>1 DEF OpenClasses, ClosedClasses, Classify!vars
<1>2. CASE Turn /\ GoesOn
  <2>1. PICK c \in SUBSET Top.pcm :
          /\ c # {} /\ (SolverComplete => c = Top.pcm)
          /\ OpenClasses' = LowerClasses \cup {c}
          /\ ClosedClasses' = ClosedClasses
    BY <1>2, ClassesGoOn
  <2>2. OpenClasses = LowerClasses \cup {Top.pcm} /\ Top.pcm \notin LowerClasses
    BY <1>2, ClassesNow
  <2>3. CASE c = Top.pcm
    BY <2>1, <2>2, <2>3 DEF OpenClasses, ClosedClasses, Classify!vars
  <2>4. CASE ~SolverComplete
    <3>1. OpenClasses' = (OpenClasses \ {Top.pcm}) \cup {c}
      BY <2>1, <2>2
    <3>2. top \in OpenClasses /\ Classify!Narrow(top)
      BY <1>0, <2>1, <2>2, <2>4, <3>1
         DEF OpenClasses, ClosedClasses, Classify!Narrow
    <3>3. QED
      BY <3>2, StepOfClass
  <2>5. QED
    BY <2>1, <2>3, <2>4
<1>3. CASE Turn /\ Ends
  <2>1. /\ OpenClasses' = OpenClasses \ {Top.pcm}
        /\ ClosedClasses' = ClosedClasses \cup {Top.pcm}
        /\ top \in OpenClasses
    BY <1>0, <1>3, ClassesEnd, ClassesNow
  <2>2. Classify!Close(top)
    BY <1>0, <2>1 DEF OpenClasses, ClosedClasses, Classify!Close
  <2>3. QED
    BY <2>1, <2>2, StepOfClass
<1>4. CASE Turn /\ Splits
  <2>1. PICK c \in SUBSET Top.pcm :
          /\ c # {} /\ c # Top.pcm
          /\ OpenClasses' = LowerClasses \cup {c, Top.pcm \ c}
          /\ ClosedClasses' = ClosedClasses
    BY <1>4, ClassesSplit
  <2>2. OpenClasses = LowerClasses \cup {Top.pcm} /\ Top.pcm \notin LowerClasses
    BY <1>4, ClassesNow
  <2>3. /\ OpenClasses' = (OpenClasses \ {Top.pcm}) \cup {c, Top.pcm \ c}
        /\ top \in OpenClasses
    BY <1>0, <2>1, <2>2
  <2>4. Classify!Split(top)
    BY <1>0, <2>1, <2>3 DEF OpenClasses, ClosedClasses, Classify!Split
  <2>5. QED
    BY <2>3, <2>4, StepOfClass
<1>5. QED
  BY <1>1, <1>2, <1>3, <1>4, StepShape

(* The engine implements PathPartition.                                    *)
THEOREM EngineRefines == Spec => PartitionsInputs
<1>1. Init => Classify!Init
  BY PartitionInit
<1>2. TypeOK /\ (AliveInv /\ ApartInv) /\ [Next]_vars
        => [Classify!Next]_(Classify!vars)
  BY PartitionStep
<1>3. QED
  BY <1>1, <1>2, TypeCorrect, ApartHolds, PTL
     DEF Spec, PartitionsInputs, Classify!Spec

-----------------------------------------------------------------------------
(* With a solver that always decides, no class loses an input.             *)

CoverInv ==
  SolverComplete => UNION (OpenClasses \cup ClosedClasses) = Inputs

LEMMA CoverInit == ASSUME Init PROVE CoverInv
<1>1. /\ worklist = <<InitialState>> /\ tests = << >>
      /\ InitialState.pcm = Inputs
  BY DEF Init, InitialState
<1>2. Pending = {1} /\ Reported = {} /\ worklist[1].pcm = Inputs
  BY <1>1 DEF Pending, Reported
<1>3. OpenClasses = {Inputs} /\ ClosedClasses = {}
  BY <1>2 DEF OpenClasses, ClosedClasses
<1>4. QED
  BY <1>3 DEF CoverInv

LEMMA CoverStep ==
  ASSUME TypeOK, AliveInv, ApartInv, CoverInv, [Next]_vars PROVE CoverInv'
<1>1. SUFFICES ASSUME SolverComplete,
                      UNION (OpenClasses \cup ClosedClasses) = Inputs
               PROVE  UNION (OpenClasses' \cup ClosedClasses') = Inputs
  BY DEF CoverInv
<1>2. CASE Still
  <2>1. OpenClasses' = OpenClasses /\ ClosedClasses' = ClosedClasses
    BY <1>2 DEF Still, OpenClasses, ClosedClasses, Pending, Reported
  <2>2. QED
    BY <1>1, <2>1
<1>3. CASE Turn /\ GoesOn
  <2>1. OpenClasses' = LowerClasses \cup {Top.pcm} /\ ClosedClasses' = ClosedClasses
    BY <1>1, <1>3, ClassesGoOn
  <2>2. OpenClasses' = OpenClasses
    BY <1>3, <2>1, ClassesNow
  <2>3. QED
    BY <1>1, <2>1, <2>2
<1>4. CASE Turn /\ Ends
  <2>0. PICK top : top = Top.pcm
    OBVIOUS
  <2>1. /\ OpenClasses' = OpenClasses \ {top} /\ top \in OpenClasses
        /\ ClosedClasses' = ClosedClasses \cup {top}
    BY <1>4, <2>0, ClassesEnd, ClassesNow
  <2>2. OpenClasses' \cup ClosedClasses' = OpenClasses \cup ClosedClasses
    BY <2>1
  <2>3. QED
    BY <1>1, <2>2
<1>5. CASE Turn /\ Splits
  <2>0. PICK top, low, done :
          top = Top.pcm /\ low = LowerClasses /\ done = ClosedClasses
    OBVIOUS
  <2>1. PICK c \in SUBSET Top.pcm :
          /\ OpenClasses' = LowerClasses \cup {c, Top.pcm \ c}
          /\ ClosedClasses' = ClosedClasses
    BY <1>5, ClassesSplit
  <2>2. OpenClasses = LowerClasses \cup {Top.pcm}
    BY <1>5, ClassesNow
  <2>3. UNION (OpenClasses' \cup ClosedClasses')
          = UNION (OpenClasses \cup ClosedClasses)
    <3>1. PICK d \in SUBSET top :
            /\ OpenClasses' = low \cup {d, top \ d} /\ ClosedClasses' = done
            /\ OpenClasses = low \cup {top} /\ ClosedClasses = done
      BY <2>0, <2>1, <2>2
    <3>2. UNION (low \cup {d, top \ d} \cup done)
            = UNION (low \cup {top} \cup done)
      <4>1. ASSUME NEW v \in UNION (low \cup {d, top \ d} \cup done)
            PROVE  v \in UNION (low \cup {top} \cup done)
        OBVIOUS
      <4>2. ASSUME NEW v \in UNION (low \cup {top} \cup done)
            PROVE  v \in UNION (low \cup {d, top \ d} \cup done)
        OBVIOUS
      <4>3. QED
        BY <4>1, <4>2
    <3>3. QED
      BY <3>1, <3>2
  <2>4. QED
    BY <1>1, <2>1, <2>3
<1>6. QED
  BY <1>2, <1>3, <1>4, <1>5, StepShape

(* Every input stays on a path: the loop neither forgets a side of a       *)
(* branch nor drops a state.                                               *)
THEOREM NoInputIsLost == Spec => []NoInputLost
<1>1. Init => CoverInv
  BY CoverInit
<1>2. TypeOK /\ (AliveInv /\ ApartInv) /\ CoverInv /\ [Next]_vars => CoverInv'
  BY CoverStep
<1>3. CoverInv => NoInputLost
  <2>1. SUFFICES ASSUME CoverInv, SolverComplete, NEW v \in Inputs
                 PROVE  \/ \E i \in Pending : v \in worklist[i].pcm
                        \/ \E i \in Reported : v \in tests[i].cond
    BY DEF NoInputLost
  <2>2. (\E c \in OpenClasses : v \in c) \/ (\E c \in ClosedClasses : v \in c)
    BY <2>1 DEF CoverInv
  <2>3. ASSUME NEW c \in OpenClasses, v \in c
        PROVE  \E i \in Pending : v \in worklist[i].pcm
    BY <2>3 DEF OpenClasses
  <2>4. ASSUME NEW c \in ClosedClasses, v \in c
        PROVE  \E i \in Reported : v \in tests[i].cond
    BY <2>4 DEF ClosedClasses
  <2>5. QED
    BY <2>2, <2>3, <2>4
<1>4. QED
  BY <1>1, <1>2, <1>3, TypeCorrect, ApartHolds, PTL DEF Spec

-----------------------------------------------------------------------------
(* The end of a run.                                                       *)

FinishedInv == ~running /\ ~aborted => ~MayIterate
AssignedInv ==
  SolverComplete => \A i \in 1 .. Len(tests) : tests[i].assignments # {}

LEMMA FinishedInit == ASSUME Init PROVE FinishedInv /\ AssignedInv
<1>1. running = TRUE /\ Len(tests) = 0
  BY DEF Init
<1>2. QED
  BY <1>1 DEF FinishedInv, AssignedInv

LEMMA FinishedStep ==
  ASSUME TypeOK, FinishedInv, [Next]_vars PROVE FinishedInv'
<1>1. CASE Still
  BY <1>1 DEF Still, FinishedInv, MayIterate
<1>2. CASE Turn
  BY <1>2 DEF Turn, FinishedInv, MayIterate
<1>3. QED
  BY <1>1, <1>2, StepShape

LEMMA AssignedStep ==
  ASSUME TypeOK, AliveInv, ApartInv, AssignedInv, [Next]_vars
  PROVE  AssignedInv'
<1>1. CASE tests' = tests
  BY <1>1 DEF AssignedInv
<1>2. CASE Turn /\ Ends
  <2>1. /\ worklist \in Seq(State) /\ worklist # << >>
        /\ tests \in Seq(Test) /\ Len(tests) \in Nat
    BY <1>2, LenProperties DEF TypeOK, Turn
  <2>2. PICK t \in Test : Closes(t) /\ tests' = Append(tests, t)
    BY <1>2 DEF Ends
  <2>3. SolverComplete => t.assignments # {}
    BY <1>2, <2>2, TopApart DEF Closes
  <2>4. /\ Len(tests') = Len(tests) + 1
        /\ \A i \in 1 .. Len(tests) : tests'[i] = tests[i]
        /\ tests'[Len(tests) + 1] = t
    BY <2>1, <2>2, AppendAt
  <2>5. \A i \in 1 .. Len(tests) + 1 :
          i \in 1 .. Len(tests) \/ i = Len(tests) + 1
    BY <2>1
  <2>6. QED
    BY <2>3, <2>4, <2>5 DEF AssignedInv
<1>3. QED
  BY <1>1, <1>2, StepShape DEF Still, GoesOn, Splits

(* A run that returns without having met a limit has tested every input:   *)
(* it has dropped no state, and each test case carries an assignment.      *)
THEOREM InputsAreTested == Spec => []EveryInputTested
<1>1. Init => FinishedInv /\ AssignedInv
  BY FinishedInit
<1>2. TypeOK /\ FinishedInv /\ [Next]_vars => FinishedInv'
  BY FinishedStep
<1>3. TypeOK /\ (AliveInv /\ ApartInv) /\ AssignedInv /\ [Next]_vars => AssignedInv'
  BY AssignedStep
<1>4. TypeOK /\ FinishedInv /\ AssignedInv /\ NoInputLost => EveryInputTested
  <2>1. SUFFICES ASSUME TypeOK, FinishedInv, AssignedInv, NoInputLost,
                        ~running, ~aborted, ~LimitReached
                 PROVE  /\ worklist = << >>
                        /\ SolverComplete =>
                             \A v \in Inputs : \E i \in Reported :
                               v \in tests[i].cond /\ tests[i].assignments # {}
    BY DEF EveryInputTested
  <2>2. steps < MaxSteps
    BY <2>1, LimitsAssumption DEF TypeOK, LimitReached
  <2>3. worklist = << >>
    <3>1. stats.states_created \in Nat
      BY <2>1, StatsNat DEF TypeOK
    <3>2. stats.states_created < MaxStates
      BY <2>1, <3>1, LimitsAssumption DEF LimitReached
    <3>3. QED
      BY <2>1, <2>2, <3>2 DEF FinishedInv, MayIterate
  <2>4. Pending = {}
    BY <2>3 DEF Pending
  <2>5. QED
    BY <2>1, <2>3, <2>4 DEF NoInputLost, AssignedInv, Reported
<1>5. QED
  BY <1>1, <1>2, <1>3, <1>4, TypeCorrect, ApartHolds, NoInputIsLost, PTL DEF Spec
=============================================================================
