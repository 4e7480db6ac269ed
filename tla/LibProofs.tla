------------------------------ MODULE LibProofs ------------------------------
(***************************************************************************)
(* Theorems about the library's executor, for all programs, clients and    *)
(* limits.  First, that no handler touches what the theorems are about;    *)
(* then, that every step has one of a few shapes; last, that every shape   *)
(* preserves an invariant from which the properties follow.                *)
(***************************************************************************)
EXTENDS LibProps, LibTests, SequenceTheorems, FiniteSetTheorems, NatRecursion, TLAPS

(* A state the proofs can look into.                                       *)
IsState(s) == {"type", "constraints", "history", "steps"} \subseteq DOMAIN s

(* Whatever else an instruction or a client does to a state.               *)
Keeps(s, t) ==
  /\ DOMAIN t = DOMAIN s
  /\ t.type = s.type /\ t.constraints = s.constraints
  /\ t.history = s.history /\ t.steps = s.steps

LEMMA SetOperandKeeps ==
  ASSUME NEW s, NEW o, NEW value, IsState(s)
  PROVE  Keeps(s, setOperandValue(s, o, value))
<1>1. CASE o.kind = "reg"
  BY <1>1 DEF setOperandValue, IsState, Keeps
<1>2. CASE o.kind = "mem"
  BY <1>2 DEF setOperandValue, IsState, Keeps
<1>3. CASE o.kind # "reg" /\ o.kind # "mem"
  BY <1>3 DEF setOperandValue, IsState, Keeps
<1>4. QED
  BY <1>1, <1>2, <1>3

LEMMA UpdateFlagsKeeps ==
  ASSUME NEW s, NEW r, IsState(s)
  PROVE  Keeps(s, updateFlags(s, r))
BY DEF updateFlags, IsState, Keeps

LEMMA KeepsTransitive ==
  ASSUME NEW s, NEW t, NEW u, IsState(s), Keeps(s, t), Keeps(t, u)
  PROVE  IsState(t) /\ Keeps(s, u)
BY DEF IsState, Keeps

LEMMA ArithmeticKeeps ==
  ASSUME NEW s, NEW i, IsState(s)
  PROVE  Keeps(s, executeArithmetic(s, i))
<1> DEFINE r == Apply(Op[i.mnemonic], getOperandValue(s, i.operands[1]),
                                      getOperandValue(s, i.operands[2]))
           t == setOperandValue(s, i.operands[1], r)
<1>1. executeArithmetic(s, i) =
        IF i.mnemonic \in {"add", "sub"} THEN updateFlags(t, r) ELSE t
  BY DEF executeArithmetic
<1> HIDE DEF r
<1>2. Keeps(s, t) /\ IsState(t)
  BY SetOperandKeeps DEF Keeps, IsState
<1> HIDE DEF t
<1>3. QED
  BY <1>1, <1>2, UpdateFlagsKeeps, KeepsTransitive

LEMMA PopKeeps ==
  ASSUME NEW s, NEW i, IsState(s)
  PROVE  Keeps(s, executePOP(s, i))
<1> DEFINE raised == [s EXCEPT !.stackTop = @ + 1]
           t == setOperandValue(raised, i.operands[1], read(s.memory, s.stackTop))
<1>1. executePOP(s, i) = [t EXCEPT !.registers =
         set(@, "rsp", Apply("add", get(@, "rsp"), Concrete(1)))]
  BY DEF executePOP
<1>2. IsState(raised) /\ Keeps(s, raised)
  BY DEF IsState, Keeps
<1> HIDE DEF raised
<1>3. Keeps(raised, t)
  BY <1>2, SetOperandKeeps
<1>4. IsState(t) /\ Keeps(s, t)
  <2> HIDE DEF t
  <2>1. QED
    BY <1>2, <1>3 DEF Keeps, IsState
<1> HIDE DEF t
<1>5. QED
  BY <1>1, <1>4 DEF IsState, Keeps

LEMMA StraightKeeps ==
  ASSUME NEW s, NEW i, IsState(s)
  PROVE  Keeps(s, Straight(s, i))
<1>1. Keeps(s, executeMOV(s, i))
  BY SetOperandKeeps DEF executeMOV
<1>2. Keeps(s, executeLEA(s, i))
  BY SetOperandKeeps DEF executeLEA
<1>3. Keeps(s, executePUSH(s, i))
  BY DEF executePUSH, IsState, Keeps
<1>4. Keeps(s, executeCMP(s, i))
  BY UpdateFlagsKeeps DEF executeCMP
<1>5. Keeps(s, s)
  BY DEF Keeps
<1>6. Keeps(s, executePOP(s, i)) /\ Keeps(s, executeArithmetic(s, i))
  BY PopKeeps, ArithmeticKeeps
<1>7. Straight(s, i) \in
        {executeMOV(s, i), executeLEA(s, i), executePUSH(s, i), executePOP(s, i),
         executeArithmetic(s, i), executeCMP(s, i), s}
  BY Zenon DEF Straight
<1>8. QED
  BY <1>1, <1>2, <1>3, <1>4, <1>5, <1>6, <1>7

LEMMA TransferKeeps ==
  ASSUME NEW s, NEW i, IsState(s)
  PROVE  Keeps(s, Transfer(s, i)) /\ IsState(Transfer(s, i))
<1> DEFINE moved == [Straight(s, i) EXCEPT !.pc = Next_(s, i)]
           jumped == [s EXCEPT !.pc = Target(s, i)]
<1>1. Keeps(s, moved)
  BY StraightKeeps DEF IsState, Keeps
<1>2. Keeps(s, jumped)
  BY DEF IsState, Keeps
<1>3. Keeps(s, executeCALL(s, i)) /\ Keeps(s, executeRET(s))
  BY DEF executeCALL, executeRET, IsState, Keeps
<1>4. Transfer(s, i) \in {moved, jumped, executeCALL(s, i), executeRET(s)}
  BY Zenon DEF Transfer
<1>5. Keeps(s, Transfer(s, i))
  BY <1>1, <1>2, <1>3, <1>4
<1>6. QED
  BY <1>5 DEF IsState, Keeps

(* The client's callback marks data and nothing else.                      *)
LEMMA MarkedKeeps ==
  ASSUME NEW s, NEW a, IsState(s)
  PROVE  Keeps(s, Marked(s, a))
<1>1. CASE \E m \in client.marks : m.at = a
  <2> DEFINE m == CHOOSE m \in client.marks : m.at = a
             t == setOperandValue(s, m.to, makeSymbolic(m.name))
  <2>1. Marked(s, a) = [t EXCEPT !.symbolicInputs = @ \cup {m.name}]
    BY <1>1 DEF Marked
  <2>2. Keeps(s, t)
    BY SetOperandKeeps
  <2> HIDE DEF t
  <2>3. QED
    BY <2>1, <2>2 DEF IsState, Keeps
<1>2. CASE ~\E m \in client.marks : m.at = a
  BY <1>2 DEF Marked, Keeps
<1>3. QED
  BY <1>1, <1>2

LEMMA RecordedKeeps ==
  ASSUME NEW s, IsState(s), s.history \in Nat
  PROVE  /\ IsState(Recorded(s))
         /\ Recorded(s).type = s.type
         /\ Recorded(s).constraints = s.constraints
         /\ Recorded(s).history = s.history + 1
         /\ Recorded(s).steps = s.steps + 1
<1> DEFINE t == [s EXCEPT !.history = @ + 1, !.steps = @ + 1]
<1>1. /\ IsState(t)
      /\ t.type = s.type /\ t.constraints = s.constraints
      /\ t.history = s.history + 1 /\ t.steps = s.steps + 1
  BY DEF IsState
<1>2. Recorded(s) = Marked(t, s.pc)
  BY DEF Recorded
<1> HIDE DEF t
<1>3. QED
  BY <1>1, <1>2, MarkedKeeps DEF IsState, Keeps

-----------------------------------------------------------------------------
(* The heap and the worklist.                                              *)

LEMMA Appended ==
  ASSUME NEW s, s \in Seq(Range(s)), NEW x
  PROVE  /\ Len(s) \in Nat /\ DOMAIN s = 1 .. Len(s)
         /\ DOMAIN Append(s, x) = 1 .. Len(s) + 1
         /\ \A k \in 1 .. Len(s) : Append(s, x)[k] = s[k]
         /\ Append(s, x)[Len(s) + 1] = x
         /\ Append(s, x) \in Seq(Range(Append(s, x)))
         /\ Append(s, x) # <<>>
<1> DEFINE S == Range(s) \cup {x}
<1>1. s \in Seq(S) /\ x \in S
  BY SeqMonotonic
<1> HIDE DEF S
<1>2. Append(s, x) \in Seq(S) /\ Append(s, x) # <<>>
      /\ Len(Append(s, x)) = Len(s) + 1
      /\ (\A k \in 1 .. Len(s) : Append(s, x)[k] = s[k])
      /\ Append(s, x)[Len(s) + 1] = x
  BY <1>1, AppendProperties
<1>3. Append(s, x) \in Seq(Range(Append(s, x)))
  BY <1>2, SeqOfRange
<1>4. QED
  BY <1>1, <1>2, <1>3, LenProperties

LEMMA Updated ==
  ASSUME NEW s, s \in Seq(Range(s)), NEW k \in DOMAIN s, NEW x
  PROVE  /\ DOMAIN [s EXCEPT ![k] = x] = DOMAIN s
         /\ Len([s EXCEPT ![k] = x]) = Len(s)
         /\ [s EXCEPT ![k] = x][k] = x
         /\ \A j \in DOMAIN s \ {k} : [s EXCEPT ![k] = x][j] = s[j]
         /\ [s EXCEPT ![k] = x] \in Seq(Range([s EXCEPT ![k] = x]))
<1> DEFINE S == Range(s) \cup {x}
           t == [s EXCEPT ![k] = x]
<1>1. s \in Seq(S) /\ x \in S /\ k \in 1 .. Len(s)
  BY SeqMonotonic, LenProperties
<1> HIDE DEF S
<1>2. t \in Seq(S) /\ Len(t) = Len(s)
  BY <1>1, ExceptSeq
<1>3. t \in Seq(Range(t))
  BY <1>2, SeqOfRange
<1>4. QED
  BY <1>2, <1>3

-----------------------------------------------------------------------------
(* What the next state needs of this one.                                  *)

Lists ==
  /\ heap \in Seq(Range(heap))
  /\ worklist \in Seq(Pointers) /\ IsInjective(worklist)
  /\ slice \in BOOLEAN /\ (slice => current \in Pointers /\ current \notin Waiting)
  /\ stage \in {"new", "loaded"} => heap = <<>> /\ ~slice

(* A waiting state has executed nothing by itself, the one being run what  *)
(* the counter of the inner loop says.                                     *)
Histories ==
  /\ instructionCount \in 0 .. MaxInstructions
  /\ \A h \in Waiting : heap[h].history = 0
  /\ slice => heap[current].history = instructionCount

Divides ==
  /\ \A h \in Pointers : /\ IsState(heap[h])
                         /\ heap[h].constraints # {}
                         /\ heap[h].constraints \subseteq Valuations
  /\ \A h, k \in Pointers :
       h # k => heap[h].constraints \cap heap[k].constraints = {}
  /\ heap # <<>> /\ SolverComplete =>
       \A v \in Valuations : \E h \in Pointers : v \in heap[h].constraints

Places ==
  /\ \A h \in Waiting : heap[h].type = "SUSPENDED"
  /\ slice => heap[current].type = "ACTIVE"
  /\ \A h \in Pointers \ Live :
       \/ heap[h].type = "TERMINATED"
       \/ /\ heap[h].type = "ACTIVE"
          /\ heap[h].history = MaxInstructions \/ ~running

(* A state has come at least as far as the instructions it executed by     *)
(* itself.                                                                 *)
Far(s) == s.history \in Nat /\ s.steps \in Nat /\ s.history <= s.steps
Lengths == \A h \in Pointers : Far(heap[h])

IInv ==
  /\ Lists /\ Histories /\ Divides
  /\ SolverComplete => Places /\ Lengths

LEMMA DividesImplies == Divides => DividesValuations
BY DEF Divides, DividesValuations

LEMMA PlacesImply == Lists /\ Places /\ Lengths => StatesAccounted
BY MaxInstructionsAssumption
   DEF Lists, Places, Lengths, Far, StatesAccounted, Running, Live

-----------------------------------------------------------------------------
(* The shapes of a step.                                                   *)

Quiet ==
  /\ UNCHANGED <<heap, worklist, current, slice, instructionCount>>
  /\ running' = running \/ ~running'
  /\ stage' \in {"new", "loaded"} => stage \in {"new", "loaded"}

Starts ==
  /\ stage = "loaded" /\ stage' = "exploring" /\ createState(Entry)
  /\ UNCHANGED <<current, slice, instructionCount>>

Picks ==
  /\ stage = "exploring" /\ ~slice /\ worklist # <<>>
  /\ heap' = [heap EXCEPT ![Last(worklist)].type = "ACTIVE"]
  /\ worklist' = Front(worklist)
  /\ current' = Last(worklist) /\ slice' = TRUE /\ instructionCount' = 0
  /\ UNCHANGED <<stage, running>>

Leaves ==
  /\ slice /\ ~(running /\ instructionCount < MaxInstructions)
  /\ slice' = FALSE
  /\ UNCHANGED <<heap, worklist, current, instructionCount, stage, running>>

Removes ==
  /\ slice /\ slice' = FALSE
  /\ heap' = [heap EXCEPT ![current].type = "TERMINATED"]
  /\ worklist' = worklist
  /\ UNCHANGED <<current, instructionCount, stage, running>>

Works ==
  /\ slice /\ running /\ instructionCount < MaxInstructions
  /\ instructionCount' = instructionCount + 1
  /\ UNCHANGED <<stage, current, slice>>

(* The state being run gives up valuations, or is marked terminated, only  *)
(* because of a query that was not decided.                                *)
GoesOn(t) ==
  /\ heap' = [heap EXCEPT ![current] = t] /\ worklist' = worklist
  /\ IsState(t) /\ t.history = heap[current].history + 1
  /\ t.constraints # {} /\ t.constraints \subseteq heap[current].constraints
  /\ SolverComplete => /\ t.constraints = heap[current].constraints
                       /\ t.type = heap[current].type
                       /\ t.steps = heap[current].steps + 1

Splits(t, u) ==
  /\ heap' = Append([heap EXCEPT ![current] = t], u)
  /\ worklist' = Append(worklist, Len(heap) + 1)
  /\ IsState(t) /\ t.history = heap[current].history + 1
  /\ t.type = heap[current].type
  /\ t.steps = heap[current].steps + 1 /\ u.steps = t.steps
  /\ IsState(u) /\ u.history = 0 /\ u.type = "SUSPENDED"
  /\ t.constraints # {} /\ u.constraints # {}
  /\ t.constraints \cap u.constraints = {}
  /\ t.constraints \cup u.constraints = heap[current].constraints

LEMMA ForkShape ==
  ASSUME IInv, slice, NEW s, IsState(s), NEW holds, NEW target, NEW next,
         s.type = heap[current].type, s.constraints = heap[current].constraints,
         s.history = heap[current].history + 1,
         s.steps = heap[current].steps + 1,
         forkState(s, holds, target, next)
  PROVE  (\E t : GoesOn(t)) \/ (\E t, u : Splits(t, u))
<1> DEFINE yes == [addConstraint(s, holds) EXCEPT !.pc = target]
           no == [addConstraint(s, Valuations \ holds) EXCEPT !.pc = next]
           copy == [addConstraint(fork(s), Valuations \ holds) EXCEPT !.pc = next]
           ended == [s EXCEPT !.type = "TERMINATED", !.steps = @ - 1]
<1>1. s.constraints # {} /\ s.constraints \subseteq Valuations
  BY DEF IInv, Lists, Divides
<1>2. /\ IsState(yes) /\ yes.type = s.type /\ yes.history = s.history
      /\ yes.steps = s.steps
      /\ yes.constraints = s.constraints \cap holds
  BY DEF addConstraint, IsState
<1>3. /\ IsState(no) /\ no.type = s.type /\ no.history = s.history
      /\ no.steps = s.steps
      /\ no.constraints = s.constraints \ holds
  BY <1>1 DEF addConstraint, IsState
<1>4. /\ IsState(ended) /\ ended.history = s.history
      /\ ended.constraints = s.constraints
  BY DEF IsState
<1>5. /\ IsState([copy EXCEPT !.id = getTotalStates])
      /\ [copy EXCEPT !.id = getTotalStates].type = "SUSPENDED"
      /\ [copy EXCEPT !.id = getTotalStates].history = 0
      /\ [copy EXCEPT !.id = getTotalStates].steps = s.steps
      /\ [copy EXCEPT !.id = getTotalStates].constraints = s.constraints \ holds
  BY <1>1 DEF addConstraint, fork, IsState
<1>6. PICK t \in checkFeasibility(s.constraints \cap holds),
           f \in checkFeasibility(s.constraints \ holds) :
        IF t /\ f
        THEN /\ heap' = Append([heap EXCEPT ![current] = yes],
                               [copy EXCEPT !.id = getTotalStates])
             /\ worklist' = Append(worklist, Len(heap) + 1)
        ELSE /\ heap' = [heap EXCEPT ![current] =
                           IF t THEN yes ELSE IF f THEN no ELSE ended]
             /\ worklist' = worklist
  <2> DEFINE both == Forked(s, holds, target, next)
  <2>1. PICK t \in checkFeasibility(s.constraints \cap holds),
             f \in checkFeasibility(s.constraints \ holds) :
          /\ stats' = Tallied(t, f)
          /\ IF BothWays(t, f)
             THEN /\ heap' = Append([heap EXCEPT ![current] = both[1]],
                                    [both[2] EXCEPT !.id = getTotalStates])
                  /\ worklist' = Append(worklist, Len(heap) + 1)
             ELSE /\ heap' = [heap EXCEPT ![current] =
                                IF t THEN yes ELSE IF f THEN no ELSE ended]
                  /\ UNCHANGED worklist
          /\ UNCHANGED <<allStates, stateCounter>>
    BY Zenon DEF forkState
  <2>2. both[1] = yes /\ both[2] = copy
    BY DEF Forked
  <2>3. BothWays(t, f) = (t /\ f)
    BY DEF BothWays
  <2> HIDE DEF yes, no, copy, ended, both
  <2>4. QED
    BY <2>1, <2>2, <2>3
<1>7. /\ t \in BOOLEAN /\ f \in BOOLEAN
      /\ t => s.constraints \cap holds # {}
      /\ f => s.constraints \ holds # {}
      /\ SolverComplete /\ ~t => s.constraints \cap holds = {}
      /\ SolverComplete /\ ~f => s.constraints \ holds = {}
  BY DEF checkFeasibility
<1> HIDE DEF yes, no, copy, ended
<1>8. CASE t /\ f
  <2>1. Splits(yes, [copy EXCEPT !.id = getTotalStates])
    BY <1>2, <1>5, <1>6, <1>7, <1>8 DEF Splits
  <2>2. QED
    BY <2>1
<1>9. CASE t /\ ~f
  <2>1. GoesOn(yes)
    BY <1>2, <1>6, <1>7, <1>9 DEF GoesOn
  <2>2. QED
    BY <2>1
<1>10. CASE ~t /\ f
  <2>1. GoesOn(no)
    BY <1>3, <1>6, <1>7, <1>10 DEF GoesOn
  <2>2. QED
    BY <2>1
<1>11. CASE ~t /\ ~f
  <2>1. GoesOn(ended)
    BY <1>1, <1>4, <1>6, <1>7, <1>11 DEF GoesOn
  <2>2. QED
    BY <2>1
<1>12. QED
  BY <1>7, <1>8, <1>9, <1>10, <1>11

LEMMA InstructionShape ==
  ASSUME IInv, executeInstruction
  PROVE  Works /\ ((\E t : GoesOn(t)) \/ (\E t, u : Splits(t, u)))
<1> DEFINE s == Recorded(heap[current])
           i == program[s.pc]
<1>1. Works
  BY DEF executeInstruction, InSlice, Works
<1>2. current \in Pointers /\ IsState(heap[current]) /\ slice
      /\ heap[current].history = instructionCount /\ instructionCount \in Nat
  BY <1>1 DEF IInv, Lists, Histories, Divides, Works
<1>3. /\ IsState(s) /\ s.type = heap[current].type
      /\ s.constraints = heap[current].constraints
      /\ s.history = heap[current].history + 1
      /\ s.steps = heap[current].steps + 1
  BY <1>2, RecordedKeeps
<1>4. \/ forkState(s, Condition(s, i.mnemonic), Target(s, i), Next_(s, i))
      \/ heap' = [heap EXCEPT ![current] = Transfer(s, i)] /\ worklist' = worklist
  BY DEF executeInstruction
<1> HIDE DEF s, i
<1>5. CASE forkState(s, Condition(s, i.mnemonic), Target(s, i), Next_(s, i))
  BY <1>1, <1>2, <1>3, <1>5, ForkShape
<1>6. CASE heap' = [heap EXCEPT ![current] = Transfer(s, i)] /\ worklist' = worklist
  <2>1. Keeps(s, Transfer(s, i)) /\ IsState(Transfer(s, i))
    BY <1>3, TransferKeeps
  <2>2. heap[current].constraints # {}
    BY <1>2 DEF IInv, Divides
  <2>3. GoesOn(Transfer(s, i))
    BY <1>3, <1>6, <2>1, <2>2 DEF GoesOn, Keeps
  <2>4. QED
    BY <1>1, <2>3
<1>7. QED
  BY <1>4, <1>5, <1>6

LEMMA RemovesShape ==
  ASSUME IInv, slice, slice' = FALSE, removeState(current),
         UNCHANGED <<current, instructionCount, stage, running>>
  PROVE  Removes
<1>1. worklist \in Seq(Pointers) /\ current \notin Waiting
  BY DEF IInv, Lists
<1>2. \A k \in 1 .. Len(worklist) : worklist[k] # current
  BY <1>1, LenProperties DEF Waiting
<1>3. RemoveFirst(worklist, current) = worklist
  BY <1>2 DEF RemoveFirst
<1>4. QED
  BY <1>3 DEF removeState, Removes

LEMMA Shapes ==
  ASSUME IInv, [Next]_vars
  PROVE  \/ Quiet \/ Starts \/ Picks \/ Leaves \/ Removes
         \/ Works /\ ((\E t : GoesOn(t)) \/ (\E t, u : Splits(t, u)))
<1>1. CASE UNCHANGED vars
  BY <1>1 DEF vars, managerVars, given, execVars, Quiet
<1>2. CASE loadBinary
  BY <1>2 DEF loadBinary, managerVars, Quiet
<1>3. CASE executeFrom
  BY <1>3 DEF executeFrom, managerVars, Quiet, Starts
<1>4. CASE Complete
  BY <1>4 DEF Complete, managerVars, Quiet
<1>5. CASE GiveUp
  BY <1>5 DEF GiveUp, managerVars, Quiet
<1>6. CASE Pick
  BY <1>6 DEF Pick, AtLoop, getNextState, Picks
<1>7. CASE LeaveSlice
  BY <1>7 DEF LeaveSlice, managerVars, Leaves
<1>8. CASE ReachEnd
  BY <1>8, RemovesShape DEF ReachEnd, InSlice
<1>9. CASE Fail
  BY <1>9, RemovesShape DEF Fail, InSlice
<1>10. CASE executeInstruction
  BY <1>10, InstructionShape
<1>11. QED
  BY <1>1, <1>2, <1>3, <1>4, <1>5, <1>6, <1>7, <1>8, <1>9, <1>10 DEF Next

-----------------------------------------------------------------------------
(* Every shape preserves the invariant.                                    *)

LEMMA HeapOfOne ==
  ASSUME heap \in Seq(Range(heap))
  PROVE  Len(heap) \in Nat /\ Pointers = 1 .. Len(heap)
BY LenProperties DEF Pointers

LEMMA WorklistDomain ==
  ASSUME Lists
  PROVE  /\ Len(worklist) \in Nat /\ DOMAIN worklist = 1 .. Len(worklist)
         /\ Waiting \subseteq Pointers
BY LenProperties, ElementOfSeq DEF Lists, Waiting

LEMMA InitIInv == Init => IInv
<1> SUFFICES ASSUME Init PROVE IInv
  OBVIOUS
<1>1. heap = <<>> /\ worklist = <<>> /\ slice = FALSE /\ instructionCount = 0
  BY DEF Init, InitManager
<1>2. \A S : <<>> \in Seq(S)
  BY EmptySeq
<1>3. Pointers = {} /\ Waiting = {} /\ DOMAIN worklist = {}
  BY <1>1 DEF Pointers, Waiting
<1>4. Lists
  BY <1>1, <1>2, <1>3 DEF Lists, IsInjective
<1>5. Histories
  BY <1>1, <1>3, MaxInstructionsAssumption DEF Histories
<1>6. Divides /\ Places /\ Lengths
  BY <1>1, <1>3 DEF Divides, Places, Lengths
<1>7. QED
  BY <1>4, <1>5, <1>6 DEF IInv

LEMMA QuietKeeps ==
  ASSUME IInv, Quiet
  PROVE  IInv'
<1>1. Pointers' = Pointers /\ Waiting' = Waiting /\ Live' = Live
  BY DEF Quiet, Pointers, Waiting, Live, Running
<1>2. Lists'
  BY <1>1 DEF IInv, Lists, Quiet
<1>3. Histories' /\ Divides'
  BY <1>1 DEF IInv, Histories, Divides, Quiet
<1>4. Places /\ Lengths => Places' /\ Lengths'
  BY <1>1 DEF Places, Lengths, Quiet
<1>5. QED
  BY <1>2, <1>3, <1>4 DEF IInv

LEMMA ValuationsExist == Valuations # {}
<1>1. 0 \in Word
  BY BitsAssumption DEF Word, Size
<1>2. [n \in Names |-> 0] \in Valuations
  BY <1>1 DEF Valuations
<1>3. QED
  BY <1>2

LEMMA StartsKeeps ==
  ASSUME IInv, Starts
  PROVE  IInv'
<1> DEFINE s == NewState(stateCounter, Entry)
<1>1. heap = <<>> /\ ~slice /\ slice \in BOOLEAN
  BY DEF IInv, Lists, Starts
<1>2. Pointers = {} /\ Len(heap) = 0
  BY <1>1 DEF Pointers
<1>3. worklist = <<>>
  BY <1>2, ElementOfSeq, LenProperties, EmptySeq DEF IInv, Lists
<1>4. IsState(s) /\ s.type = "SUSPENDED" /\ s.constraints = Valuations
      /\ s.history = 0 /\ s.steps = 0
  BY DEF NewState, IsState
<1> HIDE DEF s
<1>5. heap' = Append(heap, s) /\ worklist' = Append(worklist, 1)
  BY <1>2 DEF Starts, createState, s
<1>6. Pointers' = {1} /\ heap'[1] = s /\ heap' \in Seq(Range(heap'))
  <2>1. heap \in Seq(Range(heap))
    BY DEF IInv, Lists
  <2>2. /\ DOMAIN Append(heap, s) = 1 .. Len(heap) + 1
        /\ Append(heap, s)[Len(heap) + 1] = s
        /\ Append(heap, s) \in Seq(Range(Append(heap, s)))
    BY <2>1, Appended
  <2>3. DOMAIN heap' = {1}
    BY <1>2, <1>5, <2>2
  <2>4. QED
    BY <1>2, <1>5, <2>2, <2>3 DEF Pointers
<1>7. worklist' \in Seq({1}) /\ DOMAIN worklist' = {1} /\ worklist'[1] = 1
  <2>1. worklist \in Seq({1}) /\ Len(worklist) = 0
    BY <1>3, EmptySeq
  <2>2. QED
    BY <1>5, <2>1, AppendProperties, LenProperties
<1>8. Waiting' = {1} /\ Live' = {1}
  BY <1>1, <1>7 DEF Waiting, Live, Running, Starts
<1>9. Lists'
  BY <1>1, <1>6, <1>7 DEF Lists, IsInjective, Starts
<1>10. Histories'
  BY <1>1, <1>4, <1>6, <1>8 DEF IInv, Histories, Starts
<1>11. Divides'
  BY <1>4, <1>6, ValuationsExist DEF Divides
<1>12. Places' /\ Lengths'
  BY <1>1, <1>4, <1>6, <1>8 DEF Places, Lengths, Far, Starts
<1>13. QED
  BY <1>9, <1>10, <1>11, <1>12 DEF IInv

(* A step that changes the type of one state and nothing else in the heap. *)
LEMMA Retyped ==
  ASSUME IInv, NEW k \in Pointers, NEW type,
         heap' = [heap EXCEPT ![k].type = type]
  PROVE  /\ heap' \in Seq(Range(heap')) /\ Pointers' = Pointers
         /\ heap'[k].type = type
         /\ \A h \in Pointers : /\ heap'[h].history = heap[h].history
                                /\ h # k => heap'[h] = heap[h]
         /\ Divides' /\ (Lengths => Lengths')
<1> DEFINE s == [heap[k] EXCEPT !.type = type]
<1>1. IsState(heap[k])
  BY DEF IInv, Divides
<1>2. /\ IsState(s) /\ s.type = type
      /\ s.constraints = heap[k].constraints /\ s.history = heap[k].history
      /\ s.steps = heap[k].steps
  BY <1>1 DEF IsState
<1>3. heap' = [heap EXCEPT ![k] = s]
  OBVIOUS
<1> HIDE DEF s
<1>4. heap \in Seq(Range(heap)) /\ k \in DOMAIN heap
  BY DEF IInv, Lists, Pointers
<1>5. /\ heap' \in Seq(Range(heap')) /\ Pointers' = Pointers
      /\ heap'[k] = s /\ \A h \in Pointers \ {k} : heap'[h] = heap[h]
  <2>1. /\ DOMAIN [heap EXCEPT ![k] = s] = DOMAIN heap
        /\ [heap EXCEPT ![k] = s][k] = s
        /\ \A j \in DOMAIN heap \ {k} : [heap EXCEPT ![k] = s][j] = heap[j]
        /\ [heap EXCEPT ![k] = s] \in Seq(Range([heap EXCEPT ![k] = s]))
    BY <1>4, Updated
  <2>2. QED
    BY <1>3, <2>1 DEF Pointers
<1>6. \A h \in Pointers : heap'[h].constraints = heap[h].constraints
                          /\ IsState(heap'[h])
  BY <1>2, <1>5 DEF IInv, Divides
<1>7. heap # <<>>
  BY <1>4
<1>8. Divides'
  BY <1>5, <1>6, <1>7 DEF IInv, Divides
<1>9. Lengths => Lengths'
  BY <1>2, <1>5 DEF Lengths, Far
<1>10. QED
  BY <1>2, <1>5, <1>8, <1>9

LEMMA FrontProperties ==
  ASSUME NEW S, NEW s \in Seq(S), s # <<>>
  PROVE  /\ SubSeq(s, 1, Len(s) - 1) \in Seq(S)
         /\ DOMAIN SubSeq(s, 1, Len(s) - 1) = 1 .. Len(s) - 1
         /\ \A j \in 1 .. Len(s) - 1 : SubSeq(s, 1, Len(s) - 1)[j] = s[j]
<1>1. PICK n \in Nat : n = Len(s) - 1 /\ Len(s) = n + 1
  <2>1. Len(s) \in Nat \ {0}
    BY EmptySeq, LenProperties
  <2>2. Len(s) - 1 \in Nat /\ Len(s) = (Len(s) - 1) + 1
    BY <2>1
  <2>3. QED
    BY <2>2
<1>2. /\ SubSeq(s, 1, n) \in Seq(S) /\ Len(SubSeq(s, 1, n)) = n
      /\ \A j \in 1 .. n : SubSeq(s, 1, n)[j] = s[j]
  BY <1>1
<1>3. DOMAIN SubSeq(s, 1, n) = 1 .. n
  BY <1>2, LenProperties
<1>4. QED
  BY <1>1, <1>2, <1>3

LEMMA PicksKeeps ==
  ASSUME IInv, Picks
  PROVE  IInv'
<1> DEFINE k == Last(worklist)
           n == Len(worklist)
<1>1. worklist \in Seq(Pointers) /\ IsInjective(worklist) /\ ~slice
  BY DEF IInv, Lists, Picks
<1>2. n \in Nat \ {0} /\ DOMAIN worklist = 1 .. n
  BY <1>1, EmptySeq, LenProperties DEF Picks
<1>3. k = worklist[n] /\ k \in Pointers
  <2>1. worklist[n] \in Pointers
    BY <1>1, <1>2, ElementOfSeq
  <2>2. QED
    BY <2>1 DEF Last
<1>4. /\ worklist' \in Seq(Pointers) /\ DOMAIN worklist' = 1 .. n - 1
      /\ \A j \in 1 .. n - 1 : worklist'[j] = worklist[j]
  <2>1. worklist' = SubSeq(worklist, 1, n - 1)
    BY DEF Picks, Front
  <2>2. QED
    BY <1>1, <1>2, <2>1, FrontProperties
<1> HIDE DEF k, n
<1>5. /\ heap' \in Seq(Range(heap')) /\ Pointers' = Pointers
      /\ heap'[k].type = "ACTIVE"
      /\ \A h \in Pointers : /\ heap'[h].history = heap[h].history
                             /\ h # k => heap'[h] = heap[h]
      /\ Divides' /\ (Lengths => Lengths')
  BY <1>3, Retyped DEF Picks, k
<1>6. k \notin Waiting' /\ Waiting = Waiting' \cup {k}
  <2>1. \A h : h \in Waiting' <=> \E j \in 1 .. n - 1 : h = worklist[j]
    BY <1>4 DEF Waiting
  <2>2. \A h : h \in Waiting <=> \E j \in 1 .. n : h = worklist[j]
    BY <1>2 DEF Waiting
  <2>3. \A j \in 1 .. n - 1 : j \in 1 .. n /\ j # n /\ n \in 1 .. n
    BY <1>2
  <2>4. \A j \in 1 .. n : j \in 1 .. n - 1 \/ j = n
    BY <1>2
  <2>5. n \in 1 .. n
    BY <1>2
  <2>6. k \notin Waiting'
    BY <1>1, <1>2, <1>3, <2>1, <2>3 DEF IsInjective
  <2>7. QED
    BY <1>3, <2>1, <2>2, <2>3, <2>4, <2>5, <2>6
<1>7. current' = k /\ slice' = TRUE /\ instructionCount' = 0
  BY DEF Picks, k
<1>8. Lists'
  <2>1. IsInjective(worklist')
    <3>1. \A j \in 1 .. n - 1 : j \in DOMAIN worklist
      BY <1>2
    <3>2. QED
      BY <1>1, <1>4, <3>1 DEF IsInjective
  <2>2. QED
    BY <1>3, <1>4, <1>5, <1>6, <1>7, <2>1 DEF Lists, Picks
<1>9. Histories'
  <2>1. \A h \in Waiting : h \in Pointers /\ heap[h].history = 0
    BY WorklistDomain DEF IInv, Histories
  <2>2. QED
    BY <1>3, <1>5, <1>6, <1>7, <2>1, MaxInstructionsAssumption DEF Histories
<1>10. Places => Places'
  <2>1. Live' = Live /\ Waiting \subseteq Pointers
    <3>1. Running = {} /\ Running' = {k}
      BY <1>1, <1>7 DEF Running
    <3>2. QED
      BY <1>6, <3>1, WorklistDomain DEF IInv, Live
  <2>2. Waiting' \subseteq Pointers /\ k \in Live
    BY <1>6, <2>1 DEF Live
  <2>3. QED
    BY <1>5, <1>6, <1>7, <2>1, <2>2 DEF Places, Picks
<1>11. QED
  BY <1>5, <1>8, <1>9, <1>10 DEF IInv

LEMMA LeavesKeeps ==
  ASSUME IInv, Leaves
  PROVE  IInv'
<1>1. Pointers' = Pointers /\ Waiting' = Waiting
      /\ Live = Live' \cup {current}
  BY DEF Leaves, Pointers, Waiting, Live, Running
<1>2. Lists' /\ Histories'
  BY <1>1 DEF IInv, Lists, Histories, Leaves
<1>3. Divides'
  BY <1>1 DEF IInv, Divides, Leaves
<1>4. Places /\ Lengths => Places' /\ Lengths'
  <2>1. heap[current].history = MaxInstructions \/ ~running
    BY MaxInstructionsAssumption DEF IInv, Histories, Leaves
  <2>2. QED
    BY <1>1, <2>1 DEF Places, Lengths, Leaves
<1>5. QED
  BY <1>2, <1>3, <1>4 DEF IInv

LEMMA RemovesKeeps ==
  ASSUME IInv, Removes
  PROVE  IInv'
<1>1. current \in Pointers /\ current \notin Waiting /\ Waiting \subseteq Pointers
  BY WorklistDomain DEF IInv, Lists, Removes
<1>2. /\ heap' \in Seq(Range(heap')) /\ Pointers' = Pointers
      /\ heap'[current].type = "TERMINATED"
      /\ \A h \in Pointers : /\ heap'[h].history = heap[h].history
                             /\ h # current => heap'[h] = heap[h]
      /\ Divides' /\ (Lengths => Lengths')
  BY <1>1, Retyped DEF Removes
<1>3. Waiting' = Waiting /\ Live = Live' \cup {current}
  BY DEF Removes, Waiting, Live, Running
<1>4. Lists'
  BY <1>2 DEF IInv, Lists, Removes
<1>5. Histories'
  BY <1>1, <1>2, <1>3 DEF IInv, Histories, Removes
<1>6. Places => Places'
  BY <1>1, <1>2, <1>3 DEF Places, Removes
<1>7. QED
  BY <1>2, <1>4, <1>5, <1>6 DEF IInv

LEMMA GoesOnKeeps ==
  ASSUME IInv, Works, NEW t, GoesOn(t)
  PROVE  IInv'
<1>1. current \in Pointers /\ current \notin Waiting /\ Waiting \subseteq Pointers
      /\ heap \in Seq(Range(heap))
  BY WorklistDomain DEF IInv, Lists, Works
<1>2. /\ heap' \in Seq(Range(heap')) /\ Pointers' = Pointers
      /\ heap'[current] = t
      /\ \A h \in Pointers \ {current} : heap'[h] = heap[h]
  BY <1>1, Updated DEF GoesOn, Pointers
<1>3. Waiting' = Waiting /\ Live' = Live /\ current \in Live
  BY DEF GoesOn, Works, Waiting, Live, Running
<1>4. Lists'
  BY <1>2, <1>3 DEF IInv, Lists, Works, GoesOn
<1>5. Histories'
  BY <1>1, <1>2, <1>3, MaxInstructionsAssumption DEF IInv, Histories, Works, GoesOn
<1>6. Divides'
  <2>1. \A h \in Pointers : heap'[h].constraints \subseteq heap[h].constraints
    BY <1>2 DEF GoesOn
  <2>2. \A h \in Pointers : IsState(heap'[h]) /\ heap'[h].constraints # {}
    BY <1>2 DEF GoesOn, IInv, Divides
  <2>3. SolverComplete =>
          \A h \in Pointers : heap'[h].constraints = heap[h].constraints
    BY <1>2 DEF GoesOn
  <2>4. heap # <<>>
    BY <1>1 DEF Pointers
  <2>5. QED
    BY <1>2, <2>1, <2>2, <2>3, <2>4 DEF IInv, Divides
<1>7. SolverComplete /\ Places => Places'
  BY <1>1, <1>2, <1>3 DEF Places, Works, GoesOn
<1>8. SolverComplete /\ Lengths => Lengths'
  BY <1>1, <1>2 DEF Lengths, Far, GoesOn
<1>9. QED
  BY <1>4, <1>5, <1>6, <1>7, <1>8 DEF IInv

LEMMA SplitsKeeps ==
  ASSUME IInv, Works, NEW t, NEW u, Splits(t, u)
  PROVE  IInv'
<1> DEFINE n == Len(heap) + 1
           kept == [heap EXCEPT ![current] = t]
<1>1. current \in Pointers /\ current \notin Waiting /\ Waiting \subseteq Pointers
      /\ heap \in Seq(Range(heap))
  BY WorklistDomain DEF IInv, Lists, Works
<1>2. Len(heap) \in Nat /\ Pointers = 1 .. Len(heap) /\ n \notin Pointers
  BY <1>1, HeapOfOne
<1>3. /\ DOMAIN kept = Pointers /\ Len(kept) = Len(heap)
      /\ kept[current] = t /\ \A h \in Pointers \ {current} : kept[h] = heap[h]
      /\ kept \in Seq(Range(kept))
  BY <1>1, Updated DEF Pointers
<1> HIDE DEF kept
<1>4. /\ DOMAIN Append(kept, u) = 1 .. Len(kept) + 1
      /\ \A h \in 1 .. Len(kept) : Append(kept, u)[h] = kept[h]
      /\ Append(kept, u)[Len(kept) + 1] = u
      /\ Append(kept, u) \in Seq(Range(Append(kept, u)))
  BY <1>3, Appended
<1>5. heap' = Append(kept, u)
  BY DEF Splits, kept
<1>6. /\ Pointers' = Pointers \cup {n}
      /\ heap'[n] = u /\ heap'[current] = t
      /\ \A h \in Pointers \ {current} : heap'[h] = heap[h]
      /\ heap' \in Seq(Range(heap'))
  <2>1. 1 .. Len(heap) + 1 = Pointers \cup {n}
    BY <1>2
  <2>2. QED
    BY <1>1, <1>2, <1>3, <1>4, <1>5, <2>1 DEF Pointers
<1>7. /\ worklist' \in Seq(Pointers')
      /\ Waiting' = Waiting \cup {n}
      /\ IsInjective(worklist')
  <2> DEFINE S == Pointers \cup {n}
             m == Len(worklist)
  <2>1. worklist \in Seq(S) /\ n \in S
    BY SeqMonotonic DEF IInv, Lists
  <2>2. m \in Nat /\ DOMAIN worklist = 1 .. m /\ IsInjective(worklist)
    BY <2>1, LenProperties DEF IInv, Lists
  <2> HIDE DEF S
  <2>3. /\ worklist' \in Seq(S) /\ DOMAIN worklist' = 1 .. m + 1
        /\ \A j \in 1 .. m : worklist'[j] = worklist[j]
        /\ worklist'[m + 1] = n
    BY <2>1, AppendProperties, LenProperties DEF Splits
  <2>4. \A j \in 1 .. m + 1 : j \in 1 .. m \/ j = m + 1
    BY <2>2
  <2>5. \A j \in 1 .. m : j \in 1 .. m + 1 /\ worklist[j] # n
    BY <1>1, <1>2, <2>2 DEF Waiting
  <2>6. m + 1 \in 1 .. m + 1
    BY <2>2
  <2>7. Waiting' = Waiting \cup {n}
    <3>1. \A h : h \in Waiting' <=> \E j \in 1 .. m + 1 : h = worklist'[j]
      BY <2>3 DEF Waiting
    <3>2. \A h : h \in Waiting <=> \E j \in 1 .. m : h = worklist[j]
      BY <2>2 DEF Waiting
    <3>3. QED
      BY <2>3, <2>4, <2>5, <2>6, <3>1, <3>2
  <2>8. IsInjective(worklist')
    BY <2>2, <2>3, <2>4, <2>5 DEF IsInjective
  <2>9. worklist' \in Seq(Pointers')
    BY <1>6, <2>3 DEF S
  <2>10. QED
    BY <2>7, <2>8, <2>9
<1> HIDE DEF n
<1>8. current # n /\ slice' = slice /\ slice /\ current' = current
  BY <1>1, <1>2 DEF Works
<1>9. Lists'
  BY <1>1, <1>6, <1>7, <1>8 DEF IInv, Lists, Works
<1>10. Histories'
  <2>1. /\ t.history = heap[current].history + 1 /\ u.history = 0
        /\ instructionCount < MaxInstructions
        /\ instructionCount' = instructionCount + 1
    BY DEF Splits, Works
  <2>2. /\ instructionCount \in 0 .. MaxInstructions
        /\ heap[current].history = instructionCount
        /\ \A h \in Waiting : heap[h].history = 0
    BY <1>8 DEF IInv, Histories
  <2>3. instructionCount' \in 0 .. MaxInstructions
    BY <2>1, <2>2, MaxInstructionsAssumption
  <2>4. \A h \in Waiting' : heap'[h].history = 0
    BY <1>1, <1>6, <1>7, <2>1, <2>2
  <2>5. heap'[current'].history = instructionCount'
    BY <1>6, <1>8, <2>1, <2>2
  <2>6. QED
    BY <2>3, <2>4, <2>5 DEF Histories
<1>11. Divides'
  <2> DEFINE C(h) == heap[h].constraints
             D(h) == heap'[h].constraints
  <2>1. D(current) \cup D(n) = C(current) /\ D(current) \cap D(n) = {}
    BY <1>6 DEF Splits
  <2>2. \A h \in Pointers \ {current} : D(h) = C(h)
    BY <1>6
  <2>3. \A h \in Pointers' : IsState(heap'[h]) /\ D(h) # {} /\ D(h) \subseteq Valuations
    <3>1. /\ IsState(heap'[n]) /\ D(n) # {}
          /\ IsState(heap'[current]) /\ D(current) # {}
      BY <1>6 DEF Splits
    <3>2. \A h \in Pointers :
            IsState(heap[h]) /\ C(h) # {} /\ C(h) \subseteq Valuations
      BY DEF IInv, Divides
    <3>3. D(n) \subseteq Valuations /\ D(current) \subseteq Valuations
      BY <1>1, <2>1, <3>2
    <3>4. QED
      BY <1>6, <3>1, <3>2, <3>3
  <2>4. \A h, k \in Pointers : h # k => C(h) \cap C(k) = {}
    BY DEF IInv, Divides
  <2>5. SolverComplete => \A v \in Valuations : \E h \in Pointers : v \in C(h)
    BY <1>1 DEF IInv, Divides, Pointers
  <2> HIDE DEF C, D
  <2>6. \A h, k \in Pointers' : h # k => D(h) \cap D(k) = {}
    <3>1. \A h \in Pointers \ {current} : /\ D(h) \cap D(current) = {}
                                          /\ D(h) \cap D(n) = {}
      BY <1>1, <2>1, <2>2, <2>4
    <3>2. \A h, k \in Pointers \ {current} : h # k => D(h) \cap D(k) = {}
      BY <2>2, <2>4
    <3>3. QED
      BY <1>6, <2>1, <3>1, <3>2
  <2>7. SolverComplete => \A v \in Valuations : \E h \in Pointers' : v \in D(h)
    BY <1>1, <1>6, <2>1, <2>2, <2>5
  <2>8. QED
    BY <2>3, <2>6, <2>7 DEF Divides, D
<1>12. Places => Places'
  <2>1. Live' = Live \cup {n} /\ current \in Live
    BY <1>7, <1>8 DEF Live, Running
  <2>2. QED
    BY <1>1, <1>6, <1>7, <1>8, <2>1 DEF Places, Works, Splits
<1>13. Lengths => Lengths'
  <2>1. /\ t.history = heap[current].history + 1 /\ u.history = 0
        /\ t.steps = heap[current].steps + 1 /\ u.steps = t.steps
    BY DEF Splits
  <2>2. SUFFICES ASSUME Lengths PROVE Lengths'
    OBVIOUS
  <2>3. Far(heap[current])
    BY <1>1, <2>2 DEF Lengths
  <2>4. Far(t) /\ Far(u)
    BY <2>1, <2>3 DEF Far
  <2>5. \A h \in Pointers \ {current} : Far(heap'[h])
    BY <1>6, <2>2 DEF Lengths
  <2>6. \A h \in Pointers' : Far(heap'[h])
    BY <1>6, <2>4, <2>5
  <2>7. QED
    BY <2>6 DEF Lengths, Far
<1>14. QED
  BY <1>9, <1>10, <1>11, <1>12, <1>13 DEF IInv

LEMMA NextIInv == IInv /\ [Next]_vars => IInv'
<1> SUFFICES ASSUME IInv, [Next]_vars PROVE IInv'
  OBVIOUS
<1>1. CASE \E t : Works /\ GoesOn(t)
  BY <1>1, GoesOnKeeps
<1>2. CASE \E t, u : Works /\ Splits(t, u)
  BY <1>2, SplitsKeeps
<1>3. QED
  BY <1>1, <1>2, Shapes, QuietKeeps, StartsKeeps, PicksKeeps, LeavesKeeps,
     RemovesKeeps

LEMMA AlwaysIInv == Spec => []IInv
BY InitIInv, NextIInv, PTL DEF Spec

-----------------------------------------------------------------------------

(* The states of a run divide the valuations, whatever programs, clients   *)
(* and limits: forkState, the handlers of the instructions, the callbacks  *)
(* and the worklist never lose a valuation, count one twice or leave a     *)
(* state that none satisfies; with a solver that may give up, some are     *)
(* lost, and the rest holds.                                               *)
THEOREM LibraryDivides == Spec => []DividesValuations
<1>1. IInv => DividesValuations
  BY DividesImplies DEF IInv
<1>2. QED
  BY <1>1, AlwaysIInv, PTL

(* With a solver that decides, every state the library ever allocates is   *)
(* waiting, being run, terminated, or left on a path of at least           *)
(* maxInstructions, or by a client that stopped the run.                   *)
THEOREM LibraryAccounts == ASSUME SolverComplete PROVE Spec => []StatesAccounted
<1>1. IInv => StatesAccounted
  BY PlacesImply DEF IInv
<1>2. QED
  BY <1>1, AlwaysIInv, PTL

-----------------------------------------------------------------------------
(* The sum of the histories, one state after the other.                    *)

Totals(states, n, f) ==
  /\ f[0] = 0
  /\ \A k \in 1 .. n : f[k] = f[k - 1] + states[k].history

LEMMA AllHistoriesTotal ==
  ASSUME NEW states, NEW n \in Nat, n = Len(states)
  PROVE  \E f : Totals(states, n, f) /\ AllHistories(states) = f[n]
<1> DEFINE t == [k \in 1 .. n |-> states[k].history]
           Sums(h) == h = [k \in 0 .. n |-> IF k = 0 THEN 0
                                            ELSE h[k - 1] + states[k].history]
<1>1. ASSUME NEW h PROVE PartialSums(t, n, h) <=> Sums(h)
  <2>1. \A k \in 0 .. n : k # 0 => t[k] = states[k].history
    OBVIOUS
  <2> HIDE DEF t
  <2>2. [k \in 0 .. n |-> IF k = 0 THEN 0 ELSE h[k - 1] + t[k]]
          = [k \in 0 .. n |-> IF k = 0 THEN 0 ELSE h[k - 1] + states[k].history]
    BY <2>1
  <2>3. QED
    BY <2>2 DEF PartialSums
<1>2. \E h : Sums(h)
  <2> HIDE DEF t, Sums
  <2>1. QED
    BY <1>1, PartialSumsExist
<1>3. PICK f : f = CHOOSE h : Sums(h)
  OBVIOUS
<1>4. Sums(f)
  BY <1>2, <1>3
<1>5. AllHistories(states) = f[n]
  BY <1>3 DEF AllHistories
<1>6. Totals(states, n, f)
  BY <1>4 DEF Totals
<1>7. QED
  BY <1>5, <1>6

(* What one state executes is added to the sum.                            *)
HistoryDiffers(s, t, n, k, d) ==
  /\ k \in 1 .. n /\ d \in Int
  /\ \A j \in 1 .. n : /\ s[j].history \in Int
                       /\ j # k => t[j].history = s[j].history
  /\ t[k].history = s[k].history + d

LEMMA TotalsDiffer ==
  ASSUME NEW n \in Nat, NEW s, NEW t, NEW k, NEW d, HistoryDiffers(s, t, n, k, d),
         NEW f, NEW g, Totals(s, n, f), Totals(t, n, g)
  PROVE  f[n] \in Int /\ g[n] = f[n] + d
<1> DEFINE Agrees(m) == /\ f[m] \in Int
                        /\ g[m] = f[m] + (IF m < k THEN 0 ELSE d)
           S == {m \in Nat : m <= n => Agrees(m)}
<1>0. /\ k \in 1 .. n /\ d \in Int
      /\ \A j \in 1 .. n : /\ s[j].history \in Int
                           /\ j # k => t[j].history = s[j].history
      /\ t[k].history = s[k].history + d
  BY DEF HistoryDiffers
<1>1. 0 \in S
  BY <1>0 DEF Totals
<1>2. ASSUME NEW m \in Nat, m \in S, m + 1 <= n PROVE Agrees(m + 1)
  <2>1. m + 1 \in 1 .. n /\ (m + 1) - 1 = m
    BY <1>2
  <2>2. /\ f[m + 1] = f[m] + s[m + 1].history
        /\ g[m + 1] = g[m] + t[m + 1].history
    BY <2>1 DEF Totals
  <2>3. Agrees(m) /\ s[m + 1].history \in Int
    BY <1>0, <1>2, <2>1
  <2>4. CASE m + 1 = k
    BY <1>0, <2>2, <2>3, <2>4
  <2>5. CASE m + 1 # k
    BY <1>0, <2>1, <2>2, <2>3, <2>5
  <2>6. QED
    BY <2>4, <2>5
<1>3. \A m \in Nat : m \in S => m + 1 \in S
  BY <1>2
<1>4. \A m \in Nat : m \in S
  <2> HIDE DEF S
  <2>1. QED
    BY <1>1, <1>3, Induction
<1>5. Agrees(n)
  BY <1>4
<1>6. QED
  BY <1>0, <1>5

LEMMA AllHistoriesUpdated ==
  ASSUME NEW s, s \in Seq(Range(s)), NEW k \in DOMAIN s, NEW x, NEW d \in Int,
         \A j \in DOMAIN s : s[j].history \in Int,
         x.history = s[k].history + d
  PROVE  AllHistories([s EXCEPT ![k] = x]) = AllHistories(s) + d
<1> DEFINE t == [s EXCEPT ![k] = x]
<1>1. PICK n \in Nat : n = Len(s) /\ DOMAIN s = 1 .. n
  BY LenProperties
<1>2. Len(t) = n /\ t[k] = x /\ \A j \in 1 .. n : j # k => t[j] = s[j]
  BY <1>1, Updated
<1> HIDE DEF t
<1>3. PICK f : Totals(s, n, f) /\ AllHistories(s) = f[n]
  BY <1>1, AllHistoriesTotal
<1>4. PICK g : Totals(t, n, g) /\ AllHistories(t) = g[n]
  BY <1>2, AllHistoriesTotal
<1>5. HistoryDiffers(s, t, n, k, d)
  BY <1>1, <1>2 DEF HistoryDiffers
<1>6. g[n] = f[n] + d
  BY <1>3, <1>4, <1>5, TotalsDiffer
<1>7. QED
  BY <1>3, <1>4, <1>6 DEF t

LEMMA AllHistoriesAppended ==
  ASSUME NEW s, s \in Seq(Range(s)), NEW x,
         \A j \in DOMAIN s : s[j].history \in Int
  PROVE  /\ AllHistories(s) \in Int
         /\ AllHistories(Append(s, x)) = AllHistories(s) + x.history
<1> DEFINE t == Append(s, x)
<1>1. PICK n \in Nat : n = Len(s) /\ DOMAIN s = 1 .. n
  BY LenProperties
<1>2. t[n + 1] = x /\ \A j \in 1 .. n : t[j] = s[j]
  BY <1>1, Appended
<1>3. Len(t) = n + 1
  <2>1. Len(t) \in Nat /\ DOMAIN t = 1 .. n + 1 /\ DOMAIN t = 1 .. Len(t)
    BY <1>1, Appended, LenProperties
  <2>2. QED
    BY <2>1
<1> HIDE DEF t
<1>4. PICK f : Totals(s, n, f) /\ AllHistories(s) = f[n]
  BY <1>1, AllHistoriesTotal
<1>5. PICK g : Totals(t, n + 1, g) /\ AllHistories(t) = g[n + 1]
  <2>1. PICK m \in Nat : m = n + 1
    OBVIOUS
  <2>2. \E g : Totals(t, m, g) /\ AllHistories(t) = g[m]
    BY <1>3, <2>1, AllHistoriesTotal
  <2>3. QED
    BY <2>1, <2>2
<1>6. g[n + 1] = g[n] + x.history
  <2>1. n + 1 \in 1 .. n + 1 /\ (n + 1) - 1 = n
    OBVIOUS
  <2>2. QED
    BY <1>2, <1>5, <2>1 DEF Totals
<1>7. f[n] \in Int /\ g[n] = f[n]
  <2>1. CASE n = 0
    BY <1>4, <1>5, <2>1 DEF Totals
  <2>2. CASE n # 0
    <3>1. 1 \in 1 .. n /\ \A j \in 1 .. n : j \in 1 .. n + 1
      BY <2>2
    <3>2. Totals(t, n, g)
      BY <1>5, <3>1 DEF Totals
    <3>3. HistoryDiffers(s, t, n, 1, 0)
      BY <1>1, <1>2, <3>1 DEF HistoryDiffers
    <3>4. g[n] = f[n] + 0 /\ f[n] \in Int
      BY <1>4, <3>2, <3>3, TotalsDiffer
    <3>5. QED
      BY <3>4
  <2>3. QED
    BY <2>1, <2>2
<1>8. QED
  BY <1>4, <1>5, <1>6, <1>7 DEF t

-----------------------------------------------------------------------------
(* The counters.                                                           *)

Counters ==
  [totalStates : Int, exploredPaths : Int, totalInstructions : Int,
   totalBranches : Int, queries : Int, sat : Int, unsat : Int]

CounterInv ==
  /\ stats \in Counters
  /\ \A h \in Pointers : heap[h].history \in Int
  /\ stage \in {"new", "loaded"} => stats.sat = 0 /\ stats.totalBranches = 0
  /\ Ledger

(* What a step adds to the counters: b branches, n of their queries sat,   *)
(* m states and i instructions.                                            *)
Adds(b, n, m, i) ==
  /\ stats' \in Counters
  /\ stats'.totalBranches = stats.totalBranches + b
  /\ stats'.queries = stats.queries + 2 * b
  /\ stats'.sat = stats.sat + n
  /\ stats'.unsat = stats.unsat + 2 * b - n
  /\ stats'.totalStates = stats.totalStates + m
  /\ stats'.totalInstructions = stats.totalInstructions + i

LEMMA AddsNothing ==
  ASSUME CounterInv,
         \/ stats' = stats
         \/ stats' = [stats EXCEPT !.exploredPaths = @ + 1]
  PROVE  Adds(0, 0, 0, 0)
BY DEF CounterInv, Counters, Adds

LEMMA HeapTotal ==
  ASSUME IInv, CounterInv
  PROVE  /\ heap \in Seq(Range(heap)) /\ Len(heap) \in Nat
         /\ Pointers = 1 .. Len(heap) /\ AllHistories(heap) \in Int
BY HeapOfOne, AllHistoriesAppended DEF IInv, Lists, CounterInv, Pointers

(* A heap with n states and i recorded instructions more.                  *)
Grown(t, n, i) ==
  /\ t \in Seq(Range(t)) /\ Len(t) = Len(heap) + n
  /\ \A h \in DOMAIN t : t[h].history \in Int
  /\ AllHistories(t) = AllHistories(heap) + i

(* One state of the heap is replaced, or one is allocated.                 *)
Replaces(t, k, x) == t = [heap EXCEPT ![k] = x]

LEMMA Rewritten ==
  ASSUME IInv, CounterInv, NEW k \in Pointers, NEW x, NEW d \in Int,
         x.history = heap[k].history + d, NEW t, Replaces(t, k, x)
  PROVE  Grown(t, 0, d)
<1>1. /\ heap \in Seq(Range(heap)) /\ k \in DOMAIN heap
      /\ \A h \in DOMAIN heap : heap[h].history \in Int
  BY HeapTotal DEF Pointers, CounterInv
<1>2. t = [heap EXCEPT ![k] = x]
  BY DEF Replaces
<1>3. /\ t \in Seq(Range(t)) /\ Len(t) = Len(heap) /\ DOMAIN t = DOMAIN heap
      /\ t[k] = x /\ \A j \in DOMAIN heap \ {k} : t[j] = heap[j]
  <2> DEFINE u == [heap EXCEPT ![k] = x]
  <2>1. /\ u \in Seq(Range(u)) /\ Len(u) = Len(heap) /\ DOMAIN u = DOMAIN heap
        /\ u[k] = x /\ \A j \in DOMAIN heap \ {k} : u[j] = heap[j]
    BY <1>1, Updated
  <2>2. t = u
    BY <1>2
  <2> HIDE DEF u
  <2>3. QED
    BY <2>1, <2>2
<1>4. AllHistories(t) = AllHistories(heap) + d
  BY <1>1, <1>2, AllHistoriesUpdated
<1>5. \A h \in DOMAIN t : t[h].history \in Int
  BY <1>1, <1>3
<1>6. Len(t) = Len(heap) + 0
  BY <1>3, HeapTotal
<1>7. QED
  BY <1>3, <1>4, <1>5, <1>6 DEF Grown

LEMMA Allocated ==
  ASSUME IInv, CounterInv, NEW d \in Int, NEW t, Grown(t, 0, d),
         NEW y, y.history = 0
  PROVE  Grown(Append(t, y), 1, d)
<1>1. PICK n \in Nat, r \in Int : n = Len(heap) /\ r = AllHistories(heap)
  BY HeapTotal
<1>2. /\ t \in Seq(Range(t)) /\ Len(t) = n
      /\ \A h \in DOMAIN t : t[h].history \in Int
      /\ AllHistories(t) = r + d
  BY <1>1 DEF Grown
<1>3. PICK u : u = Append(t, y)
  OBVIOUS
<1>4. /\ DOMAIN t = 1 .. n /\ DOMAIN u = 1 .. n + 1
      /\ \A h \in 1 .. n : u[h] = t[h]
      /\ u[n + 1] = y /\ u \in Seq(Range(u))
  BY <1>2, <1>3, Appended
<1>5. AllHistories(u) = AllHistories(t) + y.history
  BY <1>2, <1>3, AllHistoriesAppended
<1>6. Len(u) = n + 1
  <2>1. Len(u) \in Nat /\ DOMAIN u = 1 .. Len(u)
    BY <1>4, LenProperties
  <2>2. QED
    BY <1>4, <2>1
<1>7. \A h \in 1 .. n + 1 : h \in 1 .. n \/ h = n + 1
  OBVIOUS
<1>8. \A h \in DOMAIN u : u[h].history \in Int
  BY <1>2, <1>4, <1>7
<1>9. AllHistories(u) = r + d
  BY <1>2, <1>5
<1>10. Grown(u, 1, d)
  BY <1>1, <1>4, <1>6, <1>8, <1>9 DEF Grown
<1>11. QED
  BY <1>3, <1>10

(* The ledger stays balanced when a step adds what it does to the heap.    *)
LEMMA Balances ==
  ASSUME IInv, CounterInv, stage \notin {"new", "loaded"} \/ stats' = stats,
         stage' \in {"new", "loaded"} => stage \in {"new", "loaded"},
         NEW b \in Int, NEW n \in Int, NEW m \in Int, NEW i \in Int,
         Adds(b, n, m, i), Grown(heap', m, i),
         heap # <<>>, SolverComplete => n = b + m
  PROVE  CounterInv'
<1>1. Ledger'
  <2> DEFINE B == stats.totalBranches
             Q == stats.queries
             Y == stats.sat
             N == stats.unsat
             T == stats.totalStates
  <2>1. /\ Q = 2 * B /\ Q = Y + N /\ T = Len(heap)
        /\ heap # <<>> /\ SolverComplete => Y = B + T - 1
        /\ stats.totalInstructions = AllHistories(heap)
    BY DEF CounterInv, Ledger
  <2>2. /\ B' = B + b /\ Q' = Q + 2 * b /\ Y' = Y + n
        /\ N' = N + 2 * b - n /\ T' = T + m
        /\ stats'.totalInstructions = stats.totalInstructions + i
    BY DEF Adds
  <2>3. /\ B \in Int /\ Q \in Int /\ Y \in Int /\ N \in Int /\ T \in Int
        /\ B' \in Int /\ Q' \in Int /\ Y' \in Int /\ N' \in Int /\ T' \in Int
    BY DEF CounterInv, Adds, Counters
  <2> HIDE DEF B, Q, Y, N, T
  <2>4. Q' = 2 * B' /\ Q' = Y' + N'
    BY <2>1, <2>2, <2>3
  <2>5. /\ T' = Len(heap')
        /\ stats'.totalInstructions = AllHistories(heap')
    BY <2>1, <2>2 DEF Grown
  <2>6. SolverComplete => Y' = B' + T' - 1
    BY <2>1, <2>2, <2>3
  <2>7. QED
    BY <2>4, <2>5, <2>6 DEF Ledger, B, Q, Y, N, T
<1>2. stage' \in {"new", "loaded"} => stats'.sat = 0 /\ stats'.totalBranches = 0
  BY DEF CounterInv
<1>3. QED
  BY <1>1, <1>2 DEF CounterInv, Adds, Grown, Pointers

(* A step that leaves the heap alone, or changes the type of a state.      *)
LEMMA Idles ==
  ASSUME IInv, CounterInv,
         stage' \in {"new", "loaded"} => stage \in {"new", "loaded"},
         heap' = heap, stats' = stats
  PROVE  CounterInv'
<1>1. Pointers' = Pointers
  BY DEF Pointers
<1>2. QED
  BY <1>1 DEF CounterInv, Ledger

LEMMA Retypes ==
  ASSUME IInv, CounterInv, NEW k \in Pointers, NEW type,
         heap' = [heap EXCEPT ![k].type = type],
         UNCHANGED stage, stage \notin {"new", "loaded"},
         stats' = stats \/ stats' = [stats EXCEPT !.exploredPaths = @ + 1]
  PROVE  CounterInv'
<1> DEFINE x == [heap[k] EXCEPT !.type = type]
<1>1. heap' = [heap EXCEPT ![k] = x]
  OBVIOUS
<1>2. IsState(heap[k]) /\ heap[k].history \in Int
  BY DEF IInv, Divides, CounterInv
<1>3. x.history = heap[k].history + 0
  BY <1>2 DEF IsState
<1> HIDE DEF x
<1>4. Grown(heap', 0, 0)
  <2>1. Replaces(heap', k, x)
    BY <1>1 DEF Replaces
  <2>2. QED
    BY <1>3, <2>1, Rewritten
<1>5. Adds(0, 0, 0, 0)
  BY AddsNothing
<1>6. heap # <<>>
  BY DEF Pointers
<1>7. PICK z \in Int : z = 0
  OBVIOUS
<1>8. Grown(heap', z, z) /\ Adds(z, z, z, z) /\ (SolverComplete => z = z + z)
  BY <1>4, <1>5, <1>7
<1>9. QED
  BY <1>6, <1>8, Balances

LEMMA BeginsLedger ==
  ASSUME IInv, CounterInv, Starts, stats' = [stats EXCEPT !.totalStates = 1]
  PROVE  CounterInv'
<1> DEFINE s == NewState(stateCounter, Entry)
<1>1. heap = <<>> /\ stats \in Counters
      /\ stats.sat = 0 /\ stats.totalBranches = 0
  BY DEF IInv, Lists, Starts, CounterInv
<1>2. Len(heap) = 0
  BY <1>1
<1>3. s.history = 0
  BY DEF NewState
<1> HIDE DEF s
<1>4. heap' = Append(heap, s) /\ stage' = "exploring"
  BY DEF Starts, createState, s
<1>5. Pointers' = {1} /\ heap'[1] = s /\ Len(heap') = 1
  BY <1>1, <1>4 DEF Pointers
<1>6. AllHistories(heap') = AllHistories(heap) + s.history
      /\ AllHistories(heap) \in Int
  BY <1>4, HeapTotal, AllHistoriesAppended DEF CounterInv, Pointers
<1>7. AllHistories(heap') = AllHistories(heap)
  BY <1>3, <1>6
<1>8. stats' \in Counters /\ stats'.totalStates = 1
      /\ stats'.sat = stats.sat /\ stats'.unsat = stats.unsat
      /\ stats'.queries = stats.queries
      /\ stats'.totalBranches = stats.totalBranches
      /\ stats'.totalInstructions = stats.totalInstructions
  BY <1>1 DEF Counters
<1>9. Ledger'
  BY <1>1, <1>5, <1>7, <1>8 DEF CounterInv, Ledger
<1>10. QED
  BY <1>3, <1>4, <1>5, <1>8, <1>9 DEF CounterInv

(* An instruction is in the history of one state, a fork starts at none.   *)
LEMMA RunsLedger ==
  ASSUME IInv, CounterInv, stage \notin {"new", "loaded"}, UNCHANGED stage,
         current \in Pointers, NEW x, x.history = heap[current].history + 1,
         Replaces(heap', current, x),
         NEW b \in Int, NEW n \in Int, Adds(b, n, 0, 1), SolverComplete => n = b
  PROVE  CounterInv'
<1>1. PICK z \in Int, i \in Int : z = 0 /\ i = 1
  OBVIOUS
<1>2. Grown(heap', z, i)
  BY <1>1, Rewritten
<1>3. Adds(b, n, z, i) /\ (SolverComplete => n = b + z)
  BY <1>1
<1>4. heap # <<>>
  BY DEF Pointers
<1>5. QED
  BY <1>2, <1>3, <1>4, Balances

LEMMA SplitsLedger ==
  ASSUME IInv, CounterInv, stage \notin {"new", "loaded"}, UNCHANGED stage,
         current \in Pointers, NEW x, x.history = heap[current].history + 1,
         NEW t, Replaces(t, current, x),
         NEW y, y.history = 0, heap' = Append(t, y),
         NEW b \in Int, NEW n \in Int, Adds(b, n, 1, 1),
         SolverComplete => n = b + 1
  PROVE  CounterInv'
<1>1. PICK i \in Int : i = 1
  OBVIOUS
<1>2. Grown(t, 0, i)
  BY <1>1, Rewritten
<1>3. Grown(heap', i, i)
  BY <1>1, <1>2, Allocated
<1>4. Adds(b, n, i, i) /\ (SolverComplete => n = b + i)
  BY <1>1
<1>5. heap # <<>>
  BY DEF Pointers
<1>6. QED
  BY <1>3, <1>4, <1>5, Balances

LEMMA ForkAdds ==
  ASSUME stats \in Counters, NEW t \in BOOLEAN, NEW f \in BOOLEAN,
         stats' = Tallied(t, f)
  PROVE  Adds(1, Bool(t) + Bool(f), Bool(t /\ f), 1)
<1>1. PICK y \in Int, z \in Int, p \in Int, q \in Int, w \in Int :
        /\ y = Bool(t) /\ z = Bool(f) /\ p = Bool(~t) /\ q = Bool(~f)
        /\ w = Bool(t /\ f) /\ p = 1 - y /\ q = 1 - z
  BY DEF Bool
<1>2. PICK c \in Counters :
        /\ c.totalBranches = stats.totalBranches + 1
        /\ c.totalInstructions = stats.totalInstructions + 1
        /\ c.queries = stats.queries + 2
        /\ c.totalStates = stats.totalStates + w
        /\ c.sat = stats.sat + y + z /\ c.unsat = stats.unsat + p + q
        /\ c.exploredPaths = stats.exploredPaths
  <2> DEFINE c == [totalStates |-> stats.totalStates + w,
                   exploredPaths |-> stats.exploredPaths,
                   totalInstructions |-> stats.totalInstructions + 1,
                   totalBranches |-> stats.totalBranches + 1,
                   queries |-> stats.queries + 2,
                   sat |-> stats.sat + y + z, unsat |-> stats.unsat + p + q]
  <2>1. c \in Counters
    BY DEF Counters
  <2>2. QED
    BY <2>1
<1>3. stats' = c
  BY <1>1, <1>2 DEF Tallied, BothWays, Counters
<1>4. /\ stats' \in Counters
      /\ stats'.totalBranches = stats.totalBranches + 1
      /\ stats'.totalInstructions = stats.totalInstructions + 1
      /\ stats'.queries = stats.queries + 2
      /\ stats'.totalStates = stats.totalStates + w
      /\ stats'.sat = stats.sat + y + z /\ stats'.unsat = stats.unsat + p + q
  BY <1>2, <1>3
<1>5. stats.unsat \in Int /\ stats.sat \in Int
  BY DEF Counters
<1>6. /\ stats'.sat = stats.sat + (y + z)
      /\ stats'.unsat = stats.unsat + 2 * 1 - (y + z)
  <2>1. PICK n \in Int, x \in Int : n = stats.sat /\ x = stats.unsat
    BY <1>5
  <2>2. n + y + z = n + (y + z) /\ x + p + q = x + 2 * 1 - (y + z)
    BY <1>1
  <2>3. QED
    BY <1>4, <2>1, <2>2
<1>7. Adds(1, y + z, w, 1)
  BY <1>4, <1>6 DEF Adds
<1>8. QED
  BY <1>1, <1>7

LEMMA ForksLedger ==
  ASSUME IInv, CounterInv, slice, current \in Pointers,
         stage \notin {"new", "loaded"}, UNCHANGED stage,
         NEW s, IsState(s), s.constraints = heap[current].constraints,
         s.history = heap[current].history + 1,
         NEW holds, NEW target, NEW next, forkState(s, holds, target, next)
  PROVE  CounterInv'
<1> DEFINE yes == [addConstraint(s, holds) EXCEPT !.pc = target]
           no == [addConstraint(s, Valuations \ holds) EXCEPT !.pc = next]
           copy == [[addConstraint(fork(s), Valuations \ holds) EXCEPT !.pc = next]
                      EXCEPT !.id = getTotalStates]
           ended == [s EXCEPT !.type = "TERMINATED", !.steps = @ - 1]
<1>1. s.constraints # {}
  BY DEF IInv, Divides
<1>2. /\ yes.history = s.history /\ no.history = s.history
      /\ ended.history = s.history /\ copy.history = 0
  BY DEF addConstraint, fork, IsState
<1>3. PICK t \in checkFeasibility(s.constraints \cap holds),
           f \in checkFeasibility(s.constraints \ holds) :
        /\ stats' = Tallied(t, f)
        /\ IF t /\ f
           THEN heap' = Append([heap EXCEPT ![current] = yes], copy)
           ELSE heap' = [heap EXCEPT ![current] =
                           IF t THEN yes ELSE IF f THEN no ELSE ended]
  <2> DEFINE both == Forked(s, holds, target, next)
  <2>1. PICK t \in checkFeasibility(s.constraints \cap holds),
             f \in checkFeasibility(s.constraints \ holds) :
          /\ stats' = Tallied(t, f)
          /\ IF BothWays(t, f)
             THEN /\ heap' = Append([heap EXCEPT ![current] = both[1]],
                                    [both[2] EXCEPT !.id = getTotalStates])
                  /\ worklist' = Append(worklist, Len(heap) + 1)
             ELSE /\ heap' = [heap EXCEPT ![current] =
                                IF t THEN yes ELSE IF f THEN no ELSE ended]
                  /\ UNCHANGED worklist
          /\ UNCHANGED <<allStates, stateCounter>>
    BY Zenon DEF forkState
  <2>2. both[1] = yes /\ [both[2] EXCEPT !.id = getTotalStates] = copy
    BY DEF Forked
  <2>3. BothWays(t, f) = (t /\ f)
    BY DEF BothWays
  <2> HIDE DEF yes, no, copy, ended, both
  <2>4. QED
    BY <2>1, <2>2, <2>3
<1>4. /\ t \in BOOLEAN /\ f \in BOOLEAN
      /\ SolverComplete => t \/ f
  BY <1>1, <1>3 DEF checkFeasibility
<1>5. stats \in Counters
  BY DEF CounterInv
<1>6. Adds(1, Bool(t) + Bool(f), Bool(t /\ f), 1)
  BY <1>3, <1>4, <1>5, ForkAdds
<1> HIDE DEF yes, no, copy, ended
<1>7. CASE t /\ f
  <2>1. PICK b \in Int, n \in Int : b = 1 /\ n = Bool(t) + Bool(f) /\ n = 2
    BY <1>7 DEF Bool
  <2>2. Bool(t /\ f) = 1
    BY <1>7 DEF Bool
  <2>3. Adds(b, n, 1, 1)
    BY <1>6, <2>1, <2>2
  <2>4. PICK r : Replaces(r, current, yes) /\ heap' = Append(r, copy)
    BY <1>3, <1>7 DEF Replaces
  <2>5. SolverComplete => n = b + 1
    BY <2>1
  <2>6. QED
    BY <1>2, <2>3, <2>4, <2>5, SplitsLedger
<1>8. CASE ~(t /\ f)
  <2>1. PICK x : Replaces(heap', current, x) /\ x.history = s.history
    <3>1. heap' = [heap EXCEPT ![current] =
                     IF t THEN yes ELSE IF f THEN no ELSE ended]
      BY <1>3, <1>8
    <3>2. QED
      BY <1>2, <3>1 DEF Replaces
  <2>2. PICK b \in Int, n \in Int :
          b = 1 /\ n = Bool(t) + Bool(f) /\ (t \/ f => n = 1)
    BY <1>4, <1>8 DEF Bool
  <2>3. Bool(t /\ f) = 0
    BY <1>8 DEF Bool
  <2>4. Adds(b, n, 0, 1)
    BY <1>6, <2>2, <2>3
  <2>5. SolverComplete => n = b
    BY <1>4, <2>2
  <2>6. QED
    BY <1>2, <2>1, <2>4, <2>5, RunsLedger
<1>9. QED
  BY <1>7, <1>8

LEMMA StepsLedger ==
  ASSUME IInv, CounterInv, executeInstruction PROVE CounterInv'
<1> DEFINE s == Recorded(heap[current])
           i == program[s.pc]
<1>1. slice /\ UNCHANGED stage
  BY DEF executeInstruction, InSlice
<1>2. /\ current \in Pointers /\ IsState(heap[current])
      /\ heap[current].history = instructionCount /\ instructionCount \in Nat
      /\ stage \notin {"new", "loaded"}
  BY <1>1 DEF IInv, Lists, Histories, Divides
<1>3. /\ IsState(s) /\ s.constraints = heap[current].constraints
      /\ s.history = heap[current].history + 1
  BY <1>2, RecordedKeeps
<1>4. \/ forkState(s, Condition(s, i.mnemonic), Target(s, i), Next_(s, i))
      \/ /\ heap' = [heap EXCEPT ![current] = Transfer(s, i)]
         /\ stats' = [stats EXCEPT !.totalInstructions = @ + 1]
  BY DEF executeInstruction
<1> HIDE DEF s, i
<1>5. CASE forkState(s, Condition(s, i.mnemonic), Target(s, i), Next_(s, i))
  BY <1>1, <1>2, <1>3, <1>5, ForksLedger
<1>6. CASE /\ heap' = [heap EXCEPT ![current] = Transfer(s, i)]
           /\ stats' = [stats EXCEPT !.totalInstructions = @ + 1]
  <2>1. PICK x : x = Transfer(s, i) /\ x.history = heap[current].history + 1
    BY <1>3, TransferKeeps DEF Keeps
  <2>2. PICK b \in Int : b = 0 /\ Adds(b, b, 0, 1)
    BY <1>6 DEF CounterInv, Counters, Adds
  <2>3. Replaces(heap', current, x)
    BY <1>6, <2>1 DEF Replaces
  <2>4. QED
    BY <1>1, <1>2, <2>1, <2>2, <2>3, RunsLedger
<1>7. QED
  BY <1>4, <1>5, <1>6

LEMMA CounterInit == ASSUME Init PROVE CounterInv
<1>1. heap = <<>> /\ Len(heap) = 0 /\ Pointers = {}
  BY DEF Init, InitManager, Pointers
<1>2. AllHistories(heap) = 0
  <2>1. PICK f : Totals(heap, 0, f) /\ AllHistories(heap) = f[0]
    BY <1>1, AllHistoriesTotal
  <2>2. QED
    BY <2>1 DEF Totals
<1>3. QED
  BY <1>1, <1>2 DEF Init, CounterInv, Ledger, Counters

LEMMA CounterStep ==
  ASSUME IInv, CounterInv, [Next]_vars PROVE CounterInv'
<1>1. CASE UNCHANGED vars \/ loadBinary \/ Complete \/ GiveUp \/ LeaveSlice
  BY <1>1, Idles
     DEF vars, managerVars, execVars, loadBinary, Complete, GiveUp, LeaveSlice
<1>2. CASE executeFrom
  BY <1>2, Idles, BeginsLedger
     DEF executeFrom, managerVars, Starts
<1>3. CASE Pick
  <2>1. /\ worklist \in Seq(Pointers) /\ worklist # <<>>
        /\ stage \notin {"new", "loaded"}
    BY <1>3 DEF Pick, AtLoop, IInv, Lists
  <2>2. Last(worklist) \in Pointers
    BY <2>1, EmptySeq, LenProperties, ElementOfSeq DEF Last
  <2>3. QED
    BY <1>3, <2>1, <2>2, Retypes DEF Pick, getNextState
<1>4. CASE ReachEnd \/ Fail
  <2>1. slice /\ current \in Pointers /\ stage \notin {"new", "loaded"}
    BY <1>4 DEF ReachEnd, Fail, InSlice, IInv, Lists
  <2>2. QED
    BY <1>4, <2>1, Retypes DEF ReachEnd, Fail, removeState
<1>5. CASE executeInstruction
  BY <1>5, StepsLedger
<1>6. QED
  BY <1>1, <1>2, <1>3, <1>4, <1>5 DEF Next

(* The statistics the library prints fit together on every run: queries    *)
(* come two per branch, the answers sat count the forks, totalStates is    *)
(* the number of states allocated, though forkState enters no copy in      *)
(* allStates, and totalInstructions the sum of what the states executed.   *)
THEOREM LibraryLedger == Spec => []Ledger
<1>1. Init => CounterInv
  BY CounterInit
<1>2. IInv /\ CounterInv /\ [Next]_vars => CounterInv'
  BY CounterStep
<1>3. CounterInv => Ledger
  BY DEF CounterInv
<1>4. QED
  BY <1>1, <1>2, <1>3, AlwaysIInv, PTL DEF Spec

-----------------------------------------------------------------------------
(* The two stack pointers.                                                 *)

RspOf(s) == get(s.registers, "rsp")

(* In a state they are numbers, one slot apart.                            *)
Stacked(s) ==
  /\ {"registers", "stackTop", "pc"} \subseteq DOMAIN s
  /\ s.stackTop \in Int
  /\ RspOf(s).symbolic = FALSE /\ RspOf(s).concreteValue = Wrap(s.stackTop - 1)

(* A change that leaves both of them alone.                                *)
LeavesStack(s, t) ==
  DOMAIN t = DOMAIN s /\ t.stackTop = s.stackTop /\ RspOf(t) = RspOf(s)

LEMMA LeftStacked ==
  ASSUME NEW s, NEW t, Stacked(s), LeavesStack(s, t) PROVE Stacked(t)
BY DEF Stacked, LeavesStack

LEMMA LeftTwice ==
  ASSUME NEW s, NEW t, NEW u, LeavesStack(s, t), LeavesStack(t, u)
  PROVE  LeavesStack(s, u)
BY DEF LeavesStack

LEMMA SetLeavesRsp ==
  ASSUME NEW regs, NEW name, NEW v,
         "rsp" # IF name \in DOMAIN Alias THEN Alias[name] ELSE name
  PROVE  get(set(regs, name, v), "rsp") = get(regs, "rsp")
BY DEF set, get

LEMMA SetRsp ==
  ASSUME NEW regs, NEW v PROVE get(set(regs, "rsp", v), "rsp") = v
<1>1. "rsp" \notin DOMAIN Alias
  BY DEF Alias
<1>2. QED
  BY <1>1 DEF set, get

LEMMA OperandLeaves ==
  ASSUME NEW s, {"registers", "stackTop"} \subseteq DOMAIN s,
         NEW o, Spares(o), NEW v
  PROVE  LeavesStack(s, setOperandValue(s, o, v))
<1>1. CASE o.kind = "reg"
  <2> DEFINE t == [s EXCEPT !.registers = set(@, o.name, v)]
  <2>1. get(set(s.registers, o.name, v), "rsp") = get(s.registers, "rsp")
    BY <1>1, SetLeavesRsp DEF Spares
  <2>2. /\ DOMAIN t = DOMAIN s /\ t.stackTop = s.stackTop
        /\ t.registers = set(s.registers, o.name, v)
    OBVIOUS
  <2>3. setOperandValue(s, o, v) = t
    BY <1>1 DEF setOperandValue
  <2> HIDE DEF t
  <2>4. QED
    BY <2>1, <2>2, <2>3 DEF LeavesStack, RspOf
<1>2. CASE o.kind = "mem"
  BY <1>2 DEF setOperandValue, LeavesStack, RspOf
<1>3. CASE o.kind # "reg" /\ o.kind # "mem"
  BY <1>3 DEF setOperandValue, LeavesStack, RspOf
<1>4. QED
  BY <1>1, <1>2, <1>3

LEMMA FlagsLeave ==
  ASSUME NEW s, Stacked(s), NEW r PROVE LeavesStack(s, updateFlags(s, r))
<1>1. CASE r.symbolic
  BY <1>1 DEF updateFlags, LeavesStack, Stacked
<1>2. CASE ~r.symbolic
  <2> DEFINE zf == set(s.registers, "zf", Concrete(Bool(r.concreteValue = 0)))
             sf == set(zf, "sf", Concrete(Bool(Negative(r.concreteValue))))
             t == [s EXCEPT !.registers = sf]
  <2>1. updateFlags(s, r) = t
    BY <1>2 DEF updateFlags
  <2>2. get(zf, "rsp") = get(s.registers, "rsp")
    <3>1. "rsp" # IF "zf" \in DOMAIN Alias THEN Alias["zf"] ELSE "zf"
      BY DEF Alias
    <3>2. QED
      BY <3>1, SetLeavesRsp
  <2> HIDE DEF zf
  <2>3. get(sf, "rsp") = get(zf, "rsp")
    <3>1. "rsp" # IF "sf" \in DOMAIN Alias THEN Alias["sf"] ELSE "sf"
      BY DEF Alias
    <3>2. QED
      BY <3>1, SetLeavesRsp
  <2> HIDE DEF sf
  <2>4. DOMAIN t = DOMAIN s /\ t.stackTop = s.stackTop /\ t.registers = sf
    BY DEF Stacked
  <2> HIDE DEF t
  <2>5. QED
    BY <2>1, <2>2, <2>3, <2>4 DEF LeavesStack, RspOf, Stacked
<1>3. QED
  BY <1>1, <1>2

(* push and pop move both by one.                                          *)
LEMMA WrapAgain ==
  ASSUME NEW n \in Int, NEW k \in Int PROVE Wrap(Wrap(n) + k) = Wrap(n + k)
<1>1. PICK m \in Nat \ {0} : m = Size
  BY BitsAssumption DEF Size
<1>2. ((n % m) + k) % m = (n + k) % m
  BY RestsAdd
<1>3. QED
  BY <1>1, <1>2 DEF Wrap

LEMMA RspMoves ==
  ASSUME NEW s, Stacked(s)
  PROVE  /\ Apply("sub", RspOf(s), Concrete(1)).symbolic = FALSE
         /\ Apply("sub", RspOf(s), Concrete(1)).concreteValue
              = Wrap((s.stackTop - 1) - 1)
         /\ Apply("add", RspOf(s), Concrete(1)).symbolic = FALSE
         /\ Apply("add", RspOf(s), Concrete(1)).concreteValue
              = Wrap((s.stackTop + 1) - 1)
<1> DEFINE a == RspOf(s)
           b == Concrete(1)
<1>1. b.symbolic = FALSE /\ b.concreteValue = 1
  BY DEF Concrete
<1>2. PICK n \in Int : n = s.stackTop - 1 /\ a.concreteValue = Wrap(n)
  BY DEF Stacked
<1>3. /\ Apply("sub", a, b) = Concrete(Wrap(Wrap(n) - 1))
      /\ Apply("add", a, b) = Concrete(Wrap(Wrap(n) + 1))
  BY <1>1, <1>2 DEF Apply, Fold, Shifts, Compute, Stacked
<1>4. Wrap(n) \in Int
  <2>1. PICK m \in Nat \ {0} : m = Size
    BY BitsAssumption DEF Size
  <2>2. QED
    BY <2>1 DEF Wrap
<1>5. Wrap(n) - 1 = Wrap(n) + (-1) /\ n - 1 = n + (-1)
  BY <1>4
<1>6. Wrap(Wrap(n) - 1) = Wrap(n - 1) /\ Wrap(Wrap(n) + 1) = Wrap(n + 1)
  BY <1>5, WrapAgain
<1>7. n + 1 = (s.stackTop + 1) - 1
  BY <1>2 DEF Stacked
<1>8. QED
  BY <1>2, <1>3, <1>6, <1>7 DEF Concrete

LEMMA PushStacked ==
  ASSUME NEW s, Stacked(s), NEW i PROVE Stacked(executePUSH(s, i))
<1> DEFINE rsp == Apply("sub", RspOf(s), Concrete(1))
           t == executePUSH(s, i)
<1>1. /\ DOMAIN t = DOMAIN s /\ t.stackTop = s.stackTop - 1
      /\ t.registers = set(s.registers, "rsp", rsp)
  BY DEF executePUSH, Stacked, RspOf
<1>2. RspOf(t) = rsp
  BY <1>1, SetRsp DEF RspOf
<1>3. rsp.symbolic = FALSE /\ rsp.concreteValue = Wrap((s.stackTop - 1) - 1)
  BY RspMoves
<1> HIDE DEF t, rsp
<1>4. Stacked(t)
  BY <1>1, <1>2, <1>3 DEF Stacked
<1>5. QED
  BY <1>4 DEF t

LEMMA PopStacked ==
  ASSUME NEW s, Stacked(s), NEW i, Spares(i.operands[1])
  PROVE  Stacked(executePOP(s, i))
<1> DEFINE rsp == Apply("add", RspOf(s), Concrete(1))
           raised == [s EXCEPT !.stackTop = @ + 1]
           t == setOperandValue(raised, i.operands[1], read(s.memory, s.stackTop))
           u == [t EXCEPT !.registers =
                  set(@, "rsp", Apply("add", get(@, "rsp"), Concrete(1)))]
<1>1. executePOP(s, i) = u
  BY DEF executePOP
<1>2. /\ DOMAIN raised = DOMAIN s /\ raised.stackTop = s.stackTop + 1
      /\ RspOf(raised) = RspOf(s)
  BY DEF Stacked, RspOf
<1>3. /\ DOMAIN t = DOMAIN raised /\ t.stackTop = raised.stackTop
      /\ RspOf(t) = RspOf(raised)
  <2> HIDE DEF raised
  <2>1. {"registers", "stackTop"} \subseteq DOMAIN raised
    BY <1>2 DEF Stacked
  <2>2. QED
    BY <2>1, OperandLeaves DEF LeavesStack
<1> HIDE DEF t, raised
<1>4. /\ DOMAIN u = DOMAIN s /\ u.stackTop = s.stackTop + 1
      /\ u.registers = set(t.registers, "rsp", rsp)
  BY <1>2, <1>3 DEF Stacked, RspOf
<1>5. RspOf(u) = rsp
  BY <1>4, SetRsp DEF RspOf
<1>6. rsp.symbolic = FALSE /\ rsp.concreteValue = Wrap((s.stackTop + 1) - 1)
  BY RspMoves
<1> HIDE DEF u, rsp
<1>7. QED
  BY <1>1, <1>4, <1>5, <1>6 DEF Stacked

LEMMA ArithmeticLeaves ==
  ASSUME NEW s, Stacked(s), NEW i, Spares(i.operands[1])
  PROVE  LeavesStack(s, executeArithmetic(s, i))
<1> DEFINE r == Apply(Op[i.mnemonic], getOperandValue(s, i.operands[1]),
                                      getOperandValue(s, i.operands[2]))
           t == setOperandValue(s, i.operands[1], r)
<1>1. executeArithmetic(s, i) =
        IF i.mnemonic \in {"add", "sub"} THEN updateFlags(t, r) ELSE t
  BY DEF executeArithmetic
<1> HIDE DEF r
<1>2. LeavesStack(s, t)
  BY OperandLeaves DEF Stacked
<1> HIDE DEF t
<1>3. Stacked(t)
  BY <1>2, LeftStacked
<1>4. LeavesStack(t, updateFlags(t, r))
  BY <1>3, FlagsLeave
<1>5. QED
  BY <1>1, <1>2, <1>4, LeftTwice

(* An instruction asked to spare rsp does.                                 *)
Sparing(i) ==
  i.mnemonic \in {"mov", "lea", "pop"} \cup Arithmetic => Spares(i.operands[1])

LEMMA StraightStacked ==
  ASSUME NEW s, Stacked(s), NEW i, Sparing(i)
  PROVE  Stacked(Straight(s, i))
<1>1. CASE Spares(i.operands[1])
  <2>1. LeavesStack(s, executeMOV(s, i)) /\ LeavesStack(s, executeLEA(s, i))
    BY <1>1, OperandLeaves DEF executeMOV, executeLEA, Stacked
  <2>2. Stacked(executeMOV(s, i)) /\ Stacked(executeLEA(s, i))
    BY <2>1, LeftStacked
  <2>3. Stacked(executeArithmetic(s, i))
    BY <1>1, ArithmeticLeaves, LeftStacked
  <2>4. Stacked(executeCMP(s, i))
    BY FlagsLeave, LeftStacked DEF executeCMP
  <2>5. Stacked(executePUSH(s, i)) /\ Stacked(executePOP(s, i))
    BY <1>1, PushStacked, PopStacked
  <2>6. Straight(s, i) \in
          {executeMOV(s, i), executeLEA(s, i), executePUSH(s, i),
           executePOP(s, i), executeArithmetic(s, i), executeCMP(s, i), s}
    BY Zenon DEF Straight
  <2>7. QED
    BY <2>2, <2>3, <2>4, <2>5, <2>6
<1>2. CASE ~Spares(i.operands[1])
  <2>1. /\ i.mnemonic # "mov" /\ i.mnemonic # "lea" /\ i.mnemonic # "pop"
        /\ i.mnemonic \notin Arithmetic
    BY <1>2 DEF Sparing
  <2>2. ~isMove(i)
    BY <2>1 DEF isMove
  <2>3. Straight(s, i) \in {executePUSH(s, i), executeCMP(s, i), s}
    BY <2>1, <2>2, Zenon DEF Straight
  <2>4. Stacked(executeCMP(s, i))
    BY FlagsLeave, LeftStacked DEF executeCMP
  <2>5. QED
    BY <2>3, <2>4, PushStacked
<1>3. QED
  BY <1>1, <1>2

LEMMA TransferStacked ==
  ASSUME NEW s, Stacked(s), NEW i, Sparing(i)
  PROVE  Stacked(Transfer(s, i))
<1> DEFINE after == Straight(s, i)
           moved == [after EXCEPT !.pc = Next_(s, i)]
           jumped == [s EXCEPT !.pc = Target(s, i)]
<1>1. Stacked(after)
  BY StraightStacked
<1>2. Stacked(moved)
  <2> HIDE DEF after
  <2>1. QED
    BY <1>1 DEF Stacked, RspOf
<1>3. Stacked(jumped)
  BY DEF Stacked, RspOf
<1>4. Stacked(executeCALL(s, i))
  BY DEF executeCALL, Stacked, RspOf
<1>5. Stacked(executeRET(s))
  <2> DEFINE base == Concrete(Last(s.callStack).basePointer)
             t == executeRET(s)
  <2>1. /\ DOMAIN t = DOMAIN s /\ t.stackTop = s.stackTop
        /\ t.registers = set(s.registers, "rbp", base)
    BY DEF executeRET, Stacked
  <2>2. "rsp" # IF "rbp" \in DOMAIN Alias THEN Alias["rbp"] ELSE "rbp"
    BY DEF Alias
  <2> HIDE DEF base, t
  <2>3. get(set(s.registers, "rbp", base), "rsp") = get(s.registers, "rsp")
    BY <2>2, SetLeavesRsp
  <2>4. Stacked(t)
    BY <2>1, <2>3 DEF Stacked, RspOf
  <2>5. QED
    BY <2>4 DEF t
<1>6. Transfer(s, i) \in {moved, jumped, executeCALL(s, i), executeRET(s)}
  BY Zenon DEF Transfer
<1>7. QED
  BY <1>2, <1>3, <1>4, <1>5, <1>6

LEMMA OperandKeepsPc ==
  ASSUME NEW s, Stacked(s), NEW o, NEW v
  PROVE  setOperandValue(s, o, v).pc = s.pc
<1>1. CASE o.kind = "reg"
  BY <1>1 DEF setOperandValue, Stacked
<1>2. CASE o.kind = "mem"
  BY <1>2 DEF setOperandValue, Stacked
<1>3. CASE o.kind # "reg" /\ o.kind # "mem"
  BY <1>3 DEF setOperandValue
<1>4. QED
  BY <1>1, <1>2, <1>3

(* So does what the client does.                                           *)
LEMMA RecordedStacked ==
  ASSUME NEW s, Stacked(s), \A m \in client.marks : Spares(m.to)
  PROVE  Stacked(Recorded(s)) /\ Recorded(s).pc = s.pc
<1> DEFINE r == [s EXCEPT !.history = @ + 1, !.steps = @ + 1]
<1>1. Recorded(s) = Marked(r, s.pc)
  BY DEF Recorded
<1>2. Stacked(r) /\ r.pc = s.pc
  BY DEF Stacked, RspOf
<1> HIDE DEF r
<1>3. CASE \E m \in client.marks : m.at = s.pc
  <2> DEFINE m == CHOOSE m \in client.marks : m.at = s.pc
             t == setOperandValue(r, m.to, makeSymbolic(m.name))
  <2>1. Marked(r, s.pc) = [t EXCEPT !.symbolicInputs = @ \cup {m.name}]
    BY <1>3 DEF Marked
  <2>2. m \in client.marks
    BY <1>3
  <2> HIDE DEF m
  <2>3. LeavesStack(r, t)
    BY <1>2, <2>2, OperandLeaves DEF Stacked
  <2>4. t.pc = s.pc
    BY <1>2, OperandKeepsPc
  <2> HIDE DEF t
  <2>5. Stacked(t)
    BY <1>2, <2>3, LeftStacked
  <2>6. QED
    BY <1>1, <2>1, <2>4, <2>5 DEF Stacked, RspOf
<1>4. CASE ~\E m \in client.marks : m.at = s.pc
  BY <1>1, <1>2, <1>4 DEF Marked
<1>5. QED
  BY <1>3, <1>4

(* The state the manager starts with, at the entry.                        *)
LEMMA NewStacked ==
  ASSUME NEW id, NEW start PROVE Stacked(NewState(id, start))
<1> DEFINE s == NewState(id, start)
           rsp == Concrete(StackBase - 1)
<1>1. /\ {"registers", "stackTop", "pc"} \subseteq DOMAIN s
      /\ s.stackTop = StackBase
      /\ s.registers = set(initializeRegisters, "rsp", rsp)
  BY DEF NewState
<1>2. rsp.symbolic = FALSE /\ rsp.concreteValue = StackBase - 1
  BY DEF Concrete
<1>3. Wrap(StackBase - 1) = StackBase - 1
  <2>1. PICK m \in Nat \ {0} : m = Size
    BY BitsAssumption DEF Size
  <2>2. StackBase - 1 \in 0 .. m - 1
    BY <2>1, StackBaseAssumption DEF Word
  <2>3. (StackBase - 1) % m = StackBase - 1
    BY <2>2, SMT
  <2>4. QED
    BY <2>1, <2>3 DEF Wrap
<1> HIDE DEF s, rsp
<1>4. Stacked(s)
  BY <1>1, <1>2, <1>3, SetRsp, StackBaseAssumption DEF Stacked, RspOf
<1>5. QED
  BY <1>4 DEF s

StackInv ==
  /\ program \in Programs /\ client \in Clients
  /\ \A h \in Pointers : Stacked(heap[h])

LEMMA SparesAll ==
  ASSUME SparesStack, StackInv
  PROVE  /\ \A a \in DOMAIN program : Sparing(program[a])
         /\ \A m \in client.marks : Spares(m.to)
BY DEF SparesStack, StackInv, Sparing

(* What a step may do to the heap.                                         *)
LEMMA RewriteStacked ==
  ASSUME IInv, StackInv, NEW h \in Pointers, NEW t, Stacked(t),
         heap' = [heap EXCEPT ![h] = t], UNCHANGED given
  PROVE  StackInv'
<1>1. heap \in Seq(Range(heap))
  BY DEF IInv, Lists
<1>2. /\ DOMAIN heap' = DOMAIN heap /\ heap'[h] = t
      /\ \A j \in DOMAIN heap \ {h} : heap'[j] = heap[j]
  BY <1>1, Updated DEF Pointers
<1>3. QED
  BY <1>2 DEF StackInv, Pointers, given

LEMMA RetypeStacked ==
  ASSUME IInv, StackInv, NEW h \in Pointers, NEW type,
         heap' = [heap EXCEPT ![h].type = type], UNCHANGED given
  PROVE  StackInv'
<1>1. Stacked(heap[h])
  BY DEF StackInv
<1>2. Stacked([heap[h] EXCEPT !.type = type])
  BY <1>1 DEF Stacked, RspOf
<1>3. QED
  BY <1>2, RewriteStacked

LEMMA ForkStacked ==
  ASSUME IInv, StackInv, slice, NEW s, Stacked(s), NEW holds, NEW target,
         NEW next, forkState(s, holds, target, next), UNCHANGED given
  PROVE  StackInv'
<1> DEFINE yes == [addConstraint(s, holds) EXCEPT !.pc = target]
           no == [addConstraint(s, Valuations \ holds) EXCEPT !.pc = next]
           copy == [addConstraint(fork(s), Valuations \ holds) EXCEPT !.pc = next]
           numbered == [copy EXCEPT !.id = getTotalStates]
           dead == [s EXCEPT !.type = "TERMINATED", !.steps = @ - 1]
<1>1. /\ Stacked(yes) /\ Stacked(no) /\ Stacked(dead)
  BY DEF addConstraint, Stacked, RspOf
<1>2. Stacked(numbered)
  BY DEF addConstraint, fork, Stacked, RspOf
<1>3. current \in Pointers /\ heap \in Seq(Range(heap))
  BY DEF IInv, Lists
<1>4. \/ heap' = Append([heap EXCEPT ![current] = yes], numbered)
      \/ \E t \in {yes, no, dead} : heap' = [heap EXCEPT ![current] = t]
  BY DEF forkState, Forked
<1> HIDE DEF yes, no, numbered, dead
<1>5. CASE heap' = Append([heap EXCEPT ![current] = yes], numbered)
  <2> DEFINE both == [heap EXCEPT ![current] = yes]
  <2>1. /\ DOMAIN both = DOMAIN heap /\ both[current] = yes
        /\ \A j \in DOMAIN heap \ {current} : both[j] = heap[j]
        /\ both \in Seq(Range(both))
    BY <1>3, Updated DEF Pointers
  <2>2. \A j \in DOMAIN both : Stacked(both[j])
    BY <1>1, <2>1 DEF StackInv, Pointers
  <2> HIDE DEF both
  <2>3. /\ DOMAIN both = 1 .. Len(both) /\ DOMAIN heap' = 1 .. Len(both) + 1
        /\ \A k \in 1 .. Len(both) : heap'[k] = both[k]
        /\ heap'[Len(both) + 1] = numbered /\ Len(both) \in Nat
    BY <1>5, <2>1, Appended DEF both
  <2>4. \A k \in DOMAIN heap' : Stacked(heap'[k])
    BY <1>2, <2>2, <2>3
  <2>5. QED
    BY <2>4 DEF StackInv, Pointers, given
<1>6. CASE \E t \in {yes, no, dead} : heap' = [heap EXCEPT ![current] = t]
  BY <1>1, <1>3, <1>6, RewriteStacked
<1>7. QED
  BY <1>4, <1>5, <1>6

LEMMA InstructionStacked ==
  ASSUME SparesStack, IInv, StackInv, executeInstruction
  PROVE  StackInv'
<1> DEFINE s == Recorded(heap[current])
           i == program[s.pc]
<1>1. slice /\ UNCHANGED given /\ Decodes(heap[current].pc)
  BY DEF executeInstruction, InSlice
<1>2. current \in Pointers /\ Stacked(heap[current])
  BY <1>1 DEF IInv, Lists, StackInv
<1>3. Stacked(s) /\ s.pc = heap[current].pc
  BY <1>2, SparesAll, RecordedStacked
<1>4. \/ forkState(s, Condition(s, i.mnemonic), Target(s, i), Next_(s, i))
      \/ heap' = [heap EXCEPT ![current] = Transfer(s, i)]
  BY DEF executeInstruction
<1> HIDE DEF s
<1>5. Sparing(i)
  BY <1>1, <1>3, SparesAll DEF Decodes
<1> HIDE DEF i
<1>6. CASE forkState(s, Condition(s, i.mnemonic), Target(s, i), Next_(s, i))
  BY <1>1, <1>3, <1>6, ForkStacked
<1>7. CASE heap' = [heap EXCEPT ![current] = Transfer(s, i)]
  BY <1>1, <1>2, <1>3, <1>5, <1>7, TransferStacked, RewriteStacked
<1>8. QED
  BY <1>4, <1>6, <1>7

LEMMA StackStep ==
  ASSUME SparesStack, IInv, StackInv, [Next]_vars
  PROVE  StackInv'
<1>1. CASE UNCHANGED <<heap, given>>
  BY <1>1 DEF StackInv, Pointers, given
<1>2. CASE executeFrom
  <2>1. UNCHANGED given
    BY <1>2 DEF executeFrom
  <2>2. CASE UNCHANGED heap
    BY <1>1, <2>1, <2>2
  <2>3. CASE createState(Entry)
    <3> DEFINE s == NewState(stateCounter, Entry)
    <3>1. heap = <<>> /\ heap' = Append(heap, s)
      BY <1>2, <2>3 DEF executeFrom, IInv, Lists, createState
    <3>2. Stacked(s)
      BY NewStacked
    <3> HIDE DEF s
    <3>3. DOMAIN heap' = {1} /\ heap'[1] = s
      BY <3>1
    <3>4. QED
      BY <2>1, <3>2, <3>3 DEF StackInv, Pointers, given
  <2>4. QED
    BY <1>2, <2>2, <2>3 DEF executeFrom, managerVars
<1>3. CASE Pick
  <2>1. /\ heap' = [heap EXCEPT ![Last(worklist)].type = "ACTIVE"]
        /\ worklist # <<>> /\ UNCHANGED given
    BY <1>3 DEF Pick, getNextState
  <2>2. Last(worklist) \in Pointers
    <3>1. worklist \in Seq(Pointers)
      BY DEF IInv, Lists
    <3>2. Len(worklist) \in 1 .. Len(worklist)
      BY <2>1, <3>1, EmptySeq, LenProperties
    <3>3. QED
      BY <3>1, <3>2, ElementOfSeq DEF Last
  <2>3. QED
    BY <2>1, <2>2, RetypeStacked
<1>4. CASE ReachEnd \/ Fail
  <2>1. /\ heap' = [heap EXCEPT ![current].type = "TERMINATED"]
        /\ slice /\ UNCHANGED given
    BY <1>4 DEF ReachEnd, Fail, removeState, InSlice
  <2>2. current \in Pointers
    BY <2>1 DEF IInv, Lists
  <2>3. QED
    BY <2>1, <2>2, RetypeStacked
<1>5. CASE executeInstruction
  BY <1>5, InstructionStacked
<1>6. CASE loadBinary \/ Complete \/ GiveUp \/ LeaveSlice
  BY <1>1, <1>6 DEF loadBinary, Complete, GiveUp, LeaveSlice, managerVars
<1>7. CASE UNCHANGED vars
  BY <1>1, <1>7 DEF vars, managerVars
<1>8. QED
  BY <1>2, <1>3, <1>4, <1>5, <1>6, <1>7 DEF Next

(* executePUSH and executePOP move the stack pointer of the registers and  *)
(* that of the memory model together, and nothing else moves either: not   *)
(* calls, returns, forks or flags.  The code relies on it, since push      *)
(* writes where the memory model says; it is proved of programs and        *)
(* clients that do not write rsp themselves.                               *)
THEOREM StackPointersTogether ==
  ASSUME SparesStack PROVE Spec => []StackPointersAgree
<1>1. Init => StackInv
  BY DEF Init, InitManager, StackInv, Pointers
<1>2. IInv /\ StackInv /\ [Next]_vars => StackInv'
  BY StackStep
<1>3. StackInv => StackPointersAgree
  BY DEF StackInv, Stacked, RspOf, StackPointersAgree
<1>4. QED
  BY <1>1, <1>2, <1>3, AlwaysIInv, PTL DEF Spec

-----------------------------------------------------------------------------
(* Execution and the graph.                                                *)

HasPc(s) == "pc" \in DOMAIN s

PcInv ==
  program \in Programs /\ \A h \in Pointers : IsState(heap[h]) /\ HasPc(heap[h])

LEMMA OperandPc ==
  ASSUME NEW s, HasPc(s), NEW o, NEW v
  PROVE  HasPc(setOperandValue(s, o, v)) /\ setOperandValue(s, o, v).pc = s.pc
<1>1. CASE o.kind = "reg"
  BY <1>1 DEF setOperandValue, HasPc
<1>2. CASE o.kind = "mem"
  BY <1>2 DEF setOperandValue, HasPc
<1>3. CASE o.kind # "reg" /\ o.kind # "mem"
  BY <1>3 DEF setOperandValue, HasPc
<1>4. QED
  BY <1>1, <1>2, <1>3

(* Recording an instruction and marking data move no state.                *)
LEMMA RecordedPc ==
  ASSUME NEW s, HasPc(s), IsState(s)
  PROVE  HasPc(Recorded(s)) /\ IsState(Recorded(s)) /\ Recorded(s).pc = s.pc
<1> DEFINE r == [s EXCEPT !.history = @ + 1, !.steps = @ + 1]
<1>1. Recorded(s) = Marked(r, s.pc)
  BY DEF Recorded
<1>2. HasPc(r) /\ IsState(r) /\ r.pc = s.pc
  BY DEF HasPc, IsState
<1> HIDE DEF r
<1>3. CASE \E m \in client.marks : m.at = s.pc
  <2> DEFINE m == CHOOSE m \in client.marks : m.at = s.pc
             t == setOperandValue(r, m.to, makeSymbolic(m.name))
  <2>1. Marked(r, s.pc) = [t EXCEPT !.symbolicInputs = @ \cup {m.name}]
    BY <1>3 DEF Marked
  <2> HIDE DEF m
  <2>2. HasPc(t) /\ t.pc = s.pc
    BY <1>2, OperandPc
  <2>3. IsState(t)
    BY <1>2, SetOperandKeeps DEF Keeps, IsState
  <2> HIDE DEF t
  <2>4. QED
    BY <1>1, <2>1, <2>2, <2>3 DEF HasPc, IsState
<1>4. CASE ~\E m \in client.marks : m.at = s.pc
  BY <1>1, <1>2, <1>4 DEF Marked
<1>5. QED
  BY <1>3, <1>4

(* Where an instruction that asks no solver goes.                          *)
LEMMA TransferPc ==
  ASSUME NEW s, HasPc(s), IsState(s), NEW i
  PROVE  /\ HasPc(Transfer(s, i)) /\ IsState(Transfer(s, i))
         /\ isCall(i) \/ isReturn(i)
            \/ Transfer(s, i).pc = IF i.mnemonic = "jmp" THEN Target(s, i)
                                   ELSE Next_(s, i)
<1>1. HasPc(Transfer(s, i)) /\ IsState(Transfer(s, i))
  BY TransferKeeps DEF Keeps, HasPc
<1>2. CASE i.mnemonic = "jmp"
  <2>1. Transfer(s, i) = [s EXCEPT !.pc = Target(s, i)]
    BY <1>2 DEF Transfer, isCall, isReturn
  <2>2. QED
    BY <1>1, <1>2, <2>1 DEF HasPc
<1>3. CASE i.mnemonic # "jmp" /\ ~isCall(i) /\ ~isReturn(i)
  <2>1. HasPc(Straight(s, i))
    BY StraightKeeps DEF Keeps, HasPc
  <2>2. Transfer(s, i) = [Straight(s, i) EXCEPT !.pc = Next_(s, i)]
    BY <1>3 DEF Transfer
  <2>3. QED
    BY <1>1, <1>3, <2>1, <2>2 DEF HasPc
<1>4. QED
  BY <1>1, <1>2, <1>3

(* The target the graph has for a branch is the one execution has.         *)
LEMMA TargetsAgree ==
  ASSUME NEW i, NEW n \in Nat \ {0}, DOMAIN i.operands = 1 .. n,
         i.operands[1].kind = "imm"
  PROVE  resolveBranchTarget(i) = i.operands[1].num
<1> DEFINE imms == {k \in DOMAIN i.operands : i.operands[k].kind = "imm"}
           first == CHOOSE k \in imms : \A j \in imms : k <= j
<1>1. imms \in SUBSET (1 .. n) /\ 1 \in imms
  OBVIOUS
<1> HIDE DEF imms
<1>2. first \in imms /\ \A j \in imms : first <= j
  <2>1. \E k \in imms : \A j \in imms : k <= j
    BY <1>1
  <2>2. QED
    BY <2>1
<1> HIDE DEF first
<1>3. first = 1
  BY <1>1, <1>2
<1>4. imms # {} /\ resolveBranchTarget(i) = i.operands[first].num
  BY <1>1 DEF resolveBranchTarget, first, imms
<1>5. QED
  BY <1>3, <1>4

(* Where it goes otherwise, from a, with both ways of a branch.            *)
Ways(a) ==
  LET i == program[a]
      o == i.operands[1]
      target == IF o.kind = "imm" THEN o.num ELSE a + i.size
  IN  IF i.mnemonic = "jmp" THEN {target}
      ELSE IF isBranch(i) THEN {target, a + i.size} ELSE {a + i.size}

OnEdge(a, b) ==
  \/ b \in successors(program, a)
  \/ isCall(program[a]) \/ isReturn(program[a])
  \/ program[a].mnemonic = "loop"

LEMMA WaysAreEdges ==
  ASSUME DirectJumps, program \in Programs, NEW a \in DOMAIN program,
         NEW b \in Ways(a), b \in basicBlocks(program), b # 0
  PROVE  OnEdge(a, b)
<1> DEFINE i == program[a]
           o == i.operands[1]
           target == {resolveBranchTarget(i)} \ {0}
           next == {a + i.size}
<1>1. SUFFICES ASSUME ~isCall(i), ~isReturn(i), i.mnemonic # "loop"
               PROVE  b \in successors(program, a)
  BY DEF OnEdge
<1>2. i.mnemonic # "call"
  BY <1>1 DEF isCall
<1>3. successors(program, a) = basicBlocks(program) \cap
        (IF isBranch(i) THEN IF i.mnemonic = "jmp" THEN target
                             ELSE target \cup next
         ELSE next)
  BY <1>1, <1>2 DEF successors
<1>4. CASE ~isBranch(i)
  <2>1. i.mnemonic # "jmp"
    BY <1>4 DEF isBranch
  <2>2. b = a + i.size
    BY <1>4, <2>1 DEF Ways
  <2>3. QED
    BY <1>3, <1>4, <2>2
<1>5. CASE isBranch(i)
  <2>1. /\ Len(i.operands) \in Nat \ {0}
        /\ DOMAIN i.operands = 1 .. Len(i.operands)
        /\ i.mnemonic = "jmp" => o.kind = "imm"
    BY <1>5 DEF DirectJumps
  <2>2. o.kind = "imm" => resolveBranchTarget(i) = o.num
    <3> HIDE DEF i
    <3>1. QED
      BY <2>1, TargetsAgree
  <2>3. b \in (IF i.mnemonic = "jmp" THEN {o.num}
               ELSE {IF o.kind = "imm" THEN o.num ELSE a + i.size, a + i.size})
    BY <1>5, <2>1 DEF Ways
  <2> HIDE DEF i, o
  <2>4. QED
    BY <1>3, <1>5, <2>1, <2>2, <2>3
<1>6. QED
  BY <1>4, <1>5

(* What a step may do to where states are: to one of them only.            *)
Follows(s, a) == s.pc = a \/ \/ isCall(program[a]) \/ isReturn(program[a])
                             \/ s.pc \in Ways(a)

LEMMA RewritePc ==
  ASSUME IInv, PcInv, NEW h \in Pointers, NEW t, HasPc(t), IsState(t),
         heap' = [heap EXCEPT ![h] = t], UNCHANGED given
  PROVE  /\ PcInv' /\ heap'[h] = t
         /\ \A k \in Pointers \ {h} : heap'[k] = heap[k]
<1>1. heap \in Seq(Range(heap))
  BY DEF IInv, Lists
<1>2. /\ DOMAIN heap' = DOMAIN heap /\ heap'[h] = t
      /\ \A j \in DOMAIN heap \ {h} : heap'[j] = heap[j]
  BY <1>1, Updated DEF Pointers
<1>3. QED
  BY <1>2 DEF PcInv, Pointers, given

LEMMA RetypePc ==
  ASSUME IInv, PcInv, NEW h \in Pointers, NEW type,
         heap' = [heap EXCEPT ![h].type = type], UNCHANGED given
  PROVE  PcInv' /\ \A k \in Pointers : heap'[k].pc = heap[k].pc
<1> DEFINE t == [heap[h] EXCEPT !.type = type]
<1>1. HasPc(t) /\ IsState(t) /\ t.pc = heap[h].pc
  BY DEF PcInv, HasPc, IsState
<1> HIDE DEF t
<1>2. heap' = [heap EXCEPT ![h] = t]
  BY DEF t
<1>3. QED
  BY <1>1, <1>2, RewritePc

LEMMA ForkPc ==
  ASSUME IInv, PcInv, slice, NEW s, HasPc(s), IsState(s), NEW holds,
         NEW target, NEW next, forkState(s, holds, target, next), UNCHANGED given
  PROVE  /\ PcInv' /\ heap'[current].pc \in {s.pc, target, next}
         /\ \A k \in Pointers \ {current} : heap'[k] = heap[k]
<1> DEFINE yes == [addConstraint(s, holds) EXCEPT !.pc = target]
           no == [addConstraint(s, Valuations \ holds) EXCEPT !.pc = next]
           copy == [addConstraint(fork(s), Valuations \ holds) EXCEPT !.pc = next]
           numbered == [copy EXCEPT !.id = getTotalStates]
           dead == [s EXCEPT !.type = "TERMINATED", !.steps = @ - 1]
<1>1. /\ HasPc(yes) /\ IsState(yes) /\ yes.pc = target
      /\ HasPc(no) /\ IsState(no) /\ no.pc = next
      /\ HasPc(dead) /\ IsState(dead) /\ dead.pc = s.pc
  BY DEF addConstraint, HasPc, IsState
<1>2. HasPc(numbered) /\ IsState(numbered)
  BY DEF addConstraint, fork, HasPc, IsState
<1>3. current \in Pointers /\ heap \in Seq(Range(heap))
  BY DEF IInv, Lists
<1>4. \/ heap' = Append([heap EXCEPT ![current] = yes], numbered)
      \/ \E t \in {yes, no, dead} : heap' = [heap EXCEPT ![current] = t]
  BY DEF forkState, Forked
<1> HIDE DEF yes, no, numbered, dead
<1>5. CASE heap' = Append([heap EXCEPT ![current] = yes], numbered)
  <2> DEFINE both == [heap EXCEPT ![current] = yes]
  <2>1. /\ DOMAIN both = DOMAIN heap /\ both[current] = yes
        /\ \A j \in DOMAIN heap \ {current} : both[j] = heap[j]
        /\ both \in Seq(Range(both))
    BY <1>3, Updated DEF Pointers
  <2>2. \A j \in DOMAIN both : IsState(both[j]) /\ HasPc(both[j])
    BY <1>1, <2>1 DEF PcInv, Pointers
  <2> HIDE DEF both
  <2>3. /\ DOMAIN both = 1 .. Len(both) /\ DOMAIN heap' = 1 .. Len(both) + 1
        /\ \A k \in 1 .. Len(both) : heap'[k] = both[k]
        /\ heap'[Len(both) + 1] = numbered /\ Len(both) \in Nat
    BY <1>5, <2>1, Appended DEF both
  <2>4. \A k \in DOMAIN heap' : IsState(heap'[k]) /\ HasPc(heap'[k])
    BY <1>2, <2>2, <2>3
  <2>5. PcInv'
    BY <2>4 DEF PcInv, Pointers, given
  <2>6. heap'[current] = yes /\ \A k \in Pointers \ {current} : heap'[k] = heap[k]
    BY <1>3, <2>1, <2>3 DEF Pointers
  <2>7. QED
    BY <1>1, <2>5, <2>6
<1>6. CASE \E t \in {yes, no, dead} : heap' = [heap EXCEPT ![current] = t]
  BY <1>1, <1>3, <1>6, RewritePc
<1>7. QED
  BY <1>4, <1>5, <1>6

LEMMA InstructionPc ==
  ASSUME IInv, PcInv, executeInstruction
  PROVE  /\ PcInv' /\ current \in Pointers /\ heap[current].pc \in DOMAIN program
         /\ Follows(heap'[current], heap[current].pc)
         /\ \A k \in Pointers \ {current} : heap'[k] = heap[k]
<1> DEFINE s == Recorded(heap[current])
           i == program[s.pc]
<1>1. /\ slice /\ UNCHANGED given /\ Decodes(heap[current].pc)
      /\ IF Branches(i)
         THEN forkState(s, Condition(s, i.mnemonic), Target(s, i), Next_(s, i))
         ELSE heap' = [heap EXCEPT ![current] = Transfer(s, i)]
  BY DEF executeInstruction, InSlice
<1>2. current \in Pointers /\ HasPc(heap[current]) /\ IsState(heap[current])
  BY <1>1 DEF IInv, Lists, PcInv
<1>3. HasPc(s) /\ IsState(s) /\ s.pc = heap[current].pc
  BY <1>2, RecordedPc
<1> HIDE DEF s
<1>4. PICK a : a = heap[current].pc /\ a \in DOMAIN program /\ s.pc = a
  BY <1>1, <1>3 DEF Decodes
<1>5. /\ Next_(s, i) = a + program[a].size
      /\ Target(s, i) = IF program[a].operands[1].kind = "imm"
                        THEN program[a].operands[1].num
                        ELSE a + program[a].size
  BY <1>4 DEF Next_, Target
<1>6. CASE Branches(i)
  <2>1. /\ PcInv' /\ heap'[current].pc \in {a, Target(s, i), Next_(s, i)}
        /\ \A k \in Pointers \ {current} : heap'[k] = heap[k]
    BY <1>1, <1>3, <1>4, <1>6, ForkPc
  <2>2. isBranch(program[a]) /\ program[a].mnemonic # "jmp"
    BY <1>4, <1>6 DEF Branches
  <2>3. Ways(a) = {Target(s, i), Next_(s, i)}
    BY <1>5, <2>2 DEF Ways
  <2>4. Follows(heap'[current], a)
    BY <2>1, <2>3 DEF Follows
  <2>5. QED
    BY <1>2, <1>4, <2>1, <2>4
<1>7. CASE ~Branches(i)
  <2> DEFINE t == Transfer(s, i)
  <2>1. heap' = [heap EXCEPT ![current] = t]
    BY <1>1, <1>7
  <2>2. /\ HasPc(t) /\ IsState(t)
        /\ isCall(i) \/ isReturn(i)
           \/ t.pc = IF i.mnemonic = "jmp" THEN Target(s, i) ELSE Next_(s, i)
    BY <1>3, TransferPc
  <2>3. isCall(i) \/ ~isBranch(i) \/ i.mnemonic = "jmp"
    BY <1>7 DEF Branches
  <2>4. Follows(t, a)
    <3>1. CASE isCall(i) \/ isReturn(i)
      BY <1>4, <3>1 DEF Follows
    <3>2. CASE i.mnemonic = "jmp" /\ ~isCall(i) /\ ~isReturn(i)
      <4>1. Ways(a) = {Target(s, i)} /\ t.pc = Target(s, i)
        BY <1>4, <1>5, <2>2, <3>2 DEF Ways
      <4>2. QED
        BY <4>1 DEF Follows
    <3>3. CASE i.mnemonic # "jmp" /\ ~isCall(i) /\ ~isReturn(i)
      <4>1. Ways(a) = {Next_(s, i)} /\ t.pc = Next_(s, i)
        BY <1>4, <1>5, <2>2, <2>3, <3>3 DEF Ways
      <4>2. QED
        BY <4>1 DEF Follows
    <3>4. QED
      BY <3>1, <3>2, <3>3
  <2> HIDE DEF t
  <2>5. /\ PcInv' /\ heap'[current] = t
        /\ \A k \in Pointers \ {current} : heap'[k] = heap[k]
    BY <1>1, <1>2, <2>1, <2>2, RewritePc
  <2>6. QED
    BY <1>2, <1>4, <2>4, <2>5
<1>8. QED
  BY <1>6, <1>7

(* A state that is somewhere else after a step has followed an edge.       *)
Moves(h) ==
  LET a == heap[h].pc
      b == heap'[h].pc
  IN  a # b /\ {a, b} \subseteq basicBlocks(program) \ {0}
        => \/ b \in successors(program, a)
           \/ isCall(program[a]) \/ isReturn(program[a])
           \/ program[a].mnemonic = "loop"

LEMMA PcStep ==
  ASSUME DirectJumps, IInv, PcInv, [Next]_vars
  PROVE  PcInv' /\ \A h \in Pointers : Moves(h)
<1>1. CASE UNCHANGED <<heap, given>>
  BY <1>1 DEF PcInv, Pointers, given, Moves
<1>2. CASE executeFrom
  <2>1. UNCHANGED given
    BY <1>2 DEF executeFrom
  <2>2. CASE UNCHANGED heap
    BY <1>1, <2>1, <2>2
  <2>3. CASE createState(Entry)
    <3> DEFINE s == NewState(stateCounter, Entry)
    <3>1. heap = <<>> /\ heap' = Append(heap, s)
      BY <1>2, <2>3 DEF executeFrom, IInv, Lists, createState
    <3>2. HasPc(s) /\ IsState(s)
      BY DEF NewState, HasPc, IsState
    <3> HIDE DEF s
    <3>3. Pointers = {} /\ DOMAIN heap' = {1} /\ heap'[1] = s
      BY <3>1 DEF Pointers
    <3>4. QED
      BY <2>1, <3>2, <3>3 DEF PcInv, Pointers, given
  <2>4. QED
    BY <1>2, <2>2, <2>3 DEF executeFrom, managerVars
<1>3. CASE Pick
  <2>1. /\ heap' = [heap EXCEPT ![Last(worklist)].type = "ACTIVE"]
        /\ worklist # <<>> /\ UNCHANGED given
    BY <1>3 DEF Pick, getNextState
  <2>2. Last(worklist) \in Pointers
    <3>1. worklist \in Seq(Pointers)
      BY DEF IInv, Lists
    <3>2. Len(worklist) \in 1 .. Len(worklist)
      BY <2>1, <3>1, EmptySeq, LenProperties
    <3>3. QED
      BY <3>1, <3>2, ElementOfSeq DEF Last
  <2>3. QED
    BY <2>1, <2>2, RetypePc DEF Moves
<1>4. CASE ReachEnd \/ Fail
  <2>1. /\ heap' = [heap EXCEPT ![current].type = "TERMINATED"]
        /\ slice /\ UNCHANGED given
    BY <1>4 DEF ReachEnd, Fail, removeState, InSlice
  <2>2. current \in Pointers
    BY <2>1 DEF IInv, Lists
  <2>3. QED
    BY <2>1, <2>2, RetypePc DEF Moves
<1>5. CASE executeInstruction
  <2>1. /\ PcInv' /\ current \in Pointers
        /\ heap[current].pc \in DOMAIN program
        /\ Follows(heap'[current], heap[current].pc)
        /\ \A k \in Pointers \ {current} : heap'[k] = heap[k]
    BY <1>5, InstructionPc
  <2>2. ASSUME NEW h \in Pointers \ {current} PROVE Moves(h)
    BY <2>1 DEF Moves
  <2>3. Moves(current)
    <3>1. SUFFICES
            ASSUME NEW a, NEW b, a = heap[current].pc, b = heap'[current].pc,
                   a # b, b \in basicBlocks(program), b # 0
            PROVE  OnEdge(a, b)
      BY DEF Moves, OnEdge
    <3>2. isCall(program[a]) \/ isReturn(program[a]) \/ b \in Ways(a)
      BY <2>1, <3>1 DEF Follows
    <3>3. CASE b \in Ways(a)
      BY <2>1, <3>1, <3>3, WaysAreEdges DEF PcInv
    <3>4. CASE isCall(program[a]) \/ isReturn(program[a])
      BY <3>4 DEF OnEdge
    <3>5. QED
      BY <3>2, <3>3, <3>4
  <2>4. QED
    BY <2>1, <2>2, <2>3
<1>6. CASE loadBinary \/ Complete \/ GiveUp \/ LeaveSlice
  BY <1>1, <1>6 DEF loadBinary, Complete, GiveUp, LeaveSlice, managerVars
<1>7. CASE UNCHANGED vars
  BY <1>1, <1>7 DEF vars, managerVars
<1>8. QED
  BY <1>2, <1>3, <1>4, <1>5, <1>6, <1>7 DEF Next

(* The executor follows the graph that buildEdges of src/CFGBuilder.cpp    *)
(* draws of the same code: no handler, fork or callback takes a state from *)
(* one block to another without an edge, but for what FollowsGraph lists;  *)
(* in programs whose jumps have their targets in them.                     *)
THEOREM ExecutionOnGraph == ASSUME DirectJumps PROVE Spec => FollowsGraph
<1>1. Init => PcInv
  BY DEF Init, InitManager, PcInv, Pointers
<1>2. IInv /\ PcInv /\ [Next]_vars => PcInv'
  BY PcStep
<1>3. IInv /\ PcInv /\ [Next]_vars =>
        [\A h \in Pointers :
           LET a == heap[h].pc
               b == heap'[h].pc
           IN  a # b /\ {a, b} \subseteq basicBlocks(program) \ {0}
                 => \/ b \in successors(program, a)
                    \/ isCall(program[a]) \/ isReturn(program[a])
                    \/ program[a].mnemonic = "loop"]_heap
  BY PcStep DEF Moves
<1>4. QED
  BY <1>1, <1>2, <1>3, AlwaysIInv, PTL DEF Spec, FollowsGraph
-----------------------------------------------------------------------------
(* A session of LibTests: the executor, the generator and the runner.      *)

(* The tests run so far that did not pass, and where they are listed.      *)
Bad == {k \in DOMAIN outcomes : ~Passes(outcomes[k])}
Before(k) == {j \in Bad : j <= k}
Listed(k) == results.failures[Cardinality(Before(k))]
Killed(k) == \E j \in 1 .. k : outcomes[j] = "killed"

Verdicts ==
  /\ results.passed + results.failed + results.crashed
       = results.start + Len(outcomes)
  /\ Len(results.failures) = Cardinality(Bad)
  /\ \A k \in Bad :
       /\ Listed(k)[1] = cases[k]
       /\ Killed(k) => Listed(k)[2] = "crash"
       /\ ~probed /\ Listed(k)[2] = "crash" => Killed(k)

IsResults(r) ==
  /\ r = [start |-> r.start, total |-> r.total, passed |-> r.passed,
          failed |-> r.failed, crashed |-> r.crashed, failures |-> r.failures]
  /\ {r.start, r.passed, r.failed, r.crashed} \subseteq Nat
  /\ \E F : r.failures \in Seq(F)

(* The cases are no longer changed once tests run, and what crashInfo says *)
(* of the past is true unless causesCrash has been called.                 *)
RunnerInv ==
  /\ outcomes \in Seq(Outcomes)
  /\ IsResults(results)
  /\ results = NoResults => outcomes = <<>>
  /\ results # NoResults => asked # "none" /\ todo = <<>>
  /\ probed \in BOOLEAN /\ crashInfo \in BOOLEAN
  /\ Killed(Len(outcomes)) => crashInfo
  /\ ~probed /\ crashInfo => Killed(Len(outcomes))
  /\ Verdicts

LEMMA NothingListed ==
  ASSUME outcomes = <<>>, results = NoResults
  PROVE  Verdicts /\ ~Killed(Len(outcomes))
<1>1. Bad = {} /\ Len(outcomes) = 0
  BY DEF Bad
<1>2. Cardinality(Bad) = 0
  BY <1>1, FS_EmptySet
<1>3. QED
  BY <1>1, <1>2 DEF Verdicts, Killed, NoResults

LEMMA RunnerInit == TestsInit => RunnerInv
<1> SUFFICES ASSUME TestsInit PROVE RunnerInv
  OBVIOUS
<1>1. /\ outcomes = <<>> /\ results = NoResults /\ probed = FALSE
      /\ crashInfo = FALSE
  BY DEF TestsInit
<1>2. IsResults(results)
  <2>1. <<>> \in Seq({})
    OBVIOUS
  <2>2. QED
    BY <1>1, <2>1 DEF NoResults, IsResults
<1>3. Verdicts /\ ~Killed(Len(outcomes))
  BY <1>1, NothingListed
<1>4. outcomes \in Seq(Outcomes)
  BY <1>1
<1>5. QED
  BY <1>1, <1>2, <1>3, <1>4, Zenon DEF RunnerInv

(* What the verdicts are about is as it was.                               *)
LEMMA VerdictsKept ==
  ASSUME Verdicts, UNCHANGED <<outcomes, results, probed, cases>>
  PROVE  Verdicts'
BY DEF Verdicts, Bad, Before, Listed, Killed

LEMMA RunnerIdles ==
  ASSUME RunnerInv, UNCHANGED runnerVars,
         results # NoResults => UNCHANGED generatorVars
  PROVE  RunnerInv'
<1>1. CASE results # NoResults
  <2>1. UNCHANGED <<outcomes, results, probed, cases, asked, todo, crashInfo>>
    BY <1>1 DEF runnerVars, generatorVars
  <2>2. Verdicts'
    BY <2>1, VerdictsKept DEF RunnerInv
  <2>3. QED
    BY <2>1, <2>2 DEF RunnerInv, IsResults, Killed
<1>2. CASE results = NoResults
  <2>1. UNCHANGED <<outcomes, results, probed, crashInfo>>
    BY DEF runnerVars
  <2>2. outcomes = <<>>
    BY <1>2 DEF RunnerInv
  <2>3. Verdicts' /\ IsResults(results)'
    <3>1. IsResults(results)'
      BY <2>1 DEF RunnerInv, IsResults
    <3>2. Bad' = {} /\ Bad = {}
      BY <2>1, <2>2 DEF Bad
    <3>3. QED
      BY <2>1, <3>1, <3>2 DEF RunnerInv, Verdicts
  <2>4. Killed(Len(outcomes))' <=> Killed(Len(outcomes))
    BY <2>1 DEF Killed
  <2>5. QED
    BY <1>2, <2>1, <2>3, <2>4 DEF RunnerInv
<1>3. QED
  BY <1>1, <1>2

LEMMA RunnerProbes == ASSUME RunnerInv, causesCrash PROVE RunnerInv'
<1>1. /\ results = NoResults /\ outcomes = <<>>
      /\ UNCHANGED <<outcomes, results>> /\ probed' = TRUE
      /\ crashInfo' \in BOOLEAN
  BY DEF causesCrash, RunnerInv
<1>2. Bad' = {} /\ Bad = {} /\ ~Killed(Len(outcomes))'
  BY <1>1 DEF Bad, Killed
<1>3. Verdicts' /\ IsResults(results)'
  BY <1>1, <1>2 DEF RunnerInv, Verdicts, IsResults
<1>4. QED
  BY <1>1, <1>2, <1>3 DEF RunnerInv

LEMMA RunnerStarts == ASSUME RunnerInv, startTests PROVE RunnerInv'
<1>1. PICK p \in Junk, f \in Junk, c \in Junk :
        results' = [start |-> p + f + c, total |-> Len(cases), passed |-> p,
                    failed |-> f, crashed |-> c, failures |-> <<>>]
  BY DEF startTests
<1>2. {p, f, c} \subseteq Nat
  BY JunkAssumption
<1>3. /\ asked # "none" /\ todo = <<>> /\ results = NoResults
      /\ outcomes = <<>> /\ crashInfo \in BOOLEAN /\ probed \in BOOLEAN
      /\ UNCHANGED <<asked, todo, cases, crashInfo, probed, outcomes>>
  BY DEF startTests, generatorVars, RunnerInv
<1>4. IsResults(results)'
  <2>1. <<>> \in Seq({})
    OBVIOUS
  <2>2. QED
    BY <1>1, <1>2, <2>1 DEF IsResults
<1>5. Bad' = {} /\ Len(outcomes') = 0
  BY <1>3 DEF Bad
<1>6. Cardinality(Bad)' = 0
  BY <1>5, FS_EmptySet
<1>7. Verdicts'
  BY <1>1, <1>2, <1>5, <1>6 DEF Verdicts
<1>8. Killed(Len(outcomes))' <=> Killed(Len(outcomes))
  BY <1>3 DEF Killed
<1>9. QED
  BY <1>3, <1>4, <1>7, <1>8 DEF RunnerInv

(* One more outcome: the tests that did not pass, up to it.                *)
LEMMA BadAppended ==
  ASSUME outcomes \in Seq(Outcomes), NEW n \in Nat, n = Len(outcomes),
         NEW o, outcomes' = Append(outcomes, o)
  PROVE  /\ Len(outcomes') = n + 1
         /\ Bad' = IF Passes(o) THEN Bad ELSE Bad \cup {n + 1}
         /\ IsFiniteSet(Bad) /\ Bad \subseteq 1 .. n
         /\ \A k \in Bad : Before(k)' = Before(k) /\ (Killed(k)' <=> Killed(k))
         /\ Killed(n + 1)' <=> Killed(n) \/ o = "killed"
<1>2. /\ Len(outcomes') = n + 1 /\ DOMAIN outcomes' = 1 .. n + 1
      /\ DOMAIN outcomes = 1 .. n
      /\ outcomes'[n + 1] = o /\ \A k \in 1 .. n : outcomes'[k] = outcomes[k]
  OBVIOUS
<1>3. Bad \subseteq 1 .. n
  BY <1>2 DEF Bad
<1>4. IsFiniteSet(Bad)
  <2>1. IsFiniteSet(1 .. n)
    BY FS_Interval
  <2>2. QED
    BY <1>3, <2>1, FS_Subset
<1>5. Bad' = IF Passes(o) THEN Bad ELSE Bad \cup {n + 1}
  <2>1. \A k : k \in Bad' <=> k \in 1 .. n + 1 /\ ~Passes(outcomes'[k])
    BY <1>2 DEF Bad, Passes
  <2>2. \A k : k \in Bad <=> k \in 1 .. n /\ ~Passes(outcomes[k])
    BY <1>2 DEF Bad
  <2>3. \A k : k \in 1 .. n + 1 <=> k \in 1 .. n \/ k = n + 1
    OBVIOUS
  <2>4. \A k \in 1 .. n : k # n + 1
    OBVIOUS
  <2>5. \A k : k \in Bad' <=> k \in Bad \/ (k = n + 1 /\ ~Passes(o))
    BY <1>2, <2>1, <2>2, <2>3, <2>4
  <2>6. QED
    BY <2>5
<1>6. ASSUME NEW k \in Bad PROVE Before(k)' = Before(k) /\ (Killed(k)' <=> Killed(k))
  <2>1. k \in 1 .. n /\ ~(n + 1 <= k)
    BY <1>3
  <2>2. Before(k)' = Before(k)
    BY <1>5, <2>1 DEF Before
  <2>3. \A j \in 1 .. k : outcomes'[j] = outcomes[j]
    BY <1>2, <2>1
  <2>4. QED
    BY <2>2, <2>3 DEF Killed
<1>7. Killed(n + 1)' <=> Killed(n) \/ o = "killed"
  BY <1>2 DEF Killed
<1>8. QED
  BY <1>2, <1>3, <1>4, <1>5, <1>6, <1>7

(* The place of a test that did not pass is one in the list.               *)
LEMMA ListedPlace ==
  ASSUME IsFiniteSet(Bad), Bad \subseteq Int, NEW k \in Bad
  PROVE  Cardinality(Before(k)) \in 1 .. Cardinality(Bad)
<1>1. Before(k) \subseteq Bad /\ k \in Before(k)
  BY DEF Before
<1>2. IsFiniteSet(Before(k)) /\ Cardinality(Before(k)) <= Cardinality(Bad)
  BY <1>1, FS_Subset
<1>3. Cardinality(Before(k)) \in Nat /\ Cardinality(Before(k)) # 0
  BY <1>1, <1>2, FS_CardinalityType, FS_EmptySet
<1>4. Cardinality(Bad) \in Nat
  BY FS_CardinalityType
<1>5. QED
  BY <1>2, <1>3, <1>4

LEMMA RunnerRuns == ASSUME RunnerInv, runTestCase PROVE RunnerInv'
<1>1. PICK o \in Outcomes :
        LET seen == crashInfo \/ o = "killed"
            case == cases[Len(outcomes) + 1]
        IN  /\ outcomes' = Append(outcomes, o)
            /\ crashInfo' = seen
            /\ results' =
                 IF Passes(o) THEN [results EXCEPT !.passed = @ + 1]
                 ELSE LET why == Reason(seen, o)
                      IN  [results EXCEPT
                             !.crashed = @ + Bool(why = "crash"),
                             !.failed = @ + Bool(why = "failed"),
                             !.failures = Append(@, <<case, why>>)]
  BY DEF runTestCase
<1>2. /\ outcomes' = Append(outcomes, o)
      /\ crashInfo' = (crashInfo \/ o = "killed")
      /\ results # NoResults
      /\ UNCHANGED <<asked, todo, cases, probed>>
  BY <1>1 DEF runTestCase, generatorVars
<1>3. PICK n \in Nat : n = Len(outcomes)
  BY DEF RunnerInv
<1>4. /\ Len(outcomes') = n + 1
      /\ Bad' = IF Passes(o) THEN Bad ELSE Bad \cup {n + 1}
      /\ IsFiniteSet(Bad) /\ Bad \subseteq 1 .. n
      /\ \A k \in Bad : Before(k)' = Before(k) /\ (Killed(k)' <=> Killed(k))
      /\ Killed(n + 1)' <=> Killed(n) \/ o = "killed"
  BY <1>2, <1>3, BadAppended DEF RunnerInv
<1>5. /\ outcomes' \in Seq(Outcomes) /\ crashInfo' \in BOOLEAN
      /\ Killed(n + 1)' => crashInfo'
      /\ ~probed' /\ crashInfo' => Killed(n + 1)'
  <2>1. outcomes' \in Seq(Outcomes)
    BY <1>2 DEF RunnerInv
  <2>2. /\ crashInfo \in BOOLEAN /\ probed' = probed
        /\ Killed(n) => crashInfo
        /\ ~probed /\ crashInfo => Killed(n)
    BY <1>2, <1>3 DEF RunnerInv
  <2>3. crashInfo' \in BOOLEAN /\ (crashInfo' <=> crashInfo \/ o = "killed")
    BY <1>2, <2>2
  <2>4. QED
    BY <1>4, <2>1, <2>2, <2>3
<1>6. ASSUME NEW k \in Bad PROVE Cardinality(Before(k)) \in 1 .. Cardinality(Bad)
  BY <1>4, <1>6, ListedPlace
<1>7. IsResults(results)' /\ Verdicts'
  <2>1. CASE Passes(o)
    <3>1. results' = [results EXCEPT !.passed = @ + 1]
      BY <1>1, <2>1
    <3>2. /\ IsResults(results)' /\ results'.failures = results.failures
          /\ results'.passed + results'.failed + results'.crashed
               = results'.start + (n + 1)
      <4>1. /\ results' = [start |-> results.start, total |-> results.total,
                           passed |-> results.passed + 1,
                           failed |-> results.failed, crashed |-> results.crashed,
                           failures |-> results.failures]
            /\ {results.start, results.passed, results.failed,
                results.crashed} \subseteq Nat
        BY <3>1 DEF RunnerInv, IsResults
      <4>2. IsResults(results)'
        <5>1. \E F : results'.failures \in Seq(F)
          BY <4>1 DEF RunnerInv, IsResults
        <5>2. QED
          BY <4>1, <5>1 DEF IsResults
      <4>3. results.passed + results.failed + results.crashed
              = results.start + n
        BY <1>3 DEF RunnerInv, Verdicts
      <4>4. QED
        BY <4>1, <4>2, <4>3
    <3>3. Bad' = Bad
      BY <1>4, <2>1
    <3>4. \A k \in Bad : Listed(k)' = Listed(k)
      BY <1>4, <3>2 DEF Listed
    <3>5. QED
      BY <1>2, <1>3, <1>4, <3>2, <3>3, <3>4 DEF RunnerInv, Verdicts
  <2>2. CASE ~Passes(o)
    <3> DEFINE why == IF crashInfo' THEN "crash" ELSE "failed"
               entry == <<cases[n + 1], why>>
    <3>1. results' = [results EXCEPT
                        !.crashed = @ + Bool(why = "crash"),
                        !.failed = @ + Bool(why = "failed"),
                        !.failures = Append(@, entry)]
      BY <1>1, <1>3, <2>2 DEF Reason
    <3>2. PICK F : results.failures \in Seq(F)
      BY DEF RunnerInv, IsResults
    <3>3. PICK m \in Nat : m = Len(results.failures)
      BY <3>2
    <3>4. /\ results'.failures \in Seq(F \cup {entry})
          /\ Len(results'.failures) = m + 1
          /\ results'.failures[m + 1] = entry
          /\ \A k \in 1 .. m : results'.failures[k] = results.failures[k]
      <4>1. results'.failures = Append(results.failures, entry)
        BY <3>1 DEF RunnerInv, IsResults
      <4>2. results.failures \in Seq(F \cup {entry})
        BY <3>2
      <4> HIDE DEF entry
      <4>3. QED
        BY <3>3, <4>1, <4>2
    <3>5. Bool(why = "crash") + Bool(why = "failed") = 1
           /\ Bool(why = "crash") \in Nat /\ Bool(why = "failed") \in Nat
      BY DEF Bool
    <3>6. /\ results'.passed + results'.failed + results'.crashed
               = results'.start + (n + 1)
          /\ IsResults(results)'
      <4> HIDE DEF why, entry
      <4>1. PICK c \in Nat, f \in Nat :
               c = Bool(why = "crash") /\ f = Bool(why = "failed") /\ c + f = 1
        BY <3>5
      <4>2. /\ results'.crashed = results.crashed + c
            /\ results'.failed = results.failed + f
            /\ results'.passed = results.passed /\ results'.start = results.start
            /\ results' = [start |-> results'.start, total |-> results'.total,
                           passed |-> results'.passed, failed |-> results'.failed,
                           crashed |-> results'.crashed,
                           failures |-> results'.failures]
        BY <3>1, <4>1 DEF RunnerInv, IsResults
      <4>3. {results.start, results.passed, results.failed,
             results.crashed} \subseteq Nat
        BY DEF RunnerInv, IsResults
      <4>4. IsResults(results)'
        <5>1. {results'.start, results'.passed, results'.failed,
               results'.crashed} \subseteq Nat
          BY <4>1, <4>2, <4>3
        <5>2. QED
          BY <3>4, <4>2, <5>1 DEF IsResults
      <4>5. results.passed + results.failed + results.crashed
              = results.start + n
        BY <1>3 DEF RunnerInv, Verdicts
      <4>6. QED
        BY <4>1, <4>2, <4>3, <4>4, <4>5
    <3>7. m = Cardinality(Bad)
      BY <3>3 DEF RunnerInv, Verdicts
    <3>8. n + 1 \notin Bad /\ Bad' = Bad \cup {n + 1}
      BY <1>4, <2>2
    <3>9. Cardinality(Bad)' = m + 1
      BY <1>4, <3>7, <3>8, FS_AddElement
    <3>10. Before(n + 1)' = Bad'
      <4>1. \A k \in Bad' : k <= n + 1
        BY <1>4, <3>8
      <4>2. QED
        BY <4>1 DEF Before
    <3>11. Listed(n + 1)' = entry
      BY <3>4, <3>9, <3>10 DEF Listed
    <3>12. \A k \in Bad : Listed(k)' = Listed(k)
      BY <1>4, <1>6, <3>4, <3>7 DEF Listed
    <3>13. entry[1] = cases'[n + 1] /\ (entry[2] = "crash" <=> crashInfo')
      BY <1>2
    <3>14. ASSUME NEW k \in Bad'
           PROVE  /\ Listed(k)'[1] = cases'[k]
                  /\ Killed(k)' => Listed(k)'[2] = "crash"
                  /\ ~probed' /\ Listed(k)'[2] = "crash" => Killed(k)'
      <4> HIDE DEF entry
      <4>1. CASE k = n + 1
        BY <1>5, <3>11, <3>13, <4>1
      <4>2. CASE k \in Bad
        BY <1>2, <1>4, <3>12, <4>2 DEF RunnerInv, Verdicts
      <4>3. QED
        BY <3>8, <4>1, <4>2
    <3>15. QED
      BY <1>4, <3>4, <3>6, <3>9, <3>14 DEF Verdicts
  <2>3. QED
    BY <2>1, <2>2
<1>8. results' # NoResults
  <2>1. results'.passed + results'.failed + results'.crashed
          = results'.start + (n + 1)
    BY <1>4, <1>7 DEF Verdicts
  <2>2. QED
    BY <2>1 DEF NoResults
<1>9. QED
  BY <1>2, <1>3, <1>4, <1>5, <1>7, <1>8 DEF RunnerInv

(* Each test run is counted once and listed with its case when it did not  *)
(* pass; a program killed makes the rest crashes, and no crash is reported *)
(* as a failure: TestRunner::runAllTests, whatever the executor left.      *)
THEOREM VerdictsAlwaysFollow == TestsSpec => []VerdictsFollow
<1>1. TestsInit => RunnerInv
  BY RunnerInit
<1>2. RunnerInv /\ [TestsNext]_<<vars, generatorVars, runnerVars>> => RunnerInv'
  <2> SUFFICES ASSUME RunnerInv, [TestsNext]_<<vars, generatorVars, runnerVars>>
               PROVE  RunnerInv'
    OBVIOUS
  <2>1. CASE UNCHANGED <<generatorVars, runnerVars>>
    BY <2>1, RunnerIdles
  <2>2. CASE generateFromStates
    <3>1. results = NoResults
      BY <2>2 DEF RunnerInv, generateFromStates
    <3>2. QED
      BY <2>2, <3>1, RunnerIdles DEF generateFromStates
  <2>3. CASE generateFromState
    <3>1. results = NoResults
      BY <2>3 DEF RunnerInv, generateFromState
    <3>2. QED
      BY <2>3, <3>1, RunnerIdles DEF generateFromState
  <2>4. CASE generateThrows
    <3>1. results = NoResults
      BY <2>4 DEF RunnerInv, generateThrows
    <3>2. asked' # "none" /\ todo' = <<>> /\ UNCHANGED runnerVars
      BY <2>4 DEF generateThrows
    <3>3. QED
      BY <3>1, <3>2, RunnerIdles
  <2>5. CASE Minimize
    BY <2>5, RunnerIdles DEF Minimize
  <2>6. CASE causesCrash
    BY <2>6, RunnerProbes
  <2>7. CASE startTests
    BY <2>7, RunnerStarts
  <2>8. CASE runTestCase
    BY <2>8, RunnerRuns
  <2>9. QED
    BY <2>1, <2>2, <2>3, <2>4, <2>5, <2>6, <2>7, <2>8 DEF TestsNext
<1>3. RunnerInv => VerdictsFollow
  BY DEF RunnerInv, Verdicts, VerdictsFollow, Bad, Before, Listed, Killed
<1>4. QED
  BY <1>1, <1>2, <1>3, PTL DEF TestsSpec
-----------------------------------------------------------------------------
(* States and the processor, in programs and for clients of PlainRun.      *)

LEMMA Powers == ASSUME NEW k \in 0 .. Bits PROVE 2 ^ k \in Nat \ {0}
BY BitsAssumption

LEMMA SizePositive == Size \in Nat \ {0} /\ Bits \in Nat \ {0}
<1>1. Bits \in 0 .. Bits
  BY BitsAssumption
<1>2. QED
  BY <1>1, BitsAssumption, Powers DEF Size

LEMMA WrapsToWord == ASSUME NEW n \in Int PROVE Wrap(n) \in Word /\ Wrap(n) \in Int
BY SizePositive DEF Wrap, Word

(* The bits of a bitwise operation, counted so far: m of them.             *)
Gathered(a, b, T, m, f) ==
  f = [k \in 0 .. m |->
         IF k = 0 THEN 0
         ELSE f[k - 1]
                + (IF <<Bit(a, k - 1), Bit(b, k - 1)>> \in T THEN 2 ^ (k - 1) ELSE 0)]

LEMMA GatheredExists ==
  ASSUME NEW a, NEW b, NEW T
  PROVE  \A m \in Nat : \E f : Gathered(a, b, T, m, f)
<1> DEFINE t == [k \in Nat |->
                   IF <<Bit(a, k - 1), Bit(b, k - 1)>> \in T THEN 2 ^ (k - 1) ELSE 0]
<1>1. ASSUME NEW m \in Nat PROVE \E f : Gathered(a, b, T, m, f)
  <2>1. PICK f : PartialSums(t, m, f)
    BY PartialSumsExist
  <2>2. f = [k \in 0 .. m |-> IF k = 0 THEN 0 ELSE f[k - 1] + t[k]]
    BY <2>1 DEF PartialSums
  <2>3. \A k \in 0 .. m :
          t[k] = IF <<Bit(a, k - 1), Bit(b, k - 1)>> \in T THEN 2 ^ (k - 1) ELSE 0
    OBVIOUS
  <2> HIDE DEF t
  <2>4. Gathered(a, b, T, m, f)
    BY <2>2, <2>3 DEF Gathered
  <2>5. QED
    BY <2>4
<1>2. QED
  BY <1>1

LEMMA BitWiseNumber == ASSUME NEW a, NEW b, NEW T PROVE BitWise(a, b, T) \in Nat
<1> DEFINE g == CHOOSE f : Gathered(a, b, T, Bits, f)
<1>1. BitWise(a, b, T) = g[Bits]
  BY DEF BitWise, Gathered
<1>2. Gathered(a, b, T, Bits, g)
  BY GatheredExists, SizePositive
<1> HIDE DEF g
<1> DEFINE S == {k \in Nat : k <= Bits => g[k] \in Nat}
<1>3. 0 \in S
  BY <1>2, SizePositive DEF Gathered
<1>4. ASSUME NEW k \in Nat, k \in S PROVE k + 1 \in S
  <2>1. SUFFICES ASSUME k + 1 <= Bits PROVE g[k + 1] \in Nat
    OBVIOUS
  <2>2. k + 1 \in 0 .. Bits /\ k \in 0 .. Bits /\ k + 1 # 0 /\ (k + 1) - 1 = k
    BY <2>1, SizePositive
  <2>3. PICK x : /\ g[k + 1] = g[k] + x /\ (x = 2 ^ k \/ x = 0)
    <3>1. g[k + 1] = g[(k + 1) - 1]
            + (IF <<Bit(a, (k + 1) - 1), Bit(b, (k + 1) - 1)>> \in T
               THEN 2 ^ ((k + 1) - 1) ELSE 0)
      BY <1>2, <2>2 DEF Gathered
    <3>2. g[k + 1] = g[k]
            + (IF <<Bit(a, k), Bit(b, k)>> \in T THEN 2 ^ k ELSE 0)
      BY <2>2, <3>1
    <3>3. QED
      BY <3>2
  <2>4. x \in Nat
    BY <2>2, <2>3, Powers
  <2>5. g[k] \in Nat
    BY <1>4, <2>1, <2>2
  <2>6. QED
    BY <2>3, <2>4, <2>5
<1>5. \A k \in Nat : k \in S
  <2> HIDE DEF S
  <2>1. QED
    BY <1>3, <1>4, Induction
<1>6. Bits \in S
  BY <1>5, SizePositive
<1>7. QED
  BY <1>1, <1>6, SizePositive

(* Whatever the executor computes of numbers is a number.                  *)
LEMMA FoldNumber ==
  ASSUME NEW j \in Arithmetic, NEW a \in Int, NEW b \in Int
  PROVE  Fold(Op[j], a, b) \in Int
<1>1. CASE j \in {"add", "sub", "imul"}
  <2>1. Op[j] \in {"add", "sub", "mul"} /\ Op[j] \notin Shifts
    BY <1>1 DEF Op, Shifts
  <2>2. a + b \in Int /\ a - b \in Int /\ a * b \in Int
    OBVIOUS
  <2>3. QED
    BY <2>1, <2>2, WrapsToWord DEF Fold, Compute
<1>2. CASE j \in {"and", "or", "xor"}
  <2>1. Op[j] \in {"and", "or", "xor"} /\ Op[j] \notin Shifts
    BY <1>2 DEF Op, Shifts
  <2>2. QED
    BY <2>1, BitWiseNumber DEF Fold, Compute
<1>3. CASE j \in {"shl", "shr"}
  <2>1. Op[j] \in {"shl", "lshr"}
    BY <1>3 DEF Op
  <2>2. PICK k : k = b % Bits /\ k \in 0 .. Bits
    BY SizePositive
  <2>3. PICK p \in Nat \ {0} : p = 2 ^ k
    BY <2>2, Powers
  <2>4. a * p \in Int /\ a \div p \in Int
    OBVIOUS
  <2>5. QED
    BY <2>1, <2>2, <2>3, <2>4, WrapsToWord DEF Fold, Shifts, Shift
<1>4. QED
  BY <1>1, <1>2, <1>3 DEF Arithmetic

(* A value of the executor stands for the number n on the valuation v.     *)
Stands(x, n, v) ==
  /\ n \in Int /\ x.at[v] = n
  /\ ~x.symbolic => x = Concrete(n)
  /\ ~MarksData(client) => ~x.symbolic

LEMMA ConcreteStands ==
  ASSUME NEW n \in Int, NEW v \in Valuations PROVE Stands(Concrete(n), n, v)
BY DEF Stands, Concrete

(* Folded or solved, an operation computes the same, but for shifts by     *)
(* more than the width, which the solver does not mask.                    *)
LEMMA ApplyStands ==
  ASSUME NEW v \in Valuations, NEW j \in Arithmetic, NEW x, NEW n, Stands(x, n, v),
         NEW y, NEW k, Stands(y, k, v),
         (j \in {"shl", "shr"} /\ MarksData(client)) => k \in 0 .. Bits - 1
  PROVE  Stands(Apply(Op[j], x, y), Fold(Op[j], n, k), v)
<1>1. n \in Int /\ k \in Int /\ Fold(Op[j], n, k) \in Int
  BY FoldNumber DEF Stands
<1>2. CASE x.symbolic \/ y.symbolic
  <2>1. MarksData(client)
    BY <1>2 DEF Stands
  <2>2. Apply(Op[j], x, y) = Term([w \in Valuations |-> Solve(Op[j], x.at[w], y.at[w])])
    BY <1>2 DEF Apply
  <2>3. Apply(Op[j], x, y).symbolic = TRUE
        /\ Apply(Op[j], x, y).at[v] = Solve(Op[j], n, k)
    BY <2>2 DEF Term, Stands
  <2>4. Solve(Op[j], n, k) = Fold(Op[j], n, k)
    <3>1. CASE j \in {"shl", "shr"}
      <4>1. k \in 0 .. Bits - 1 /\ Bits \in Nat \ {0}
        BY <2>1, <3>1, SizePositive
      <4>2. k % Bits = k
        BY <4>1
      <4>3. QED
        BY <4>2 DEF Solve, Fold
    <3>2. CASE j \notin {"shl", "shr"}
      <4>1. Op[j] \notin Shifts
        BY <3>2 DEF Arithmetic, Op, Shifts
      <4>2. QED
        BY <4>1 DEF Solve, Fold
    <3>3. QED
      BY <3>1, <3>2
  <2>5. QED
    BY <1>1, <2>1, <2>3, <2>4 DEF Stands
<1>3. CASE ~(x.symbolic \/ y.symbolic)
  <2>1. x.concreteValue = n /\ y.concreteValue = k
    BY <1>3 DEF Stands, Concrete
  <2>2. Apply(Op[j], x, y) = Concrete(Fold(Op[j], n, k))
    BY <1>3, <2>1 DEF Apply
  <2>3. QED
    BY <1>1, <2>2, ConcreteStands
<1>4. QED
  BY <1>2, <1>3

-----------------------------------------------------------------------------
(* Data of a state and of the processor.                                   *)

Shaped(s) ==
  {"pc", "registers", "memory", "callStack", "type", "constraints",
   "history", "steps", "symbolicInputs"} \subseteq DOMAIN s

IsMachine(m) ==
  /\ DOMAIN m = {"pc", "reg", "mem", "stack"}
  /\ m.reg \in [RegisterNames -> Int] /\ m.mem \in [Word -> Int]

SameData(s, v, m) ==
  /\ \A r \in Data : Stands(get(s.registers, r), m.reg[r], v)
  /\ \A f \in Agreed(program, client) : get(s.registers, f).at[v] = m.reg[f]
  /\ \A a \in Word : Stands(read(s.memory, a), m.mem[a], v)

SamePlace(s, m) ==
  /\ s.pc = m.pc
  /\ m.stack \in Seq(Int) /\ s.callStack \in Seq(Range(s.callStack))
  /\ Len(s.callStack) = Len(m.stack)
  /\ \A k \in 1 .. Len(m.stack) : s.callStack[k].returnAddress = m.stack[k]
  /\ Len(m.stack) = 0 => m.pc = 0
  /\ Len(m.stack) # 0 => m.stack[1] = 0

LEMMA WideNames ==
  /\ \A r \in Data : Wide(r) = r /\ r \in RegisterNames /\ r \notin Flags
  /\ \A f \in Flags : Wide(f) = f /\ f \in RegisterNames
  /\ Agreed(program, client) \subseteq Flags
BY DEF Data, Wide, Alias, RegisterNames, Flags, Agreed

LEMMA AddressesAgree ==
  ASSUME NEW v \in Valuations, NEW s, NEW m, IsMachine(m), SameData(s, v, m),
         NEW o, Cell(client, o)
  PROVE  /\ resolveMemoryAddress(s, o) = Address(m, o)
         /\ Address(m, o) \in Word /\ Address(m, o) \in Int
<1>0. PICK k \in Int : k = o.num
  BY DEF Cell
<1>1. CASE o.name = ""
  <2>1. Address(m, o) = Wrap(0 + k) /\ resolveMemoryAddress(s, o) = Wrap(0 + k)
    BY <1>0, <1>1 DEF Cell, Address, resolveMemoryAddress
  <2>2. 0 + k \in Int
    BY <1>0
  <2>3. QED
    BY <2>1, <2>2, WrapsToWord
<1>2. CASE o.name # "" /\ o.name \in Data /\ ~MarksData(client)
  <2>1. get(s.registers, o.name) = Concrete(m.reg[o.name]) /\ m.reg[o.name] \in Int
    BY <1>2 DEF SameData, Stands
  <2>2. get(s.registers, o.name).concreteValue = m.reg[o.name]
    BY <2>1 DEF Concrete
  <2>3. Wide(o.name) = o.name
    BY <1>2, WideNames
  <2>4. PICK n \in Int : n = m.reg[o.name]
    BY <2>1
  <2>5. Address(m, o) = Wrap(n + k) /\ resolveMemoryAddress(s, o) = Wrap(n + k)
    BY <1>0, <1>2, <2>2, <2>3, <2>4 DEF resolveMemoryAddress, Cell, Address
  <2>6. n + k \in Int
    BY <1>0, <2>4
  <2>7. QED
    BY <2>5, <2>6, WrapsToWord
<1>3. QED
  BY <1>1, <1>2 DEF Cell

LEMMA OperandStands ==
  ASSUME NEW v \in Valuations, NEW s, NEW m, IsMachine(m), SameData(s, v, m),
         NEW o, Source(client, o)
  PROVE  Stands(getOperandValue(s, o), Value(m, o), v)
<1>1. CASE o.kind = "imm" /\ o.num \in Int
  BY <1>1, ConcreteStands DEF getOperandValue, Value
<1>2. CASE o.kind = "reg" /\ o.name \in Data
  <2>1. getOperandValue(s, o) = get(s.registers, o.name)
    BY <1>2 DEF getOperandValue
  <2>2. Value(m, o) = m.reg[o.name]
    BY <1>2, WideNames DEF Value
  <2>3. QED
    BY <1>2, <2>1, <2>2 DEF SameData
<1>3. CASE Cell(client, o)
  <2>1. o.kind = "mem"
    BY <1>3 DEF Cell
  <2>2. getOperandValue(s, o) = read(s.memory, resolveMemoryAddress(s, o))
    BY <2>1 DEF getOperandValue
  <2>3. Value(m, o) = m.mem[Address(m, o)]
    BY <2>1 DEF Value
  <2>4. resolveMemoryAddress(s, o) = Address(m, o) /\ Address(m, o) \in Word
    BY <1>3, AddressesAgree
  <2>5. QED
    BY <2>2, <2>3, <2>4 DEF SameData
<1>4. QED
  BY <1>1, <1>2, <1>3 DEF Source

LEMMA SetGets ==
  ASSUME NEW regs, NEW name, NEW x, NEW r
  PROVE  get(set(regs, name, x), r) = IF r = Wide(name) THEN x ELSE get(regs, r)
<1> DEFINE wide == Wide(name)
<1>1. set(regs, name, x)
        = [n \in DOMAIN regs \cup {wide} |-> IF n = wide THEN x ELSE regs[n]]
  BY DEF set, Wide
<1> HIDE DEF wide
<1>2. CASE r = wide
  BY <1>1, <1>2 DEF get, wide
<1>3. CASE r # wide
  BY <1>1, <1>3 DEF get, wide
<1>4. QED
  BY <1>2, <1>3

LEMMA WriteReads ==
  ASSUME NEW memory, NEW a, NEW x, NEW b
  PROVE  read(write(memory, a, x), b) = IF b = a THEN x ELSE read(memory, b)
BY DEF read, write

(* What an operand is written to, and what of the rest is left alone.      *)
Untouched(s, t) ==
  Keeps(s, t) /\ t.pc = s.pc /\ t.callStack = s.callStack /\ t.steps = s.steps

LEMMA OperandUntouched ==
  ASSUME NEW s, Shaped(s), NEW o, NEW x
  PROVE  Untouched(s, setOperandValue(s, o, x)) /\ Shaped(setOperandValue(s, o, x))
<1>1. CASE o.kind = "reg"
  BY <1>1 DEF setOperandValue, Shaped, Untouched, Keeps
<1>2. CASE o.kind = "mem"
  BY <1>2 DEF setOperandValue, Shaped, Untouched, Keeps
<1>3. CASE o.kind # "reg" /\ o.kind # "mem"
  BY <1>3 DEF setOperandValue, Shaped, Untouched, Keeps
<1>4. QED
  BY <1>1, <1>2, <1>3

LEMMA PutLeaves ==
  ASSUME NEW m, IsMachine(m), NEW o, NEW n \in Int
  PROVE  /\ IsMachine(Put(m, o, n))
         /\ Put(m, o, n).pc = m.pc /\ Put(m, o, n).stack = m.stack
<1>1. CASE o.kind = "reg"
  BY <1>1 DEF Put, IsMachine
<1>2. CASE o.kind # "reg"
  BY <1>2 DEF Put, IsMachine
<1>3. QED
  BY <1>1, <1>2

LEMMA PutStands ==
  ASSUME NEW v \in Valuations, NEW s, Shaped(s), NEW m, IsMachine(m),
         SameData(s, v, m), NEW o, Destination(client, o),
         NEW x, NEW n, Stands(x, n, v)
  PROVE  SameData(setOperandValue(s, o, x), v, Put(m, o, n))
<1> DEFINE t == setOperandValue(s, o, x)
           q == Put(m, o, n)
<1>0. PICK w : w = Wide(o.name)
  OBVIOUS
<1>1. CASE o.kind = "reg" /\ w \in Data
  <2>1. t.registers = set(s.registers, o.name, x) /\ t.memory = s.memory
    BY <1>1 DEF setOperandValue, Shaped
  <2>2. q.reg = [m.reg EXCEPT ![w] = n] /\ q.mem = m.mem
    BY <1>0, <1>1 DEF Put, IsMachine
  <2>3. w \in RegisterNames /\ w \notin Flags
    BY <1>1, WideNames
  <2>4. ASSUME NEW r
        PROVE  get(t.registers, r) = IF r = w THEN x ELSE get(s.registers, r)
    BY <1>0, <2>1, SetGets
  <2>5. \A r \in RegisterNames : q.reg[r] = IF r = w THEN n ELSE m.reg[r]
    BY <2>2, <2>3 DEF IsMachine
  <2> HIDE DEF t, q
  <2>6. ASSUME NEW r \in Data PROVE Stands(get(t.registers, r), q.reg[r], v)
    <3>1. r \in RegisterNames
      BY WideNames
    <3>2. CASE r = w
      BY <2>4, <2>5, <3>1, <3>2
    <3>3. CASE r # w
      BY <2>4, <2>5, <3>1, <3>3 DEF SameData
    <3>4. QED
      BY <3>2, <3>3
  <2>7. ASSUME NEW f \in Agreed(program, client)
        PROVE  get(t.registers, f).at[v] = q.reg[f]
    <3>1. f \in RegisterNames /\ f # w
      BY <2>3, WideNames
    <3>2. QED
      BY <2>4, <2>5, <3>1 DEF SameData
  <2>8. \A a \in Word : Stands(read(t.memory, a), q.mem[a], v)
    BY <2>1, <2>2 DEF SameData, t, q
  <2>9. QED
    BY <2>6, <2>7, <2>8 DEF SameData, t, q
<1>2. CASE Cell(client, o)
  <2>1. PICK a : a = Address(m, o) /\ a = resolveMemoryAddress(s, o) /\ a \in Word
    BY <1>2, AddressesAgree
  <2>2. t.registers = s.registers /\ t.memory = write(s.memory, a, x)
    BY <1>2, <2>1 DEF setOperandValue, Shaped, Cell
  <2>3. q.reg = m.reg /\ q.mem = [m.mem EXCEPT ![a] = n]
    BY <1>2, <2>1 DEF Put, IsMachine, Cell
  <2> HIDE DEF t, q
  <2>4. ASSUME NEW b \in Word PROVE Stands(read(t.memory, b), q.mem[b], v)
    <3>1. q.mem[b] = IF b = a THEN n ELSE m.mem[b]
      BY <2>1, <2>3 DEF IsMachine
    <3>2. read(t.memory, b) = IF b = a THEN x ELSE read(s.memory, b)
      BY <2>2, WriteReads
    <3>3. CASE b = a
      BY <3>1, <3>2, <3>3
    <3>4. CASE b # a
      BY <3>1, <3>2, <3>4 DEF SameData
    <3>5. QED
      BY <3>3, <3>4
  <2>5. QED
    BY <2>2, <2>3, <2>4 DEF SameData, t, q
<1>3. QED
  BY <1>0, <1>1, <1>2 DEF Destination

(* A flag the client marks holds the constant on both sides.               *)
LEMMA FlagStands ==
  ASSUME NEW v \in Valuations, NEW s, Shaped(s), NEW m, IsMachine(m),
         SameData(s, v, m), NEW o, o.kind = "reg", o.name \in Flags,
         NEW x, NEW n, x.at[v] = n
  PROVE  SameData(setOperandValue(s, o, x), v, Put(m, o, n))
<1> DEFINE t == setOperandValue(s, o, x)
           q == Put(m, o, n)
<1>0. PICK w : w = Wide(o.name) /\ w \in Flags /\ w \in RegisterNames
  BY WideNames
<1>1. t.registers = set(s.registers, o.name, x) /\ t.memory = s.memory
  BY DEF setOperandValue, Shaped
<1>2. q.reg = [m.reg EXCEPT ![w] = n] /\ q.mem = m.mem
  BY <1>0 DEF Put, IsMachine
<1>3. ASSUME NEW r
      PROVE  get(t.registers, r) = IF r = w THEN x ELSE get(s.registers, r)
  BY <1>0, <1>1, SetGets
<1>4. \A r \in RegisterNames : q.reg[r] = IF r = w THEN n ELSE m.reg[r]
  BY <1>0, <1>2 DEF IsMachine
<1> HIDE DEF t, q
<1>5. ASSUME NEW r \in Data PROVE Stands(get(t.registers, r), q.reg[r], v)
  <2>1. r \in RegisterNames /\ r # w
    BY <1>0, WideNames
  <2>2. QED
    BY <1>3, <1>4, <2>1 DEF SameData
<1>6. ASSUME NEW f \in Agreed(program, client)
      PROVE  get(t.registers, f).at[v] = q.reg[f]
  <2>1. f \in RegisterNames
    BY WideNames
  <2>2. CASE f = w
    BY <1>3, <1>4, <2>1, <2>2
  <2>3. CASE f # w
    BY <1>3, <1>4, <2>1, <2>3 DEF SameData
  <2>4. QED
    BY <2>2, <2>3
<1>7. QED
  BY <1>1, <1>2, <1>5, <1>6 DEF SameData, t, q

-----------------------------------------------------------------------------
(* Flags.                                                                  *)

LEMMA AgreedFlags ==
  ASSUME NEW a \in DOMAIN program, program[a].mnemonic \in Writers
  PROVE  /\ Agreed(program, client) \subseteq {"zf", "sf"}
         /\ Agreed(program, client) # {} =>
              ~MarksData(client) /\ program[a].mnemonic \in {"cmp", "add", "sub"}
<1>1. program[a].mnemonic \in Written(program)
  BY DEF Written
<1>2. Written(program) # {}
  BY <1>1
<1>3. CASE Written(program) \subseteq {"cmp", "add", "sub"} /\ ~MarksData(client)
  BY <1>1, <1>2, <1>3 DEF Agreed
<1>4. CASE ~(Written(program) \subseteq {"cmp", "add", "sub"} /\ ~MarksData(client))
  BY <1>2, <1>4 DEF Agreed
<1>5. QED
  BY <1>3, <1>4

LEMMA FlaggedLeaves ==
  ASSUME NEW m, IsMachine(m), NEW n, NEW c, NEW d
  PROVE  /\ IsMachine(Flagged(m, n, c, d))
         /\ Flagged(m, n, c, d).pc = m.pc /\ Flagged(m, n, c, d).stack = m.stack
         /\ Flagged(m, n, c, d).mem = m.mem
         /\ \A r \in RegisterNames \ Flags : Flagged(m, n, c, d).reg[r] = m.reg[r]
         /\ Flagged(m, n, c, d).reg["zf"] = Bool(n = 0)
         /\ Flagged(m, n, c, d).reg["sf"] = Bool(Negative(n))
<1>1. Flags \subseteq RegisterNames
  BY WideNames
<1>2. /\ Bool(n = 0) \in Int /\ Bool(Negative(n)) \in Int
      /\ Bool(c) \in Int /\ Bool(d # Signed(n)) \in Int
  BY DEF Bool
<1> DEFINE reg == [m.reg EXCEPT !.zf = Bool(n = 0), !.sf = Bool(Negative(n)),
                                !.cf = Bool(c), !.of = Bool(d # Signed(n))]
<1>3. Flagged(m, n, c, d) = [m EXCEPT !.reg = reg]
  BY DEF Flagged, IsMachine
<1>4. reg \in [RegisterNames -> Int]
  BY <1>1, <1>2 DEF IsMachine
<1>5. /\ \A r \in RegisterNames \ Flags : reg[r] = m.reg[r]
      /\ reg["zf"] = Bool(n = 0) /\ reg["sf"] = Bool(Negative(n))
  BY <1>1 DEF IsMachine, Flags
<1> HIDE DEF reg
<1>6. QED
  BY <1>3, <1>4, <1>5 DEF IsMachine

LEMMA FlagsUntouched ==
  ASSUME NEW s, Shaped(s), NEW x
  PROVE  Untouched(s, updateFlags(s, x)) /\ Shaped(updateFlags(s, x))
BY DEF updateFlags, Shaped, Untouched, Keeps

LEMMA FlagsStand ==
  ASSUME NEW v \in Valuations, NEW s, Shaped(s), NEW m, IsMachine(m),
         SameData(s, v, m), NEW x, NEW n, Stands(x, n, v), NEW c, NEW d,
         Agreed(program, client) \subseteq {"zf", "sf"},
         Agreed(program, client) # {} => ~MarksData(client)
  PROVE  SameData(updateFlags(s, x), v, Flagged(m, n, c, d))
<1> DEFINE t == updateFlags(s, x)
           q == Flagged(m, n, c, d)
<1>1. /\ \A r \in RegisterNames \ Flags : q.reg[r] = m.reg[r]
      /\ q.reg["zf"] = Bool(n = 0) /\ q.reg["sf"] = Bool(Negative(n))
      /\ q.mem = m.mem
  BY FlaggedLeaves
<1> HIDE DEF q
<1>2. CASE x.symbolic
  <2>1. t = s /\ Agreed(program, client) = {}
    BY <1>2 DEF updateFlags, Stands
  <2> HIDE DEF t
  <2>2. \A r \in Data : q.reg[r] = m.reg[r]
    BY <1>1, WideNames
  <2>3. QED
    BY <1>1, <2>1, <2>2 DEF SameData, q, t
<1>3. CASE ~x.symbolic
  <2>1. x.concreteValue = n
    BY <1>3 DEF Stands, Concrete
  <2> DEFINE z == Concrete(Bool(n = 0))
             g == Concrete(Bool(Negative(n)))
  <2>2. t.registers = set(set(s.registers, "zf", z), "sf", g) /\ t.memory = s.memory
    BY <1>3, <2>1 DEF updateFlags, Shaped
  <2>3. Wide("zf") = "zf" /\ Wide("sf") = "sf"
    BY WideNames DEF Flags
  <2>4. z.at[v] = Bool(n = 0) /\ g.at[v] = Bool(Negative(n))
    BY DEF Concrete
  <2> HIDE DEF t, z, g
  <2>5. ASSUME NEW r
        PROVE  get(t.registers, r) = IF r = "sf" THEN g ELSE IF r = "zf" THEN z
                                     ELSE get(s.registers, r)
    BY <2>2, <2>3, SetGets
  <2>6. ASSUME NEW r \in Data PROVE Stands(get(t.registers, r), q.reg[r], v)
    <3>1. r # "sf" /\ r # "zf" /\ r \in RegisterNames \ Flags
      BY WideNames DEF Data
    <3>2. QED
      BY <1>1, <2>5, <3>1 DEF SameData
  <2>7. ASSUME NEW f \in Agreed(program, client)
        PROVE  get(t.registers, f).at[v] = q.reg[f]
    BY <1>1, <2>4, <2>5
  <2>8. QED
    BY <1>1, <2>2, <2>6, <2>7 DEF SameData, q, t
<1>4. QED
  BY <1>2, <1>3

-----------------------------------------------------------------------------
(* Instructions that do not branch.                                        *)

(* The processor goes on to the next address before anything else.         *)
Next1(m, i) == [m EXCEPT !.pc = @ + i.size]

LEMMA NextLeaves ==
  ASSUME NEW v, NEW s, NEW m, IsMachine(m), SameData(s, v, m), NEW i
  PROVE  /\ IsMachine(Next1(m, i)) /\ SameData(s, v, Next1(m, i))
         /\ Next1(m, i).pc = m.pc + i.size /\ Next1(m, i).stack = m.stack
<1> DEFINE q == Next1(m, i)
<1>1. /\ DOMAIN q = DOMAIN m /\ q.reg = m.reg /\ q.mem = m.mem
      /\ q.pc = m.pc + i.size /\ q.stack = m.stack
  BY DEF Next1, IsMachine
<1> HIDE DEF q
<1>2. IsMachine(q) /\ SameData(s, v, q)
  BY <1>1 DEF IsMachine, SameData
<1>3. QED
  BY <1>1, <1>2 DEF q

Simple(i) ==
  ~isCall(i) /\ ~isReturn(i) /\ i.mnemonic \notin Conditional \cup {"jmp"}

(* An instruction that goes to the next, executed on both sides.           *)
Together(s, v, m, i, t, q) ==
  /\ Untouched(s, t) /\ Shaped(t)
  /\ IsMachine(q) /\ SameData(t, v, q)
  /\ q.pc = m.pc + i.size /\ q.stack = m.stack

LEMMA NextTogether ==
  ASSUME NEW v, NEW s, Shaped(s), NEW m, IsMachine(m), SameData(s, v, m), NEW i
  PROVE  Together(s, v, m, i, s, Next1(m, i))
<1> DEFINE q == Next1(m, i)
<1>1. IsMachine(q) /\ SameData(s, v, q) /\ q.pc = m.pc + i.size /\ q.stack = m.stack
  BY NextLeaves
<1> HIDE DEF q
<1>2. Together(s, v, m, i, s, q)
  BY <1>1 DEF Together, Untouched, Keeps
<1>3. QED
  BY <1>2 DEF q

(* A number that stands for a value, put where the instruction says.       *)
LEMMA PutTogether ==
  ASSUME NEW v \in Valuations, NEW s, Shaped(s), NEW m, IsMachine(m),
         SameData(s, v, m), NEW i, NEW o, Destination(client, o),
         NEW x, NEW n, Stands(x, n, v)
  PROVE  Together(s, v, m, i, setOperandValue(s, o, x), Put(Next1(m, i), o, n))
<1>1. n \in Int
  BY DEF Stands
<1> DEFINE q == Next1(m, i)
<1>2. IsMachine(q) /\ SameData(s, v, q) /\ q.pc = m.pc + i.size /\ q.stack = m.stack
  BY NextLeaves
<1> HIDE DEF q
<1>3. /\ IsMachine(Put(q, o, n))
      /\ Put(q, o, n).pc = q.pc /\ Put(q, o, n).stack = q.stack
  BY <1>1, <1>2, PutLeaves
<1>4. SameData(setOperandValue(s, o, x), v, Put(q, o, n))
  BY <1>2, PutStands
<1>5. Untouched(s, setOperandValue(s, o, x)) /\ Shaped(setOperandValue(s, o, x))
  BY OperandUntouched
<1>6. QED
  BY <1>2, <1>3, <1>4, <1>5 DEF Together, q

LEMMA MoveTogether ==
  ASSUME NEW v \in Valuations, NEW s, Shaped(s), NEW m, IsMachine(m),
         SameData(s, v, m), NEW a \in DOMAIN program, NEW i, i = program[a],
         Plain(program, client, i), i.mnemonic \in {"mov", "lea"}
  PROVE  Together(s, v, m, i, Straight(s, i), Executed(m, i))
<1> DEFINE o == i.operands
           q == Next1(m, i)
<1>1. /\ DOMAIN o = {1, 2} /\ o[1].kind = "reg" /\ Destination(client, o[1])
      /\ IF i.mnemonic = "lea" THEN Cell(client, o[2])
         ELSE Source(client, o[2]) /\ o[2].kind # "mem"
  BY DEF Plain, Writers, Arithmetic, Conditional
<1>2. CASE i.mnemonic = "mov"
  <2>1. isMove(i) /\ ~isMemoryAccess(i)
    BY <1>1, <1>2 DEF isMove, isMemoryAccess
  <2>2. Straight(s, i) = setOperandValue(s, o[1], getOperandValue(s, o[2]))
    BY <1>2, <2>1 DEF Straight, executeMOV, isMove, isCompare, Arithmetic
  <2>3. Executed(m, i) = Put(q, o[1], Value(m, o[2]))
    BY <1>2 DEF Executed, Next1, Arithmetic, isCall, isReturn, Conditional
  <2>4. Stands(getOperandValue(s, o[2]), Value(m, o[2]), v)
    BY <1>1, <1>2, OperandStands
  <2> HIDE DEF o, q
  <2>5. QED
    BY <1>1, <2>2, <2>3, <2>4, PutTogether DEF q
<1>3. CASE i.mnemonic = "lea"
  <2>1. isMemoryAccess(i)
    BY <1>1, <1>3 DEF isMemoryAccess, Cell
  <2>2. Straight(s, i)
          = setOperandValue(s, o[1], Concrete(resolveMemoryAddress(s, o[2])))
    BY <1>3, <2>1 DEF Straight, executeLEA, isMove, isCompare, Arithmetic
  <2>3. Executed(m, i) = Put(q, o[1], Address(m, o[2]))
    BY <1>3 DEF Executed, Next1, Arithmetic, isCall, isReturn, Conditional
  <2>4. /\ resolveMemoryAddress(s, o[2]) = Address(m, o[2])
        /\ Address(m, o[2]) \in Int
    BY <1>1, <1>3, AddressesAgree
  <2> HIDE DEF o, q
  <2>5. Stands(Concrete(Address(m, o[2])), Address(m, o[2]), v)
    BY <2>4, ConcreteStands
  <2>6. QED
    BY <1>1, <2>2, <2>3, <2>4, <2>5, PutTogether DEF q
<1>4. QED
  BY <1>2, <1>3

(* Flags after a result, on both sides.                                    *)
LEMMA FlagsTogether ==
  ASSUME NEW v \in Valuations, NEW s, NEW m, NEW i, NEW t, NEW q,
         Together(s, v, m, i, t, q), IsState(s),
         NEW x, NEW n, Stands(x, n, v), NEW c, NEW d,
         Agreed(program, client) \subseteq {"zf", "sf"},
         Agreed(program, client) # {} => ~MarksData(client)
  PROVE  Together(s, v, m, i, updateFlags(t, x), Flagged(q, n, c, d))
<1>1. IsMachine(q) /\ SameData(t, v, q) /\ Shaped(t)
  BY DEF Together
<1>2. SameData(updateFlags(t, x), v, Flagged(q, n, c, d))
  BY <1>1, FlagsStand
<1>3. Untouched(t, updateFlags(t, x)) /\ Shaped(updateFlags(t, x))
  BY <1>1, FlagsUntouched
<1>4. /\ IsMachine(Flagged(q, n, c, d))
      /\ Flagged(q, n, c, d).pc = q.pc /\ Flagged(q, n, c, d).stack = q.stack
  BY <1>1, FlaggedLeaves
<1>5. Untouched(s, updateFlags(t, x))
  BY <1>3 DEF Together, Untouched, Keeps
<1>6. QED
  BY <1>2, <1>3, <1>4, <1>5 DEF Together

(* Flags that nothing reads, in the processor only.                        *)
LEMMA FlagsAlone ==
  ASSUME NEW v \in Valuations, NEW s, NEW m, NEW i, NEW t, NEW q,
         Together(s, v, m, i, t, q), NEW n, NEW c, NEW d,
         Agreed(program, client) = {}
  PROVE  Together(s, v, m, i, t, Flagged(q, n, c, d))
<1>1. IsMachine(q) /\ SameData(t, v, q)
  BY DEF Together
<1> DEFINE f == Flagged(q, n, c, d)
<1>2. /\ IsMachine(f) /\ f.pc = q.pc /\ f.stack = q.stack /\ f.mem = q.mem
      /\ \A r \in RegisterNames \ Flags : f.reg[r] = q.reg[r]
  BY <1>1, FlaggedLeaves
<1> HIDE DEF f
<1>3. SameData(t, v, f)
  BY <1>1, <1>2, WideNames DEF SameData
<1>4. QED
  BY <1>2, <1>3 DEF Together, f

LEMMA CompareTogether ==
  ASSUME NEW v \in Valuations, NEW s, Shaped(s), NEW m, IsMachine(m),
         SameData(s, v, m), NEW a \in DOMAIN program, NEW i, i = program[a],
         Plain(program, client, i), i.mnemonic = "cmp"
  PROVE  Together(s, v, m, i, Straight(s, i), Executed(m, i))
<1> DEFINE o == i.operands
           q == Next1(m, i)
           b == Value(m, o[1])
           k == Value(m, o[2])
           x == getOperandValue(s, o[1])
           y == getOperandValue(s, o[2])
<1>1. Source(client, o[1]) /\ Source(client, o[2])
  BY DEF Plain, Arithmetic, Conditional
<1>2. Straight(s, i) = updateFlags(s, Apply("sub", x, y))
  <2>1. Straight(s, i) = executeCMP(s, i)
    BY DEF Straight, isMove, isCompare, Arithmetic
  <2>2. QED
    BY <2>1 DEF executeCMP
<1>3. Executed(m, i) = Flagged(q, Wrap(b - k), b < k, Signed(b) - Signed(k))
  BY DEF Executed, Compared, Next1, Arithmetic, isCall, isReturn, Conditional
<1>4. Stands(x, b, v) /\ Stands(y, k, v)
  BY <1>1, OperandStands
<1> HIDE DEF o, b, k, x, y
<1>5. Stands(Apply("sub", x, y), Wrap(b - k), v)
  <2>1. "sub" \in Arithmetic /\ Op["sub"] = "sub" /\ "sub" \notin {"shl", "shr"}
    BY DEF Arithmetic, Op
  <2>2. Stands(Apply(Op["sub"], x, y), Fold(Op["sub"], b, k), v)
    BY <1>4, <2>1, ApplyStands
  <2>3. Fold("sub", b, k) = Wrap(b - k)
    BY DEF Fold, Shifts, Compute
  <2>4. QED
    BY <2>1, <2>2, <2>3
<1>6. /\ Agreed(program, client) \subseteq {"zf", "sf"}
      /\ Agreed(program, client) # {} => ~MarksData(client)
  <2>1. i.mnemonic \in Writers
    BY DEF Writers
  <2>2. QED
    BY <2>1, AgreedFlags
<1> HIDE DEF q
<1>7. Together(s, v, m, i, s, q)
  BY NextTogether DEF q
<1>8. IsState(s)
  BY DEF Shaped, IsState
<1>9. QED
  BY <1>2, <1>3, <1>5, <1>6, <1>7, <1>8, FlagsTogether

(* What the processor does, said once for all operations.                  *)
Result(m, i) ==
  Fold(Op[i.mnemonic], Value(m, i.operands[1]), Value(m, i.operands[2]))
Stored(m, i) == Put(Next1(m, i), i.operands[1], Result(m, i))

LEMMA ArithmeticExecuted ==
  ASSUME NEW m, NEW i, i.mnemonic \in Arithmetic
  PROVE  \/ i.mnemonic \in {"imul", "shl", "shr"} /\ Executed(m, i) = Stored(m, i)
         \/ i.mnemonic \notin {"imul", "shl", "shr"}
            /\ \E c, d : Executed(m, i) = Flagged(Stored(m, i), Result(m, i), c, d)
<1> DEFINE o == i.operands
           next == [m EXCEPT !.pc = @ + i.size]
           a == Value(m, o[1])
           b == Value(m, o[2])
           n == Fold(Op[i.mnemonic], a, b)
           put == Put(next, o[1], n)
           j == i.mnemonic
<1>1. Executed(m, i) = CASE j = "add" -> Added(put, a, b)
                         [] j = "sub" -> Compared(put, a, b)
                         [] j \in {"and", "or", "xor"} -> Logical(put, n)
                         [] OTHER -> put
  BY DEF Executed, Arithmetic, isCall, isReturn, Conditional
<1>2. put = Stored(m, i) /\ n = Result(m, i)
  BY DEF Stored, Result, Next1
<1>3. j = "add" => n = Wrap(a + b)
  BY DEF Fold, Op, Shifts, Compute
<1>4. j = "sub" => n = Wrap(a - b)
  BY DEF Fold, Op, Shifts, Compute
<1> HIDE DEF a, b, n, put
<1>5. CASE j = "add"
  BY <1>1, <1>2, <1>3, <1>5 DEF Added
<1>6. CASE j = "sub"
  BY <1>1, <1>2, <1>4, <1>6 DEF Compared
<1>7. CASE j \in {"and", "or", "xor"}
  BY <1>1, <1>2, <1>7 DEF Logical
<1>8. CASE j \in {"imul", "shl", "shr"}
  BY <1>1, <1>2, <1>8
<1>9. QED
  BY <1>5, <1>6, <1>7, <1>8 DEF Arithmetic

LEMMA ArithmeticTogether ==
  ASSUME NEW v \in Valuations, NEW s, Shaped(s), NEW m, IsMachine(m),
         SameData(s, v, m), NEW a \in DOMAIN program, NEW i, i = program[a],
         Plain(program, client, i), i.mnemonic \in Arithmetic
  PROVE  Together(s, v, m, i, Straight(s, i), Executed(m, i))
<1> DEFINE j == i.mnemonic
           o == i.operands
           b == Value(m, o[1])
           k == Value(m, o[2])
           x == getOperandValue(s, o[1])
           y == getOperandValue(s, o[2])
           r == Apply(Op[j], x, y)
           n == Fold(Op[j], b, k)
           t == setOperandValue(s, o[1], r)
           q == Put(Next1(m, i), o[1], n)
<1>1. /\ Source(client, o[1]) /\ Destination(client, o[1]) /\ Source(client, o[2])
      /\ (j \in {"shl", "shr"} /\ MarksData(client)) =>
           (o[2].kind = "imm" /\ o[2].num \in 0 .. Bits - 1)
  BY DEF Plain, Arithmetic, Conditional
<1>2. Straight(s, i) = IF j \in {"add", "sub"} THEN updateFlags(t, r) ELSE t
  <2>1. Straight(s, i) = executeArithmetic(s, i)
    BY DEF Straight, isMove, isCompare, Arithmetic
  <2>2. QED
    BY <2>1 DEF executeArithmetic
<1>3. n = Result(m, i) /\ q = Stored(m, i)
  BY DEF Result, Stored
<1>4. Stands(x, b, v) /\ Stands(y, k, v)
  BY <1>1, OperandStands
<1>5. (j \in {"shl", "shr"} /\ MarksData(client)) => k \in 0 .. Bits - 1
  BY <1>1 DEF Value
<1> HIDE DEF o, b, k, x, y
<1>6. Stands(r, n, v)
  BY <1>4, <1>5, ApplyStands
<1> HIDE DEF n, r
<1>7. Together(s, v, m, i, t, q)
  BY <1>1, <1>6, PutTogether
<1> HIDE DEF t, q
<1>8. /\ Agreed(program, client) \subseteq {"zf", "sf"}
      /\ Agreed(program, client) # {} => ~MarksData(client)
      /\ j \notin {"add", "sub"} => Agreed(program, client) = {}
  <2>1. j \in Writers /\ j # "cmp"
    BY DEF Writers, Arithmetic
  <2>2. QED
    BY <2>1, AgreedFlags
<1>9. IsState(s)
  BY DEF Shaped, IsState
<1>10. CASE j \in {"add", "sub"}
  <2>1. PICK c, d : Executed(m, i) = Flagged(q, n, c, d)
    BY <1>3, <1>10, ArithmeticExecuted
  <2>2. Together(s, v, m, i, updateFlags(t, r), Flagged(q, n, c, d))
    BY <1>6, <1>7, <1>8, <1>9, FlagsTogether
  <2>3. QED
    BY <1>2, <1>10, <2>1, <2>2
<1>11. CASE j \in {"and", "or", "xor"}
  <2>1. PICK c, d : Executed(m, i) = Flagged(q, n, c, d)
    BY <1>3, <1>11, ArithmeticExecuted
  <2>2. Together(s, v, m, i, t, Flagged(q, n, c, d))
    BY <1>7, <1>8, <1>11, FlagsAlone
  <2>3. QED
    BY <1>2, <1>11, <2>1, <2>2
<1>12. CASE j \in {"imul", "shl", "shr"}
  <2>1. Straight(s, i) = t /\ Executed(m, i) = q
    BY <1>2, <1>3, <1>12, ArithmeticExecuted
  <2>2. QED
    BY <1>7, <2>1
<1>13. QED
  BY <1>10, <1>11, <1>12 DEF Arithmetic

LEMMA StraightTogether ==
  ASSUME NEW v \in Valuations, NEW s, Shaped(s), NEW m, IsMachine(m),
         SameData(s, v, m), NEW a \in DOMAIN program, NEW i, i = program[a],
         Plain(program, client, i), Simple(i)
  PROVE  Together(s, v, m, i, Straight(s, i), Executed(m, i))
<1>1. i.mnemonic \in {"nop", "mov", "lea", "cmp"} \cup Arithmetic
  BY DEF Plain, Simple, isCall, isReturn
<1>2. CASE i.mnemonic = "nop"
  <2>1. Straight(s, i) = s
    BY <1>2 DEF Straight, isMove, isCompare, Arithmetic
  <2>2. Executed(m, i) = Next1(m, i)
    BY <1>2 DEF Executed, Next1, Arithmetic, isCall, isReturn, Conditional
  <2>3. QED
    BY <2>1, <2>2, NextTogether
<1>3. QED
  BY <1>1, <1>2, MoveTogether, CompareTogether, ArithmeticTogether

-----------------------------------------------------------------------------
(* What the client marks, on both sides.                                   *)

Marking(m, v) ==
  LET k == CHOOSE k \in client.marks : k.at = m.pc
  IN  IF \E j \in client.marks : j.at = m.pc THEN Put(m, k.to, v[k.name]) ELSE m

LEMMA MarkStands ==
  ASSUME PlainRun(program, client), NEW v \in Valuations, NEW s, Shaped(s), NEW m,
         IsMachine(m), SameData(s, v, m), NEW k \in client.marks
  PROVE  /\ v[k.name] \in Int
         /\ SameData(setOperandValue(s, k.to, makeSymbolic(k.name)), v,
                     Put(m, k.to, v[k.name]))
<1> DEFINE x == makeSymbolic(k.name)
           n == v[k.name]
           o == k.to
<1>1. /\ k.name \in Names
      /\ (o.kind = "reg" /\ o.name \in Flags) \/ Destination(client, o)
  BY DEF PlainRun
<1>2. n \in Int
  <2>1. n \in Word
    BY <1>1 DEF Valuations
  <2>2. QED
    BY <2>1, SizePositive DEF Word
<1>3. x.symbolic = TRUE /\ x.at[v] = n
  BY DEF makeSymbolic, Term
<1>4. CASE o.kind = "reg" /\ o.name \in Flags
  <2> HIDE DEF x, n, o
  <2>1. SameData(setOperandValue(s, o, x), v, Put(m, o, n))
    BY <1>3, <1>4, FlagStands
  <2>2. QED
    BY <1>2, <2>1 DEF x, n, o
<1>5. CASE ~(o.kind = "reg" /\ o.name \in Flags)
  <2>1. MarksData(client)
    BY <1>5 DEF MarksData
  <2> HIDE DEF x, n, o
  <2>2. Stands(x, n, v)
    BY <1>2, <1>3, <2>1 DEF Stands
  <2>3. SameData(setOperandValue(s, o, x), v, Put(m, o, n))
    BY <1>1, <1>5, <2>2, PutStands
  <2>4. QED
    BY <1>2, <2>3 DEF x, n, o
<1>6. QED
  BY <1>4, <1>5

(* A state and the processor at one place with the same data.              *)
Matches(s, v, m) == IsMachine(m) /\ SameData(s, v, m) /\ SamePlace(s, m)

LEMMA RecordedLeaves ==
  ASSUME NEW s, Shaped(s), s.steps \in Nat
  PROVE  /\ Shaped(Recorded(s)) /\ Recorded(s).pc = s.pc
         /\ Recorded(s).callStack = s.callStack
         /\ Recorded(s).constraints = s.constraints
         /\ Recorded(s).steps = s.steps + 1
<1> DEFINE r == [s EXCEPT !.history = @ + 1, !.steps = @ + 1]
<1>1. Recorded(s) = Marked(r, s.pc)
  BY DEF Recorded
<1>2. /\ Shaped(r) /\ r.pc = s.pc /\ r.callStack = s.callStack
      /\ r.constraints = s.constraints /\ r.steps = s.steps + 1
  BY DEF Shaped
<1> HIDE DEF r
<1>3. CASE \E k \in client.marks : k.at = s.pc
  <2> DEFINE k == CHOOSE k \in client.marks : k.at = s.pc
             t == setOperandValue(r, k.to, makeSymbolic(k.name))
  <2>1. Marked(r, s.pc) = [t EXCEPT !.symbolicInputs = @ \cup {k.name}]
    BY <1>3 DEF Marked
  <2>2. Untouched(r, t) /\ Shaped(t)
    <3> HIDE DEF k
    <3>1. QED
      BY <1>2, OperandUntouched
  <2> HIDE DEF t
  <2>3. QED
    BY <1>1, <1>2, <2>1, <2>2 DEF Untouched, Keeps, Shaped
<1>4. CASE ~\E k \in client.marks : k.at = s.pc
  BY <1>1, <1>2, <1>4 DEF Marked
<1>5. QED
  BY <1>3, <1>4

LEMMA SameDataOnly ==
  ASSUME NEW s, NEW t, NEW v, NEW m, SameData(s, v, m),
         t.registers = s.registers, t.memory = s.memory
  PROVE  SameData(t, v, m)
BY DEF SameData

LEMMA RecordedMatches ==
  ASSUME PlainRun(program, client), NEW v \in Valuations, NEW s, Shaped(s),
         s.steps \in Nat, NEW m, Matches(s, v, m)
  PROVE  Matches(Recorded(s), v, Marking(m, v))
<1> DEFINE r == [s EXCEPT !.history = @ + 1, !.steps = @ + 1]
<1>0. s.pc = m.pc /\ IsMachine(m) /\ SameData(s, v, m)
  BY DEF Matches, SamePlace
<1>1. Recorded(s) = Marked(r, s.pc)
  BY DEF Recorded
<1>2. Shaped(r) /\ r.registers = s.registers /\ r.memory = s.memory
  BY DEF Shaped
<1> HIDE DEF r
<1>3. SameData(r, v, m)
  BY <1>0, <1>2, SameDataOnly
<1>4. /\ IsMachine(Marking(m, v)) /\ SameData(Recorded(s), v, Marking(m, v))
      /\ Marking(m, v).pc = m.pc /\ Marking(m, v).stack = m.stack
  <2>1. CASE \E k \in client.marks : k.at = s.pc
    <3> DEFINE k == CHOOSE k \in client.marks : k.at = s.pc
               t == setOperandValue(r, k.to, makeSymbolic(k.name))
    <3>1. Marked(r, s.pc) = [t EXCEPT !.symbolicInputs = @ \cup {k.name}]
      BY <2>1 DEF Marked
    <3>2. Marking(m, v) = Put(m, k.to, v[k.name])
      BY <1>0, <2>1 DEF Marking
    <3>3. k \in client.marks
      BY <2>1
    <3> HIDE DEF k
    <3>4. v[k.name] \in Int /\ SameData(t, v, Put(m, k.to, v[k.name]))
      BY <1>0, <1>2, <1>3, <3>3, MarkStands
    <3>5. /\ IsMachine(Put(m, k.to, v[k.name]))
          /\ Put(m, k.to, v[k.name]).pc = m.pc
          /\ Put(m, k.to, v[k.name]).stack = m.stack
      BY <1>0, <3>4, PutLeaves
    <3>6. Shaped(t)
      BY <1>2, OperandUntouched
    <3> HIDE DEF t
    <3>7. /\ Marked(r, s.pc).registers = t.registers
          /\ Marked(r, s.pc).memory = t.memory
      BY <3>1, <3>6 DEF Shaped
    <3>8. SameData(Marked(r, s.pc), v, Put(m, k.to, v[k.name]))
      BY <3>4, <3>7, SameDataOnly
    <3>9. QED
      BY <1>1, <3>2, <3>5, <3>8
  <2>2. CASE ~\E k \in client.marks : k.at = s.pc
    BY <1>0, <1>1, <1>3, <2>2 DEF Marked, Marking
  <2>3. QED
    BY <2>1, <2>2
<1>5. Recorded(s).pc = s.pc /\ Recorded(s).callStack = s.callStack
  BY RecordedLeaves
<1>6. SamePlace(s, m)
  BY DEF Matches
<1>7. SamePlace(Recorded(s), Marking(m, v))
  BY <1>4, <1>5, <1>6 DEF SamePlace
<1>8. QED
  BY <1>4, <1>7 DEF Matches

-----------------------------------------------------------------------------
(* Branches.                                                               *)

LEMMA JumpExecuted ==
  ASSUME NEW m, NEW i, i.mnemonic = "jmp"
  PROVE  Executed(m, i) = [m EXCEPT !.pc = i.operands[1].num]
BY DEF Executed, Arithmetic, isCall, isReturn, Conditional

LEMMA CallExecuted ==
  ASSUME NEW m, NEW i, isCall(i)
  PROVE  Executed(m, i) = [m EXCEPT !.stack = Append(@, Next1(m, i).pc),
                                    !.pc = i.operands[1].num]
BY DEF Executed, Arithmetic, isCall, isReturn, Conditional, Next1

LEMMA ReturnExecuted ==
  ASSUME NEW m, NEW i, isReturn(i)
  PROVE  Executed(m, i) = [m EXCEPT !.stack = Front(@), !.pc = Last(m.stack)]
BY DEF Executed, Arithmetic, isCall, isReturn, Conditional

LEMMA BranchExecuted ==
  ASSUME NEW m, NEW i, i.mnemonic \in Conditional
  PROVE  Executed(m, i) = IF Taken(m, i.mnemonic)
                          THEN [m EXCEPT !.pc = i.operands[1].num]
                          ELSE Next1(m, i)
BY DEF Executed, Arithmetic, isCall, isReturn, Conditional, Next1

(* Going to another address leaves the data.                               *)
LEMMA GoneTo ==
  ASSUME NEW v, NEW s, Shaped(s), NEW m, Matches(s, v, m), m.pc # 0, NEW n
  PROVE  Matches([s EXCEPT !.pc = n], v, [m EXCEPT !.pc = n])
<1> DEFINE t == [s EXCEPT !.pc = n]
           q == [m EXCEPT !.pc = n]
<1>1. /\ t.pc = n /\ t.registers = s.registers /\ t.memory = s.memory
      /\ t.callStack = s.callStack
  BY DEF Shaped
<1>2. /\ DOMAIN q = DOMAIN m /\ q.pc = n /\ q.reg = m.reg /\ q.mem = m.mem
      /\ q.stack = m.stack
  BY DEF Matches, IsMachine
<1> HIDE DEF t, q
<1>3. IsMachine(q) /\ SameData(t, v, q)
  BY <1>1, <1>2 DEF Matches, IsMachine, SameData
<1>4. SamePlace(t, q)
  BY <1>1, <1>2 DEF Matches, SamePlace
<1>5. QED
  BY <1>3, <1>4 DEF Matches, t, q

(* The constraint the executor adds for a branch holds of the valuations   *)
(* on which the processor takes it.                                        *)
LEMMA ConditionTaken ==
  ASSUME NEW v \in Valuations, NEW s, NEW m, SameData(s, v, m),
         NEW j \in Conditional, Reads(j) \subseteq Agreed(program, client)
  PROVE  v \in Condition(s, j) <=> Taken(m, j)
<1>1. \A f \in Reads(j) : get(s.registers, f).at[v] = m.reg[f]
  BY DEF SameData
<1>2. \A f : /\ v \in Set(s, f) <=> get(s.registers, f).at[v] # 0
             /\ v \in Clear(s, f) <=> ~(get(s.registers, f).at[v] # 0)
  BY DEF Set, Clear
<1>3. v \in Differ(s) <=> get(s.registers, "sf").at[v] # get(s.registers, "of").at[v]
  BY DEF Differ
<1>4. CASE j \in {"je", "jne"}
  BY <1>1, <1>2, <1>4 DEF Reads, Condition, Taken
<1>5. CASE j \in {"jb", "jae"}
  BY <1>1, <1>2, <1>5 DEF Reads, Condition, Taken
<1>6. CASE j \in {"ja", "jbe"}
  BY <1>1, <1>2, <1>6 DEF Reads, Condition, Taken
<1>7. CASE j \in {"jl", "jge"}
  BY <1>1, <1>2, <1>3, <1>7 DEF Reads, Condition, Taken
<1>8. CASE j \in {"jle", "jg"}
  BY <1>1, <1>2, <1>3, <1>8 DEF Reads, Condition, Taken
<1>9. QED
  BY <1>4, <1>5, <1>6, <1>7, <1>8 DEF Conditional

(* Instructions that ask no solver, whatever is marked before.             *)
LEMMA JumpMatches ==
  ASSUME PlainRun(program, client), NEW v, NEW s, Shaped(s), NEW m,
         Matches(s, v, m), NEW a \in DOMAIN program, a # 0, m.pc = a,
         NEW i, i = program[a], i.mnemonic = "jmp"
  PROVE  Matches(Transfer(s, i), v, Executed(m, i))
<1>1. i.operands[1].kind = "imm"
  BY DEF PlainRun, Plain, Arithmetic, Conditional
<1>2. Transfer(s, i) = [s EXCEPT !.pc = i.operands[1].num]
  BY <1>1 DEF Transfer, Target, isCall, isReturn
<1>3. Executed(m, i) = [m EXCEPT !.pc = i.operands[1].num]
  BY JumpExecuted
<1> DEFINE n == i.operands[1].num
<1> HIDE DEF n
<1>4. Matches([s EXCEPT !.pc = n], v, [m EXCEPT !.pc = n])
  BY GoneTo
<1>5. QED
  BY <1>2, <1>3, <1>4 DEF n

LEMMA CallMatches ==
  ASSUME PlainRun(program, client), NEW v, NEW s, Shaped(s), NEW m,
         Matches(s, v, m), NEW a \in DOMAIN program, a # 0, m.pc = a,
         NEW i, i = program[a], isCall(i)
  PROVE  Matches(Transfer(s, i), v, Executed(m, i))
<1> DEFINE n == i.operands[1].num
           frame == [returnAddress |-> Next_(s, i),
                     basePointer |-> get(s.registers, "rbp").concreteValue]
           back == Next1(m, i).pc
           t == [s EXCEPT !.callStack = Append(@, frame), !.pc = n]
           q == [m EXCEPT !.stack = Append(@, back), !.pc = n]
<1>1. i.operands[1].kind = "imm" /\ i.size \in Int /\ a \in Int
  BY DEF PlainRun, Plain, Arithmetic, Conditional, isCall
<1>2. i.mnemonic # "jmp"
  BY DEF isCall
<1>3. Transfer(s, i) = t
  <2>1. Transfer(s, i) = executeCALL(s, i)
    BY <1>2 DEF Transfer, isCall, isReturn
  <2>2. QED
    BY <1>1, <2>1 DEF executeCALL
<1>4. Executed(m, i) = q
  BY CallExecuted
<1>5. s.pc = a /\ IsMachine(m) /\ SameData(s, v, m)
  BY DEF Matches, SamePlace
<1>6. frame.returnAddress = back /\ back \in Int
  BY <1>1, <1>5 DEF Next_, Next1, IsMachine
<1> HIDE DEF n, frame, back
<1>7. /\ t.pc = n /\ t.registers = s.registers /\ t.memory = s.memory
      /\ t.callStack = Append(s.callStack, frame)
  BY DEF Shaped
<1>8. /\ DOMAIN q = DOMAIN m /\ q.pc = n /\ q.reg = m.reg /\ q.mem = m.mem
      /\ q.stack = Append(m.stack, back)
  BY <1>5 DEF IsMachine
<1> HIDE DEF t, q
<1>9. IsMachine(q) /\ SameData(t, v, q)
  BY <1>5, <1>7, <1>8 DEF IsMachine, SameData
<1>10. SamePlace(t, q)
  <2>1. PICK k \in Nat : k = Len(m.stack) /\ k # 0
    <3>1. m.stack \in Seq(Int) /\ Len(m.stack) # 0
      BY DEF Matches, SamePlace
    <3>2. QED
      BY <3>1, LenProperties
  <2>2. /\ m.stack \in Seq(Int) /\ s.callStack \in Seq(Range(s.callStack))
        /\ Len(s.callStack) = k /\ m.stack[1] = 0
        /\ \A j \in 1 .. k : s.callStack[j].returnAddress = m.stack[j]
    BY <2>1 DEF Matches, SamePlace
  <2>3. /\ t.callStack \in Seq(Range(t.callStack)) /\ Len(t.callStack) = k + 1
        /\ \A j \in 1 .. k : t.callStack[j] = s.callStack[j]
        /\ t.callStack[k + 1] = frame
    <3>1. /\ DOMAIN t.callStack = 1 .. k + 1
          /\ \A j \in 1 .. k : t.callStack[j] = s.callStack[j]
          /\ t.callStack[k + 1] = frame
          /\ t.callStack \in Seq(Range(t.callStack))
      BY <1>7, <2>1, <2>2, Appended
    <3>2. Len(t.callStack) = k + 1
      BY <3>1, LenProperties
    <3>3. QED
      BY <3>1, <3>2
  <2>4. /\ q.stack \in Seq(Int) /\ Len(q.stack) = k + 1
        /\ \A j \in 1 .. k : q.stack[j] = m.stack[j]
        /\ q.stack[k + 1] = back
    BY <1>6, <1>8, <2>1, <2>2, AppendProperties
  <2>5. ASSUME NEW j \in 1 .. k + 1
        PROVE  t.callStack[j].returnAddress = q.stack[j]
    <3>1. CASE j = k + 1
      BY <1>6, <2>3, <2>4, <3>1
    <3>2. CASE j # k + 1
      <4>1. j \in 1 .. k
        BY <3>2
      <4>2. QED
        BY <2>2, <2>3, <2>4, <4>1
    <3>3. QED
      BY <3>1, <3>2
  <2>6. k + 1 # 0 /\ q.stack[1] = 0
    BY <2>1, <2>2, <2>4
  <2>7. QED
    BY <1>7, <1>8, <2>3, <2>4, <2>5, <2>6 DEF SamePlace
<1>11. QED
  BY <1>3, <1>4, <1>9, <1>10 DEF Matches

LEMMA ReturnMatches ==
  ASSUME NEW v, NEW s, Shaped(s), NEW m, Matches(s, v, m), m.pc # 0,
         NEW i, isReturn(i)
  PROVE  Matches(Transfer(s, i), v, Executed(m, i))
<1> DEFINE frame == Last(s.callStack)
           base == Concrete(frame.basePointer)
           back == Last(m.stack)
           t == [s EXCEPT !.callStack = Front(@), !.pc = frame.returnAddress,
                          !.registers = set(@, "rbp", base)]
           q == [m EXCEPT !.stack = Front(@), !.pc = back]
<1>1. Transfer(s, i) = t
  BY DEF Transfer, executeRET, isReturn, isCall
<1>2. Executed(m, i) = q
  BY ReturnExecuted
<1>3. IsMachine(m) /\ SameData(s, v, m)
  BY DEF Matches
<1> HIDE DEF frame, base, back
<1>4. /\ t.pc = frame.returnAddress /\ t.registers = set(s.registers, "rbp", base)
      /\ t.memory = s.memory /\ t.callStack = Front(s.callStack)
  BY DEF Shaped
<1>5. /\ DOMAIN q = DOMAIN m /\ q.pc = back /\ q.reg = m.reg /\ q.mem = m.mem
      /\ q.stack = Front(m.stack)
  BY <1>3 DEF IsMachine
<1> HIDE DEF t, q
<1>6. IsMachine(q) /\ SameData(t, v, q)
  <2>1. ASSUME NEW r, r # "rbp" PROVE get(t.registers, r) = get(s.registers, r)
    <3>1. Wide("rbp") = "rbp"
      BY DEF Wide, Alias
    <3>2. QED
      BY <1>4, <2>1, <3>1, SetGets
  <2>2. "rbp" \notin Data /\ "rbp" \notin Agreed(program, client)
    BY WideNames DEF Data, Flags
  <2>3. \A r \in Data : get(t.registers, r) = get(s.registers, r)
    BY <2>1, <2>2
  <2>4. \A f \in Agreed(program, client) : get(t.registers, f) = get(s.registers, f)
    BY <2>1, <2>2
  <2>5. SameData(t, v, q)
    BY <1>3, <1>4, <1>5, <2>3, <2>4 DEF SameData
  <2>6. QED
    BY <1>3, <1>5, <2>5 DEF IsMachine
<1>7. SamePlace(t, q)
  <2>1. PICK k \in Nat : k = Len(m.stack) /\ k # 0
    <3>1. m.stack \in Seq(Int) /\ Len(m.stack) # 0
      BY DEF Matches, SamePlace
    <3>2. QED
      BY <3>1, LenProperties
  <2>2. /\ m.stack \in Seq(Int) /\ s.callStack \in Seq(Range(s.callStack))
        /\ Len(s.callStack) = k /\ m.stack[1] = 0
        /\ \A j \in 1 .. k : s.callStack[j].returnAddress = m.stack[j]
    BY <2>1 DEF Matches, SamePlace
  <2>3. frame = s.callStack[k] /\ back = m.stack[k] /\ k \in 1 .. k
    BY <2>1, <2>2 DEF frame, back, Last
  <2>4. /\ t.callStack = SubSeq(s.callStack, 1, k - 1)
        /\ q.stack = SubSeq(m.stack, 1, k - 1)
    BY <1>4, <1>5, <2>1, <2>2 DEF Front
  <2>5. s.callStack # <<>> /\ m.stack # <<>>
    BY <2>1, <2>2, EmptySeq
  <2>6. PICK l \in Nat : l = k - 1
    <3>1. k \in Nat /\ k # 0
      BY <2>1
    <3>2. QED
      BY <3>1
  <2>7. /\ t.callStack \in Seq(Range(s.callStack)) /\ DOMAIN t.callStack = 1 .. l
        /\ \A j \in 1 .. l : t.callStack[j] = s.callStack[j]
    <3>1. PICK st : st = s.callStack
      OBVIOUS
    <3>2. /\ st \in Seq(Range(st)) /\ st # <<>> /\ Len(st) = k
          /\ t.callStack = SubSeq(st, 1, k - 1)
      BY <2>2, <2>4, <2>5, <3>1
    <3>3. /\ t.callStack \in Seq(Range(st)) /\ DOMAIN t.callStack = 1 .. k - 1
          /\ \A j \in 1 .. k - 1 : t.callStack[j] = st[j]
      BY <3>2, FrontProperties
    <3>4. QED
      BY <2>6, <3>1, <3>3
  <2>8. /\ q.stack \in Seq(Int) /\ DOMAIN q.stack = 1 .. l
        /\ \A j \in 1 .. l : q.stack[j] = m.stack[j]
    BY <2>1, <2>2, <2>4, <2>5, <2>6, FrontProperties
  <2>9. Len(t.callStack) = l /\ Len(q.stack) = l
        /\ t.callStack \in Seq(Range(t.callStack))
    BY <2>7, <2>8, LenProperties, SeqOfRange
  <2>10. \A j \in 1 .. l : j \in 1 .. k
    BY <2>6
  <2>11. frame.returnAddress = back
    BY <2>2, <2>3
  <2>12. l = 0 => back = 0
    BY <2>2, <2>3, <2>6
  <2>13. l # 0 => q.stack[1] = 0
    BY <2>2, <2>8
  <2>14. QED
    BY <1>4, <1>5, <2>2, <2>7, <2>8, <2>9, <2>10, <2>11, <2>12, <2>13 DEF SamePlace
<1>8. QED
  BY <1>1, <1>2, <1>6, <1>7 DEF Matches

LEMMA SimpleMatches ==
  ASSUME PlainRun(program, client), NEW v \in Valuations, NEW s, Shaped(s), NEW m,
         Matches(s, v, m), NEW a \in DOMAIN program, a # 0, m.pc = a,
         NEW i, i = program[a], Simple(i)
  PROVE  Matches(Transfer(s, i), v, Executed(m, i))
<1> DEFINE t == Straight(s, i)
           q == Executed(m, i)
           u == [t EXCEPT !.pc = Next_(s, i)]
<1>1. Plain(program, client, i) /\ IsMachine(m) /\ SameData(s, v, m) /\ s.pc = a
  BY DEF PlainRun, Matches, SamePlace
<1>2. Together(s, v, m, i, t, q)
  BY <1>1, StraightTogether
<1>3. Transfer(s, i) = u
  BY DEF Transfer, Simple, isCall, isReturn
<1> HIDE DEF t, q
<1>4. /\ IsMachine(q) /\ SameData(t, v, q) /\ Shaped(t)
      /\ q.pc = a + i.size /\ q.stack = m.stack /\ t.callStack = s.callStack
  BY <1>2 DEF Together, Untouched
<1>5. /\ u.pc = a + i.size /\ u.registers = t.registers /\ u.memory = t.memory
      /\ u.callStack = s.callStack
  BY <1>1, <1>4 DEF Shaped, Next_
<1> HIDE DEF u
<1>6. SameData(u, v, q)
  BY <1>4, <1>5, SameDataOnly
<1>7. SamePlace(u, q)
  BY <1>4, <1>5 DEF Matches, SamePlace
<1>8. QED
  BY <1>3, <1>4, <1>6, <1>7 DEF Matches, q

LEMMA TransferMatches ==
  ASSUME PlainRun(program, client), NEW v \in Valuations, NEW s, Shaped(s), NEW m,
         Matches(s, v, m), NEW a \in DOMAIN program, a # 0, m.pc = a,
         NEW i, i = program[a], ~Branches(i)
  PROVE  Matches(Transfer(s, i), v, Executed(m, i))
<1>1. CASE i.mnemonic = "jmp"
  BY <1>1, JumpMatches
<1>2. CASE isCall(i)
  BY <1>2, CallMatches
<1>3. CASE isReturn(i)
  BY <1>3, ReturnMatches
<1>4. CASE i.mnemonic # "jmp" /\ ~isCall(i) /\ ~isReturn(i)
  <2>1. Simple(i)
    BY <1>4 DEF Simple, Branches, isBranch
  <2>2. QED
    BY <2>1, SimpleMatches
<1>5. QED
  BY <1>1, <1>2, <1>3, <1>4

LEMMA StraightUntouched ==
  ASSUME NEW s, Shaped(s), NEW i
  PROVE  Untouched(s, Straight(s, i)) /\ Shaped(Straight(s, i))
<1>1. \A o, x : /\ Untouched(s, setOperandValue(s, o, x))
               /\ Shaped(setOperandValue(s, o, x))
  BY OperandUntouched
<1>2. Untouched(s, executeMOV(s, i)) /\ Untouched(s, executeLEA(s, i))
  BY <1>1 DEF executeMOV, executeLEA
<1>3. Untouched(s, executePUSH(s, i))
  BY DEF executePUSH, Shaped, Untouched, Keeps
<1>4. Untouched(s, executePOP(s, i))
  <2> DEFINE r == [s EXCEPT !.stackTop = @ + 1]
             t == setOperandValue(r, i.operands[1], read(s.memory, s.stackTop))
  <2>1. executePOP(s, i) = [t EXCEPT !.registers =
           set(@, "rsp", Apply("add", get(@, "rsp"), Concrete(1)))]
    BY DEF executePOP
  <2>2. Shaped(r) /\ Untouched(s, r)
    BY DEF Shaped, Untouched, Keeps
  <2> HIDE DEF r
  <2>3. Untouched(r, t) /\ Shaped(t)
    BY <2>2, OperandUntouched
  <2> HIDE DEF t
  <2>4. QED
    BY <2>1, <2>2, <2>3 DEF Shaped, Untouched, Keeps
<1>5. Untouched(s, executeArithmetic(s, i))
  <2> DEFINE r == Apply(Op[i.mnemonic], getOperandValue(s, i.operands[1]),
                                        getOperandValue(s, i.operands[2]))
             t == setOperandValue(s, i.operands[1], r)
  <2>1. executeArithmetic(s, i) =
          IF i.mnemonic \in {"add", "sub"} THEN updateFlags(t, r) ELSE t
    BY DEF executeArithmetic
  <2> HIDE DEF r
  <2>2. Untouched(s, t) /\ Shaped(t)
    BY OperandUntouched
  <2> HIDE DEF t
  <2>3. Untouched(t, updateFlags(t, r))
    BY <2>2, FlagsUntouched
  <2>4. QED
    BY <2>1, <2>2, <2>3 DEF Untouched, Keeps
<1>6. Untouched(s, executeCMP(s, i)) /\ Untouched(s, s)
  BY FlagsUntouched DEF executeCMP, Untouched, Keeps
<1>7. Straight(s, i) \in
        {executeMOV(s, i), executeLEA(s, i), executePUSH(s, i), executePOP(s, i),
         executeArithmetic(s, i), executeCMP(s, i), s}
  BY Zenon DEF Straight
<1>8. Untouched(s, Straight(s, i))
  BY <1>2, <1>3, <1>4, <1>5, <1>6, <1>7
<1>9. QED
  BY <1>8 DEF Shaped, Untouched, Keeps

LEMMA TransferLeaves ==
  ASSUME NEW s, Shaped(s), NEW i
  PROVE  /\ Shaped(Transfer(s, i)) /\ Transfer(s, i).steps = s.steps
         /\ Transfer(s, i).constraints = s.constraints
<1> DEFINE t == Straight(s, i)
           moved == [t EXCEPT !.pc = Next_(s, i)]
           jumped == [s EXCEPT !.pc = Target(s, i)]
           Left(u) == /\ Shaped(u) /\ u.steps = s.steps
                      /\ u.constraints = s.constraints
<1>1. Left(moved)
  <2>1. Untouched(s, t) /\ Shaped(t)
    BY StraightUntouched
  <2> HIDE DEF t
  <2>2. QED
    BY <2>1 DEF Untouched, Keeps, Shaped
<1>2. Left(jumped)
  BY DEF Shaped
<1>3. Left(executeCALL(s, i)) /\ Left(executeRET(s))
  BY DEF executeCALL, executeRET, Shaped
<1>4. Transfer(s, i) \in {moved, jumped, executeCALL(s, i), executeRET(s)}
  BY Zenon DEF Transfer
<1>5. QED
  BY <1>1, <1>2, <1>3, <1>4

-----------------------------------------------------------------------------
(* The processor, instruction by instruction.                              *)

Unrolled(v, n, f) ==
  f = [k \in 0 .. n |-> IF k = 0 THEN Started ELSE Stepped(f[k - 1], v)]

LEMMA UnrolledExists ==
  ASSUME NEW v PROVE \A n \in Nat : \E f : Unrolled(v, n, f)
<1> DEFINE S == {n \in Nat : \E f : Unrolled(v, n, f)}
<1>1. 0 \in S
  <2> DEFINE f == [k \in 0 .. 0 |-> Started]
  <2>1. Unrolled(v, 0, f)
    BY DEF Unrolled
  <2>2. QED
    BY <2>1
<1>2. ASSUME NEW n \in Nat, n \in S PROVE n + 1 \in S
  <2>1. PICK f : Unrolled(v, n, f)
    BY <1>2
  <2> DEFINE g == [k \in 0 .. n + 1 |->
                     IF k = n + 1 THEN Stepped(f[n], v) ELSE f[k]]
  <2>2. ASSUME NEW k \in 0 .. n + 1
        PROVE  g[k] = IF k = 0 THEN Started ELSE Stepped(g[k - 1], v)
    <3>1. CASE k = n + 1
      BY <3>1
    <3>2. CASE k # n + 1
      <4>1. k \in 0 .. n /\ (k # 0 => k - 1 \in 0 .. n)
        BY <3>2
      <4>2. f[k] = IF k = 0 THEN Started ELSE Stepped(f[k - 1], v)
        BY <2>1, <4>1 DEF Unrolled
      <4>3. g[k] = f[k] /\ (k # 0 => g[k - 1] = f[k - 1])
        BY <3>2, <4>1
      <4>4. QED
        BY <4>2, <4>3
    <3>3. QED
      BY <3>1, <3>2
  <2>3. Unrolled(v, n + 1, g)
    BY <2>2 DEF Unrolled
  <2> HIDE DEF g
  <2>4. n + 1 \in Nat /\ \E h : Unrolled(v, n + 1, h)
    BY <2>3
  <2>5. QED
    BY <2>4
<1>3. \A n \in Nat : n \in S
  <2> HIDE DEF S
  <2>1. QED
    BY <1>1, <1>2, Induction
<1>4. QED
  BY <1>3

(* A longer run has the shorter one for its beginning.                     *)
LEMMA UnrolledAgree ==
  ASSUME NEW v, NEW n \in Nat, NEW f, NEW g,
         Unrolled(v, n, f), Unrolled(v, n + 1, g)
  PROVE  g[n + 1] = Stepped(f[n], v)
<1> DEFINE S == {k \in Nat : k <= n => g[k] = f[k]}
<1>1. /\ \A k \in 0 .. n : f[k] = IF k = 0 THEN Started ELSE Stepped(f[k - 1], v)
      /\ \A k \in 0 .. n + 1 :
           g[k] = IF k = 0 THEN Started ELSE Stepped(g[k - 1], v)
  BY DEF Unrolled
<1>2. 0 \in S
  <2>1. 0 \in 0 .. n /\ 0 \in 0 .. n + 1
    OBVIOUS
  <2>2. QED
    BY <1>1, <2>1
<1>3. ASSUME NEW k \in Nat, k \in S PROVE k + 1 \in S
  <2>1. SUFFICES ASSUME k + 1 <= n PROVE g[k + 1] = f[k + 1]
    OBVIOUS
  <2>2. /\ k + 1 \in 0 .. n /\ k + 1 \in 0 .. n + 1
        /\ k + 1 # 0 /\ (k + 1) - 1 = k /\ k <= n
    BY <2>1
  <2>3. f[k + 1] = Stepped(f[k], v) /\ g[k + 1] = Stepped(g[k], v)
    BY <1>1, <2>2
  <2>4. QED
    BY <1>3, <2>2, <2>3
<1>4. \A k \in Nat : k \in S
  <2> HIDE DEF S
  <2>1. QED
    BY <1>2, <1>3, Induction
<1>5. g[n] = f[n]
  BY <1>4
<1>6. n + 1 \in 0 .. n + 1 /\ n + 1 # 0 /\ (n + 1) - 1 = n
  OBVIOUS
<1>7. g[n + 1] = Stepped(g[n], v)
  BY <1>1, <1>6
<1>8. QED
  BY <1>5, <1>7

LEMMA AfterUnrolled ==
  ASSUME NEW v, NEW n \in Nat
  PROVE  \E f : Unrolled(v, n, f) /\ After(v, n) = f[n]
<1>1. PICK f : f = CHOOSE g : Unrolled(v, n, g)
  OBVIOUS
<1>2. Unrolled(v, n, f)
  BY <1>1, UnrolledExists
<1>3. After(v, n) = f[n]
  BY <1>1 DEF After, Unrolled
<1>4. QED
  BY <1>2, <1>3

LEMMA AfterNone == ASSUME NEW v PROVE After(v, 0) = Started
<1>1. PICK f : Unrolled(v, 0, f) /\ After(v, 0) = f[0]
  BY AfterUnrolled
<1>2. f[0] = Started
  BY <1>1 DEF Unrolled
<1>3. QED
  BY <1>1, <1>2

LEMMA AfterOne ==
  ASSUME NEW v, NEW n \in Nat PROVE After(v, n + 1) = Stepped(After(v, n), v)
<1>1. PICK f : Unrolled(v, n, f) /\ After(v, n) = f[n]
  BY AfterUnrolled
<1>2. PICK g : Unrolled(v, n + 1, g) /\ After(v, n + 1) = g[n + 1]
  <2>1. PICK m \in Nat : m = n + 1
    OBVIOUS
  <2>2. QED
    BY <2>1, AfterUnrolled
<1>3. QED
  BY <1>1, <1>2, UnrolledAgree

(* It does not change with what the executor does.                         *)
LEMMA AfterStays ==
  ASSUME program' = program, client' = client, NEW v, NEW n \in Nat
  PROVE  After(v, n)' = After(v, n)
<1>1. ASSUME NEW m PROVE Stepped(m, v)' = Stepped(m, v)
  BY DEF Stepped, Decodes
<1>2. QED
  BY <1>1 DEF After

-----------------------------------------------------------------------------
(* The invariant: on every valuation that satisfies its constraints a      *)
(* state is where the processor is after as many instructions, calls to    *)
(* return from included, with data that stands for the processor's.        *)

Replays(s) ==
  /\ Shaped(s) /\ s.steps \in Nat
  /\ \A v \in s.constraints : Matches(s, v, After(v, s.steps))

ReplayInv == \A h \in Pointers : \A s : s = heap[h] => Replays(s)

LEMMA ReplaysStays ==
  ASSUME UNCHANGED given, NEW s, Replays(s) PROVE Replays(s)'
<1>1. program' = program /\ client' = client
  BY DEF given
<1>2. ASSUME NEW v, NEW m, Matches(s, v, m) PROVE Matches(s, v, m)'
  <2>1. ASSUME NEW x, NEW n, Stands(x, n, v) PROVE Stands(x, n, v)'
    BY <1>1, <2>1 DEF Stands
  <2>2. SameData(s, v, m)'
    BY <1>1, <1>2, <2>1 DEF Matches, SameData
  <2>3. QED
    BY <1>2, <2>2 DEF Matches, IsMachine, SamePlace
<1>3. s.steps \in Nat
  BY DEF Replays
<1>4. ASSUME NEW v \in s.constraints
      PROVE  Matches(s, v, After(v, s.steps))'
  <2>1. PICK m : m = After(v, s.steps)
    OBVIOUS
  <2>2. After(v, s.steps)' = m
    BY <1>1, <1>3, <2>1, AfterStays
  <2>3. Matches(s, v, m)'
    BY <1>2, <2>1 DEF Replays
  <2>4. QED
    BY <2>2, <2>3
<1>5. QED
  BY <1>4 DEF Replays, Shaped

LEMMA RewriteReplays ==
  ASSUME IInv, ReplayInv, NEW h \in Pointers, NEW t, Replays(t),
         heap' = [heap EXCEPT ![h] = t], UNCHANGED given
  PROVE  ReplayInv'
<1>1. heap \in Seq(Range(heap))
  BY DEF IInv, Lists
<1>2. /\ DOMAIN heap' = DOMAIN heap /\ heap'[h] = t
      /\ \A j \in DOMAIN heap \ {h} : heap'[j] = heap[j]
  BY <1>1, Updated DEF Pointers
<1>3. ASSUME NEW j \in Pointers', NEW s, s = heap'[j] PROVE Replays(s)
  BY <1>2, <1>3 DEF ReplayInv, Pointers
<1>4. ASSUME NEW j \in Pointers', NEW s, s = heap'[j] PROVE Replays(s)'
  BY <1>3, <1>4, ReplaysStays
<1>5. QED
  BY <1>4 DEF ReplayInv

(* What a match depends on.                                                *)
SameSpot(s, t) ==
  /\ t.pc = s.pc /\ t.callStack = s.callStack
  /\ t.registers = s.registers /\ t.memory = s.memory

LEMMA SpotMatches ==
  ASSUME NEW s, NEW t, SameSpot(s, t), NEW v, NEW m, Matches(s, v, m)
  PROVE  Matches(t, v, m)
<1>1. SameData(t, v, m)
  BY SameDataOnly DEF SameSpot, Matches
<1>2. SamePlace(t, m)
  BY DEF SameSpot, Matches, SamePlace
<1>3. QED
  BY <1>1, <1>2 DEF Matches

LEMMA RetypeReplays ==
  ASSUME IInv, ReplayInv, NEW h \in Pointers, NEW type,
         heap' = [heap EXCEPT ![h].type = type], UNCHANGED given
  PROVE  ReplayInv'
<1>1. PICK s : s = heap[h] /\ Replays(s)
  BY DEF ReplayInv
<1> DEFINE t == [s EXCEPT !.type = type]
<1>2. /\ Shaped(t) /\ t.steps = s.steps /\ t.constraints = s.constraints
      /\ SameSpot(s, t)
  BY <1>1 DEF Replays, Shaped, SameSpot
<1>3. heap' = [heap EXCEPT ![h] = t]
  BY <1>1
<1> HIDE DEF t
<1>4. Replays(t)
  BY <1>1, <1>2, SpotMatches DEF Replays
<1>5. QED
  BY <1>3, <1>4, RewriteReplays

(* The first state and the processor as it starts.                         *)
LEMMA NewReplays ==
  ASSUME NEW id PROVE Replays(NewState(id, Entry))
<1> DEFINE s == NewState(id, Entry)
           rsp == Concrete(StackBase - 1)
           frame == [returnAddress |-> 0, basePointer |-> StackBase]
<1>1. /\ Shaped(s) /\ s.steps = 0 /\ s.constraints = Valuations
      /\ s.pc = Entry /\ s.callStack = <<frame>>
      /\ s.registers = set(initializeRegisters, "rsp", rsp)
      /\ s.memory = [a \in {} |-> 0]
  BY DEF NewState, Shaped
<1>2. ASSUME NEW r \in RegisterNames, r # "rsp"
      PROVE  get(s.registers, r) = Concrete(0)
  <2>1. Wide("rsp") = "rsp"
    BY DEF Wide, Alias
  <2>2. get(s.registers, r) = get(initializeRegisters, r)
    BY <1>1, <1>2, <2>1, SetGets
  <2>3. QED
    BY <2>2 DEF get, initializeRegisters
<1>3. \A a : read(s.memory, a) = Concrete(0)
  BY <1>1 DEF read
<1>4. /\ DOMAIN Started = {"pc", "reg", "mem", "stack"}
      /\ Started.pc = Entry /\ Started.stack = <<0>>
      /\ Started.reg = [r \in RegisterNames |-> 0]
      /\ Started.mem = [a \in Word |-> 0]
  BY DEF Started
<1> HIDE DEF s, rsp
<1>5. IsMachine(Started)
  BY <1>4 DEF IsMachine
<1>6. SamePlace(s, Started)
  <2>1. Len(<<0>>) = 1 /\ <<0>> \in Seq(Int) /\ <<0>>[1] = 0
    OBVIOUS
  <2>2. frame.returnAddress = 0
    OBVIOUS
  <2> HIDE DEF frame
  <2>3. Len(<<frame>>) = 1 /\ <<frame>> \in Seq({frame}) /\ <<frame>>[1] = frame
    OBVIOUS
  <2>4. <<frame>> \in Seq(Range(<<frame>>))
    BY <2>3, SeqOfRange
  <2>5. QED
    BY <1>1, <1>4, <2>1, <2>2, <2>3, <2>4 DEF SamePlace
<1>7. ASSUME NEW v \in Valuations PROVE SameData(s, v, Started)
  <2>1. Stands(Concrete(0), 0, v) /\ Concrete(0).at[v] = 0
    BY ConcreteStands DEF Stands
  <2>2. ASSUME NEW r \in Data \cup Agreed(program, client)
        PROVE  get(s.registers, r) = Concrete(0) /\ Started.reg[r] = 0
    <3>1. r \in RegisterNames /\ r # "rsp"
      BY WideNames DEF Data, Flags
    <3>2. QED
      BY <1>2, <1>4, <3>1
  <2>3. QED
    BY <1>3, <1>4, <2>1, <2>2 DEF SameData
<1>8. ASSUME NEW v \in Valuations PROVE Matches(s, v, After(v, 0))
  BY <1>5, <1>6, <1>7, AfterNone DEF Matches
<1>9. Replays(s)
  BY <1>1, <1>8 DEF Replays
<1>10. QED
  BY <1>9 DEF s

-----------------------------------------------------------------------------
(* An instruction.                                                         *)

LEMMA MarkedFirst ==
  ASSUME NEW m, NEW v, Decodes(m.pc)
  PROVE  Stepped(m, v) = Executed(Marking(m, v), program[m.pc])
BY DEF Stepped, Marking

(* A side of a fork, with its constraint and its address, and the number   *)
(* the copy gets.                                                          *)
Side(s, holds, next) == [addConstraint(s, holds) EXCEPT !.pc = next]

Numbered(s) == [s EXCEPT !.id = getTotalStates]

(* What forkState makes of the heap.                                       *)
Forks(s, holds, target, next, new) ==
  \E t \in checkFeasibility(s.constraints \cap holds),
     f \in checkFeasibility(s.constraints \ holds) :
    IF BothWays(t, f)
    THEN LET both == Forked(s, holds, target, next)
         IN  new = Append([heap EXCEPT ![current] = both[1]],
                          [both[2] EXCEPT !.id = getTotalStates])
    ELSE new = [heap EXCEPT ![current] =
                  IF t THEN [addConstraint(s, holds) EXCEPT !.pc = target]
                  ELSE IF f THEN [addConstraint(s, Valuations \ holds)
                                    EXCEPT !.pc = next]
                  ELSE [s EXCEPT !.type = "TERMINATED", !.steps = @ - 1]]

LEMMA ForkForks ==
  ASSUME NEW s, NEW holds, NEW target, NEW next, forkState(s, holds, target, next)
  PROVE  Forks(s, holds, target, next, heap')
<1>1. PICK t \in checkFeasibility(s.constraints \cap holds),
           f \in checkFeasibility(s.constraints \ holds) :
        IF BothWays(t, f)
        THEN LET both == Forked(s, holds, target, next)
             IN  heap' = Append([heap EXCEPT ![current] = both[1]],
                                [both[2] EXCEPT !.id = getTotalStates])
        ELSE heap' = [heap EXCEPT ![current] =
               IF t THEN [addConstraint(s, holds) EXCEPT !.pc = target]
               ELSE IF f THEN [addConstraint(s, Valuations \ holds) EXCEPT !.pc = next]
               ELSE [s EXCEPT !.type = "TERMINATED", !.steps = @ - 1]]
  BY DEF forkState
<1>2. QED
  BY <1>1 DEF Forks

(* Both sides, or one of them.                                             *)
Sides(s, holds, target, next, new) ==
  \/ new = Append([heap EXCEPT ![current] = Side(s, holds, target)],
                  Numbered(Side(fork(s), Valuations \ holds, next)))
  \/ new = [heap EXCEPT ![current] = Side(s, holds, target)]
  \/ new = [heap EXCEPT ![current] = Side(s, Valuations \ holds, next)]

(* With a solver that decides, a branch leaves a state a side.             *)
LEMMA ForkHeap ==
  ASSUME SolverComplete, NEW s, s.constraints # {}, s.constraints \subseteq Valuations,
         NEW holds, NEW target, NEW next, NEW new, Forks(s, holds, target, next, new)
  PROVE  Sides(s, holds, target, next, new)
<1> DEFINE yes == [addConstraint(s, holds) EXCEPT !.pc = target]
           no == [addConstraint(s, Valuations \ holds) EXCEPT !.pc = next]
           copy == [addConstraint(fork(s), Valuations \ holds) EXCEPT !.pc = next]
           ended == [s EXCEPT !.type = "TERMINATED", !.steps = @ - 1]
           both == Forked(s, holds, target, next)
<1>1. PICK t \in checkFeasibility(s.constraints \cap holds),
           f \in checkFeasibility(s.constraints \ holds) :
        IF BothWays(t, f)
        THEN new = Append([heap EXCEPT ![current] = both[1]],
                            [both[2] EXCEPT !.id = getTotalStates])
        ELSE new = [heap EXCEPT ![current] =
                        IF t THEN yes ELSE IF f THEN no ELSE ended]
  BY DEF Forks
<1>2. both[1] = yes /\ both[2] = copy
  BY DEF Forked
<1>3. BothWays(t, f) <=> (t /\ f)
  BY DEF BothWays
<1>4. /\ t \in BOOLEAN /\ f \in BOOLEAN
      /\ ~t => s.constraints \cap holds = {}
      /\ ~f => s.constraints \ holds = {}
  BY DEF checkFeasibility
<1>5. t \/ f
  BY <1>4
<1> HIDE DEF yes, no, copy, ended, both
<1>6. CASE t /\ f
  BY <1>1, <1>2, <1>3, <1>6 DEF yes, no, copy, Side, Numbered, Sides
<1>7. CASE t /\ ~f
  BY <1>1, <1>3, <1>7 DEF yes, no, copy, Side, Numbered, Sides
<1>8. CASE ~t /\ f
  BY <1>1, <1>3, <1>8 DEF yes, no, copy, Side, Numbered, Sides
<1>9. QED
  BY <1>4, <1>5, <1>6, <1>7, <1>8

(* The two sides of a branch, on the valuations that take them.            *)
LEMMA BranchMatches ==
  ASSUME PlainRun(program, client), NEW v \in Valuations, NEW s, Shaped(s), NEW m,
         Matches(s, v, m), NEW a \in DOMAIN program, a # 0, m.pc = a,
         NEW i, i = program[a], Branches(i)
  PROVE  IF v \in Condition(s, i.mnemonic)
         THEN Matches([s EXCEPT !.pc = Target(s, i)], v, Executed(m, i))
         ELSE Matches([s EXCEPT !.pc = Next_(s, i)], v, Executed(m, i))
<1>1. Plain(program, client, i)
  BY DEF PlainRun
<1>2. /\ i.mnemonic \in Conditional /\ i.operands[1].kind = "imm"
      /\ Reads(i.mnemonic) \subseteq Agreed(program, client)
  BY <1>1 DEF Plain, Arithmetic, Branches, isBranch, isCall, Conditional
<1>3. v \in Condition(s, i.mnemonic) <=> Taken(m, i.mnemonic)
  BY <1>2, ConditionTaken DEF Matches
<1>4. Executed(m, i) = IF Taken(m, i.mnemonic)
                       THEN [m EXCEPT !.pc = i.operands[1].num]
                       ELSE Next1(m, i)
  BY <1>2, BranchExecuted
<1>5. /\ Target(s, i) = i.operands[1].num
      /\ Next_(s, i) = m.pc + i.size
  BY <1>2 DEF Target, Next_, Matches, SamePlace
<1>6. Next1(m, i) = [m EXCEPT !.pc = m.pc + i.size]
  BY DEF Next1
<1>7. \A n : Matches([s EXCEPT !.pc = n], v, [m EXCEPT !.pc = n])
  BY GoneTo
<1>8. QED
  BY <1>3, <1>4, <1>5, <1>6, <1>7

(* One more state beside the one that was being run.                       *)
LEMMA SplitReplays ==
  ASSUME IInv, ReplayInv, current \in Pointers, NEW t, Replays(t),
         NEW u, Replays(u), heap' = Append([heap EXCEPT ![current] = t], u),
         UNCHANGED given
  PROVE  ReplayInv'
<1> DEFINE both == [heap EXCEPT ![current] = t]
<1>1. heap \in Seq(Range(heap))
  BY DEF IInv, Lists
<1>2. /\ DOMAIN both = DOMAIN heap /\ both[current] = t
      /\ \A j \in DOMAIN heap \ {current} : both[j] = heap[j]
      /\ both \in Seq(Range(both))
  BY <1>1, Updated DEF Pointers
<1> HIDE DEF both
<1>3. ASSUME NEW j \in DOMAIN both, NEW s, s = both[j] PROVE Replays(s)
  BY <1>2, <1>3 DEF ReplayInv, Pointers
<1>4. /\ DOMAIN both = 1 .. Len(both) /\ DOMAIN heap' = 1 .. Len(both) + 1
      /\ \A k \in 1 .. Len(both) : heap'[k] = both[k]
      /\ heap'[Len(both) + 1] = u /\ Len(both) \in Nat
  BY <1>2, Appended DEF both
<1>5. ASSUME NEW j \in Pointers', NEW s, s = heap'[j] PROVE Replays(s)
  <2>1. j \in DOMAIN both \/ j = Len(both) + 1
    BY <1>4 DEF Pointers
  <2>2. CASE j \in DOMAIN both
    BY <1>3, <1>4, <1>5, <2>2
  <2>3. CASE j = Len(both) + 1
    BY <1>4, <1>5, <2>3
  <2>4. QED
    BY <2>1, <2>2, <2>3
<1>6. ASSUME NEW j \in Pointers', NEW s, s = heap'[j] PROVE Replays(s)'
  BY <1>5, <1>6, ReplaysStays
<1>7. QED
  BY <1>6 DEF ReplayInv

(* A side of a branch with the constraint that leads there.                *)
LEMMA SideReplays ==
  ASSUME NEW s, Shaped(s), s.steps \in Nat, NEW t, NEW n, Shaped(t),
         t.steps = s.steps, SameSpot([s EXCEPT !.pc = n], t),
         \A v \in t.constraints :
           Matches([s EXCEPT !.pc = n], v, After(v, s.steps))
  PROVE  Replays(t)
BY SpotMatches DEF Replays

LEMMA InstructionReplays ==
  ASSUME SolverComplete, PlainRun(program, client), IInv, ReplayInv,
         executeInstruction
  PROVE  ReplayInv'
<1> DEFINE s == Recorded(heap[current])
           i == program[s.pc]
           holds == Condition(s, i.mnemonic)
           target == Target(s, i)
           next == Next_(s, i)
<1>1. /\ slice /\ UNCHANGED given /\ Decodes(heap[current].pc)
      /\ IF Branches(i) THEN forkState(s, holds, target, next)
         ELSE heap' = [heap EXCEPT ![current] = Transfer(s, i)]
  BY DEF executeInstruction, InSlice
<1>2. current \in Pointers
  BY <1>1 DEF IInv, Lists
<1>3. PICK c : c = heap[current] /\ Replays(c)
  BY <1>2 DEF ReplayInv
<1>4. /\ Shaped(s) /\ s.pc = c.pc /\ s.constraints = c.constraints
      /\ s.steps = c.steps + 1 /\ s.steps \in Nat /\ c.steps \in Nat
  BY <1>3, RecordedLeaves DEF Replays
<1>5. c.constraints # {} /\ c.constraints \subseteq Valuations
  BY <1>2, <1>3 DEF IInv, Divides
<1>6. PICK a : a = c.pc /\ a \in DOMAIN program /\ a # 0 /\ i = program[a]
  BY <1>1, <1>3, <1>4 DEF Decodes
<1>7. s = Recorded(c)
  BY <1>3
<1> DEFINE M(v) == Marking(After(v, c.steps), v)
<1> HIDE DEF s, i, holds, target, next, M
<1>8. ASSUME NEW v \in s.constraints
      PROVE  /\ v \in Valuations /\ Matches(s, v, M(v)) /\ M(v).pc = a
             /\ After(v, s.steps) = Executed(M(v), i)
  <2>1. PICK m : m = After(v, c.steps) /\ Matches(c, v, m)
    BY <1>3, <1>4, <1>8 DEF Replays
  <2>2. v \in Valuations
    BY <1>4, <1>5, <1>8
  <2>3. Matches(s, v, Marking(m, v))
    BY <1>3, <1>7, <2>1, <2>2, RecordedMatches DEF Replays
  <2>4. m.pc = a /\ Marking(m, v).pc = a
    BY <1>4, <1>6, <2>1, <2>3 DEF Matches, SamePlace
  <2>5. After(v, c.steps + 1) = Stepped(m, v)
    BY <1>4, <2>1, AfterOne
  <2>6. Stepped(m, v) = Executed(Marking(m, v), program[m.pc])
    BY <1>6, <2>4, MarkedFirst DEF Decodes
  <2>7. QED
    BY <1>4, <1>6, <2>1, <2>2, <2>3, <2>4, <2>5, <2>6 DEF M
<1>9. CASE ~Branches(i)
  <2> DEFINE t == Transfer(s, i)
  <2>1. Shaped(t) /\ t.steps = s.steps /\ t.constraints = s.constraints
    BY <1>4, TransferLeaves
  <2>2. ASSUME NEW v \in s.constraints PROVE Matches(t, v, After(v, s.steps))
    BY <1>4, <1>6, <1>8, <1>9, TransferMatches
  <2> HIDE DEF t
  <2>3. Replays(t)
    BY <1>4, <2>1, <2>2 DEF Replays
  <2>4. heap' = [heap EXCEPT ![current] = t]
    BY <1>1, <1>9 DEF t
  <2>5. QED
    BY <1>1, <1>2, <2>3, <2>4, RewriteReplays
<1>10. CASE Branches(i)
  <2> DEFINE yes == Side(s, holds, target)
             no == Side(s, Valuations \ holds, next)
             numbered == Numbered(Side(fork(s), Valuations \ holds, next))
             there == [s EXCEPT !.pc = target]
             here == [s EXCEPT !.pc = next]
  <2>1. /\ Shaped(yes) /\ yes.steps = s.steps /\ SameSpot(there, yes)
        /\ yes.constraints = s.constraints \cap holds
    BY <1>4 DEF Side, addConstraint, Shaped, SameSpot
  <2>2. /\ Shaped(no) /\ no.steps = s.steps /\ SameSpot(here, no)
        /\ no.constraints = s.constraints \cap (Valuations \ holds)
    BY <1>4 DEF Side, addConstraint, Shaped, SameSpot
  <2>3. /\ Shaped(numbered) /\ numbered.steps = s.steps
        /\ SameSpot(here, numbered)
        /\ numbered.constraints = s.constraints \cap (Valuations \ holds)
    BY <1>4 DEF Side, Numbered, addConstraint, fork, Shaped, SameSpot
  <2>4. forkState(s, holds, target, next)
    BY <1>1, <1>10
  <2>5. ASSUME NEW v \in s.constraints
        PROVE  IF v \in holds THEN Matches(there, v, After(v, s.steps))
               ELSE Matches(here, v, After(v, s.steps))
    BY <1>4, <1>6, <1>8, <1>10, BranchMatches DEF holds, target, next
  <2>6. \/ heap' = Append([heap EXCEPT ![current] = yes], numbered)
        \/ heap' = [heap EXCEPT ![current] = yes]
        \/ heap' = [heap EXCEPT ![current] = no]
    <3>1. s.constraints # {} /\ s.constraints \subseteq Valuations
      BY <1>4, <1>5
    <3>2. Forks(s, holds, target, next, heap')
      BY <2>4, ForkForks
    <3>3. PICK new, x, y, p, q : /\ new = heap' /\ x = s /\ y = holds
                                /\ p = target /\ q = next
      OBVIOUS
    <3>4. Forks(x, y, p, q, new)
      BY <3>2, <3>3
    <3>5. x.constraints # {} /\ x.constraints \subseteq Valuations
      BY <3>1, <3>3
    <3>6. Sides(x, y, p, q, new)
      BY <3>4, <3>5, ForkHeap
    <3>7. QED
      BY <3>3, <3>6 DEF Sides
  <2> HIDE DEF yes, no, numbered
  <2>7. Replays(yes)
    BY <1>4, <2>1, <2>5, SideReplays
  <2>8. Replays(no)
    BY <1>4, <2>2, <2>5, SideReplays
  <2>9. Replays(numbered)
    BY <1>4, <2>3, <2>5, SideReplays
  <2>10. QED
    BY <1>1, <1>2, <2>6, <2>7, <2>8, <2>9, RewriteReplays, SplitReplays
<1>11. QED
  BY <1>9, <1>10

LEMMA ReplayStep ==
  ASSUME SolverComplete, PlainRun(program, client), IInv, ReplayInv, [Next]_vars
  PROVE  ReplayInv'
<1>1. ASSUME UNCHANGED <<heap, given>> PROVE ReplayInv'
  <2>1. ASSUME NEW h \in Pointers', NEW s, s = heap'[h] PROVE Replays(s)'
    <3>1. Replays(s)
      BY <1>1, <2>1 DEF ReplayInv, Pointers
    <3>2. QED
      BY <1>1, <3>1, ReplaysStays
  <2>2. QED
    BY <2>1 DEF ReplayInv
<1>2. CASE executeFrom
  <2>1. UNCHANGED given
    BY <1>2 DEF executeFrom
  <2>2. CASE UNCHANGED heap
    BY <1>1, <2>1, <2>2
  <2>3. CASE createState(Entry)
    <3> DEFINE s == NewState(stateCounter, Entry)
    <3>1. heap = <<>> /\ heap' = Append(heap, s)
      BY <1>2, <2>3 DEF executeFrom, IInv, Lists, createState
    <3>2. Replays(s)
      BY NewReplays
    <3> HIDE DEF s
    <3>3. PICK t : t = s /\ Replays(t)
      BY <3>2
    <3>4. DOMAIN heap' = {1} /\ heap'[1] = t
      BY <3>1, <3>3
    <3>5. Replays(t)'
      BY <2>1, <3>3, ReplaysStays
    <3>6. QED
      BY <3>4, <3>5 DEF ReplayInv, Pointers
  <2>4. QED
    BY <1>2, <2>2, <2>3 DEF executeFrom, managerVars
<1>3. CASE Pick
  <2>1. /\ heap' = [heap EXCEPT ![Last(worklist)].type = "ACTIVE"]
        /\ worklist # <<>> /\ UNCHANGED given
    BY <1>3 DEF Pick, getNextState
  <2>2. Last(worklist) \in Pointers
    <3>1. worklist \in Seq(Pointers)
      BY DEF IInv, Lists
    <3>2. Len(worklist) \in 1 .. Len(worklist)
      BY <2>1, <3>1, EmptySeq, LenProperties
    <3>3. QED
      BY <3>1, <3>2, ElementOfSeq DEF Last
  <2>3. QED
    BY <2>1, <2>2, RetypeReplays
<1>4. CASE ReachEnd \/ Fail
  <2>1. /\ heap' = [heap EXCEPT ![current].type = "TERMINATED"]
        /\ slice /\ UNCHANGED given
    BY <1>4 DEF ReachEnd, Fail, removeState, InSlice
  <2>2. current \in Pointers
    BY <2>1 DEF IInv, Lists
  <2>3. QED
    BY <2>1, <2>2, RetypeReplays
<1>5. CASE executeInstruction
  BY <1>5, InstructionReplays
<1>6. CASE loadBinary \/ Complete \/ GiveUp \/ LeaveSlice
  BY <1>1, <1>6 DEF loadBinary, Complete, GiveUp, LeaveSlice, managerVars
<1>7. CASE UNCHANGED vars
  BY <1>1, <1>7 DEF vars, managerVars
<1>8. QED
  BY <1>2, <1>3, <1>4, <1>5, <1>6, <1>7 DEF Next

(* What the executor computes is what the processor computes: on every     *)
(* valuation that satisfies the constraints of a state, whatever forked,   *)
(* was marked, called, returned from and left waiting before, the state is *)
(* where the processor is after as many instructions, with its registers.  *)
(* The handlers of SymbolicExecutor.cpp, forkState, the folding of values  *)
(* and the register file all take part.  It is proved with a solver that   *)
(* decides, of programs and clients of PlainRun.                           *)
THEOREM ExecutionReplays ==
  ASSUME SolverComplete
  PROVE  Spec => [](PlainRun(program, client) => StatesReplay)
<1> DEFINE Fragment == PlainRun(program, client)
<1>1. Init => ReplayInv
  BY DEF Init, InitManager, ReplayInv, Pointers
<1>2. Fragment /\ IInv /\ ReplayInv /\ [Next]_vars => ReplayInv'
  BY ReplayStep
<1>3. [Next]_vars => (Fragment' => Fragment)
  <2>1. [Next]_vars => UNCHANGED given
    BY DEF Next, vars, loadBinary, executeFrom, Complete, GiveUp, Pick, LeaveSlice,
           ReachEnd, Fail, executeInstruction
  <2>2. UNCHANGED given => (Fragment' => Fragment)
    BY DEF given, PlainRun
  <2>3. QED
    BY <2>1, <2>2
<1>4. IInv /\ ReplayInv => StatesReplay
  <2>1. SUFFICES ASSUME IInv, ReplayInv, NEW h \in Pointers,
                        NEW v \in heap[h].constraints
                 PROVE  LET m == After(v, heap[h].steps)
                        IN  /\ heap[h].pc = m.pc
                            /\ \A r \in {"rax", "rcx"} :
                                 get(heap[h].registers, r).at[v] = m.reg[r]
    BY DEF StatesReplay
  <2>2. PICK s : s = heap[h] /\ Replays(s)
    BY <2>1 DEF ReplayInv
  <2>3. PICK m : m = After(v, s.steps) /\ Matches(s, v, m)
    BY <2>1, <2>2 DEF Replays
  <2>4. s.pc = m.pc
    BY <2>3 DEF Matches, SamePlace
  <2>5. \A r \in {"rax", "rcx"} : get(s.registers, r).at[v] = m.reg[r]
    BY <2>3 DEF Matches, SameData, Stands, Data
  <2>6. QED
    BY <2>2, <2>3, <2>4, <2>5
<1> HIDE DEF Fragment
<1>5. Init /\ [][Next]_vars => [](Fragment => ReplayInv)
  <2>1. Init => (Fragment => ReplayInv)
    BY <1>1
  <2>2. IInv /\ (Fragment => ReplayInv) /\ [Next]_vars => (Fragment => ReplayInv)'
    BY <1>2, <1>3
  <2>3. QED
    BY <2>1, <2>2, AlwaysIInv, PTL DEF Spec
<1>6. IInv /\ (Fragment => ReplayInv) => (Fragment => StatesReplay)
  BY <1>4
<1>7. QED
  BY <1>5, <1>6, AlwaysIInv, PTL DEF Spec, Fragment
=============================================================================
