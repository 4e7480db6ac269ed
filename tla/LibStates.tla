------------------------------ MODULE LibStates ------------------------------
(***************************************************************************)
(* src/State.cpp of the library: ExecutionState, and StateManager as the   *)
(* library's executor uses it (depth first, no pruning).                   *)
(*                                                                         *)
(* heap holds every state ever allocated; a pointer is an index of it.     *)
(* The path constraints of a state are the valuations that satisfy all of  *)
(* them.  branchDepth is nowhere changed and left out; history is the      *)
(* number of instructions recorded, below the 10000 it is cut at; steps,   *)
(* which the code does not have, those that took the state somewhere.      *)
(***************************************************************************)
EXTENDS LibValues, Sequences, SequencesExt

CONSTANT StackBase   \* where the stack region ends

ASSUME StackBaseAssumption == StackBase - 1 \in Word /\ StackBase \in Nat

VARIABLES
  heap,          \* every ExecutionState allocated
  allStates,     \* StateManager: pointers, in order of creation
  worklist,      \* StateManager: pointers, the next one last
  stateCounter

managerVars == <<heap, allStates, worklist, stateCounter>>

InitManager ==
  heap = <<>> /\ allStates = <<>> /\ worklist = <<>> /\ stateCounter = 0

(* A state as createState makes it, with what initializeState then sets.   *)
NewState(id, start) ==
  [id |-> id, type |-> "SUSPENDED", pc |-> start,
   registers |-> set(initializeRegisters, "rsp", Concrete(StackBase - 1)),
   memory |-> [a \in {} |-> 0], stackTop |-> StackBase,
   constraints |-> Valuations,
   callStack |-> <<[returnAddress |-> 0, basePointer |-> StackBase]>>,
   symbolicInputs |-> {}, history |-> 0, steps |-> 0]

addConstraint(s, holds) == [s EXCEPT !.constraints = @ \cap holds]

(* The copy takes everything but the history.                              *)
fork(s) == [s EXCEPT !.type = "SUSPENDED", !.history = 0]

getTotalStates == Len(allStates)

(* createState and addToWorklist of the first state of a run.              *)
createState(start) ==
  /\ heap' = Append(heap, NewState(stateCounter, start))
  /\ allStates' = Append(allStates, Len(heap) + 1)
  /\ worklist' = Append(worklist, Len(heap) + 1)
  /\ stateCounter' = stateCounter + 1

(* getNextState: the state pushed last.                                    *)
getNextState ==
  /\ heap' = [heap EXCEPT ![Last(worklist)].type = "ACTIVE"]
  /\ worklist' = Front(worklist)
  /\ UNCHANGED <<allStates, stateCounter>>

(* removeState: off the worklist, and marked; it stays allocated.          *)
removeState(h) ==
  /\ heap' = [heap EXCEPT ![h].type = "TERMINATED"]
  /\ worklist' = RemoveFirst(worklist, h)
  /\ UNCHANGED <<allStates, stateCounter>>

(* getTerminatedStates looks among the states createState made.            *)
getTerminatedStates ==
  {h \in {allStates[k] : k \in DOMAIN allStates} : heap[h].type = "TERMINATED"}
=============================================================================
