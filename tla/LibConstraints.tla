---------------------------- MODULE LibConstraints ----------------------------
(***************************************************************************)
(* src/PathConstraint.cpp of the library: Constraint, and the manager that *)
(* keeps the constraints of a path with a stack of contexts and asks a     *)
(* solver about them.  The solver is the client's, and is given nothing    *)
(* but what the manager asserts.                                           *)
(*                                                                         *)
(* A formula is the set of valuations that satisfy it.  An operand that is *)
(* a formula itself (AND, OR, NOT) is a value, true when it is not 0.      *)
(***************************************************************************)
EXTENDS LibValues, Sequences

CONSTANTS
  Constraints,      \* what a client may add
  MaxConstraints,   \* bounds: constraints of a path, open contexts,
  MaxContexts,
  MaxLeftOver       \* and levels left on the solver

Relations ==
  {"EQUALITY", "INEQUALITY", "LESS_THAN", "LESS_EQUAL", "GREATER_THAN",
   "GREATER_EQUAL", "SLESS_THAN", "SLESS_EQUAL", "SGREATER_THAN",
   "SGREATER_EQUAL"}
ConstraintType == Relations \cup {"AND", "OR", "NOT", "CUSTOM"}

Operand ==
  [symbolic : BOOLEAN, concreteValue : Word, at : [Valuations -> Word]]
Constraint ==
  [type : ConstraintType, left : Operand, right : Operand,
   customExpr : SUBSET Valuations]

ASSUME ConstraintsAssumption == Constraints \subseteq Constraint

VARIABLES
  constraints, constraintStack,
  solver,     \* what is asserted on the levels above the bottom
  failures,   \* calls of getModel that threw
  answer,     \* of the solver to the last call, if it was asked
  model       \* what the last call returned, if it was a model

vars == <<constraints, constraintStack, solver, failures, answer, model>>

-----------------------------------------------------------------------------
Holds(type, n, m) ==
  CASE type = "EQUALITY"       -> n = m
    [] type = "INEQUALITY"     -> n # m
    [] type = "LESS_THAN"      -> n < m
    [] type = "LESS_EQUAL"     -> n <= m
    [] type = "GREATER_THAN"   -> n > m
    [] type = "GREATER_EQUAL"  -> n >= m
    [] type = "SLESS_THAN"     -> Signed(n) < Signed(m)
    [] type = "SLESS_EQUAL"    -> Signed(n) <= Signed(m)
    [] type = "SGREATER_THAN"  -> Signed(n) > Signed(m)
    [] type = "SGREATER_EQUAL" -> Signed(n) >= Signed(m)
    [] type = "AND"            -> n # 0 /\ m # 0
    [] type = "OR"             -> n # 0 \/ m # 0
    [] type = "NOT"            -> n = 0

toZ3Expr(c) ==
  IF c.type = "CUSTOM" THEN c.customExpr
  ELSE {v \in Valuations : Holds(c.type, c.left.at[v], c.right.at[v])}

\* a strict relation is turned round, not negated
MutNegatedType ==
  [EQUALITY |-> "INEQUALITY", INEQUALITY |-> "EQUALITY",
   LESS_THAN |-> "GREATER_THAN", LESS_EQUAL |-> "GREATER_THAN",
   GREATER_THAN |-> "LESS_EQUAL", GREATER_EQUAL |-> "LESS_THAN",
   SLESS_THAN |-> "SGREATER_EQUAL", SLESS_EQUAL |-> "SGREATER_THAN",
   SGREATER_THAN |-> "SLESS_EQUAL", SGREATER_EQUAL |-> "SLESS_THAN",
   AND |-> "OR", OR |-> "AND"]

NegatedType ==
  [EQUALITY |-> "INEQUALITY", INEQUALITY |-> "EQUALITY",
   LESS_THAN |-> "GREATER_EQUAL", LESS_EQUAL |-> "GREATER_THAN",
   GREATER_THAN |-> "LESS_EQUAL", GREATER_EQUAL |-> "LESS_THAN",
   SLESS_THAN |-> "SGREATER_EQUAL", SLESS_EQUAL |-> "SGREATER_THAN",
   SGREATER_THAN |-> "SLESS_EQUAL", SGREATER_EQUAL |-> "SLESS_THAN",
   AND |-> "OR", OR |-> "AND"]

(* AND and OR are swapped and their operands kept.                         *)
negate(c) ==
  CASE c.type = "CUSTOM" -> [c EXCEPT !.customExpr = Valuations \ @]
    [] c.type = "NOT" -> [c EXCEPT !.type = "CUSTOM",
                            !.customExpr = {v \in Valuations : c.left.at[v] # 0}]
    [] OTHER -> [c EXCEPT !.type = NegatedType[c.type]]

(* getZ3Constraints and getAllConstraints.                                 *)
getAllConstraints(cs) ==
  {v \in Valuations : \A k \in DOMAIN cs : v \in toZ3Expr(cs[k])}

-----------------------------------------------------------------------------
Init ==
  /\ constraints = <<>> /\ constraintStack = <<>>
  /\ solver = <<>> /\ failures = 0 /\ answer = "none" /\ model = {}

NotAsked == answer' = "none" /\ model' = {}

addConstraint ==
  /\ Len(constraints) < MaxConstraints
  /\ \E c \in Constraints : \E added \in {c, negate(c)} :
       constraints' = Append(constraints, added)
  /\ NotAsked
  /\ UNCHANGED <<constraintStack, solver, failures>>

push ==
  /\ Len(constraintStack) < MaxContexts
  /\ constraintStack' = Append(constraintStack, constraints)
  /\ NotAsked
  /\ UNCHANGED <<constraints, solver, failures>>

\* the context is dropped and its constraints stay
MutPop ==
  /\ constraintStack # <<>>
  /\ constraintStack' = SubSeq(constraintStack, 1, Len(constraintStack) - 1)
  /\ NotAsked
  /\ UNCHANGED <<constraints, solver, failures>>

(* Without a context it does nothing.                                      *)
pop ==
  /\ constraintStack # <<>>
  /\ constraints' = constraintStack[Len(constraintStack)]
  /\ constraintStack' = SubSeq(constraintStack, 1, Len(constraintStack) - 1)
  /\ NotAsked
  /\ UNCHANGED <<solver, failures>>

clear ==
  /\ constraints' = <<>> /\ constraintStack' = <<>> /\ NotAsked
  /\ UNCHANGED <<solver, failures>>

Possible ==
  {v \in getAllConstraints(constraints) : \A k \in DOMAIN solver : v \in solver[k]}

Answers == {"unknown", IF Possible = {} THEN "unsat" ELSE "sat"}

\* what was asserted for the check stays
MutCheck ==
  /\ Len(solver) < MaxLeftOver
  /\ answer' \in Answers /\ model' = {}
  /\ solver' = Append(solver, getAllConstraints(constraints))
  /\ UNCHANGED <<constraints, constraintStack, failures>>

(* What is asserted for the check is taken back.                           *)
check ==
  /\ answer' \in Answers /\ model' = {}
  /\ UNCHANGED <<constraints, constraintStack, solver, failures>>

(* The answer is not looked at.  After a "sat" the model satisfies what is *)
(* asserted, after an "unknown" there may be any model or none, and where  *)
(* there is none get_model throws: the level stays on the solver, with the *)
(* constraints on it.                                                      *)
getModel ==
  /\ answer' \in Answers
  /\ \/ /\ answer' # "unsat"
        /\ \E v \in IF answer' = "sat" THEN Possible ELSE Valuations : model' = {v}
        /\ UNCHANGED <<solver, failures>>
     \/ /\ answer' # "sat" /\ Len(solver) < MaxLeftOver
        /\ model' = {}
        /\ solver' = Append(solver, getAllConstraints(constraints))
        /\ failures' = failures + 1
  /\ UNCHANGED <<constraints, constraintStack>>

Next == addConstraint \/ push \/ pop \/ clear \/ check \/ getModel

Spec == Init /\ [][Next]_vars

-----------------------------------------------------------------------------
savedSets == [k \in 1 .. Len(constraintStack) |-> getAllConstraints(constraintStack[k])]

Scopes == INSTANCE ConstraintScopes WITH
  Points <- Valuations, now <- getAllConstraints(constraints), saved <- savedSets

(* The manager is a stack of contexts over the valuations that satisfy its *)
(* constraints: adding only narrows, and pop gives back what push kept.    *)
ImplementsScopes == Scopes!Spec

(* A branch explored with c and then with its negate() leaves no valuation *)
(* out and none on both sides.                                             *)
Divides(c) ==
  LET Side(d) == getAllConstraints(Append(constraints, d))
  IN  /\ Side(c) \cap Side(negate(c)) = {}
      /\ Side(c) \cup Side(negate(c)) = getAllConstraints(constraints)

Branches == Constraints \cup {negate(c) : c \in Constraints}

(* So it is with every constraint but an AND or an OR: negate() swaps      *)
(* those and keeps the operands.                                           *)
SidesDivide == \A c \in Branches : c.type \notin {"AND", "OR"} => Divides(c)

(* A "sat" is always right, and so is the model that goes with it.  An     *)
(* "unsat" is right as long as no getModel has thrown; each one that has   *)
(* left a level behind, and the constraints there count in every later     *)
(* answer of the solver.                                                   *)
AnswersFollow ==
  /\ Len(solver) = failures
  /\ answer = "sat" => /\ getAllConstraints(constraints) # {}
                       /\ model \subseteq getAllConstraints(constraints)
  /\ answer = "unsat" =>
       model = {} /\ (failures = 0 => getAllConstraints(constraints) = {})
=============================================================================
