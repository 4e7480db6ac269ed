-------------------------- MODULE LibConstraintsProofs --------------------------
(***************************************************************************)
(* The constraint manager of the library, for every width of the registers *)
(* and every set of constraints a client may add.                          *)
(***************************************************************************)
EXTENDS LibConstraints, SequenceTheorems, TLAPS

Types ==
  /\ constraints \in Seq(Constraint)
  /\ constraintStack \in Seq(Seq(Constraint))
  /\ solver \in Seq(SUBSET Valuations)
  /\ failures \in Nat

-----------------------------------------------------------------------------
LEMMA SignedInteger == ASSUME NEW n \in Word PROVE n \in Int /\ Signed(n) \in Int
BY BitsAssumption DEF Word, Size, Signed, Negative

LEMMA NegatedTypes ==
  \A t \in ConstraintType \ {"NOT", "CUSTOM"} : NegatedType[t] \in ConstraintType \ {"NOT", "CUSTOM"}
BY DEF NegatedType, ConstraintType, Relations

(* On two numbers the negated relation holds when the relation does not.   *)
LEMMA RelationFlips ==
  ASSUME NEW t \in Relations, NEW n \in Word, NEW m \in Word
  PROVE  Holds(NegatedType[t], n, m) <=> ~Holds(t, n, m)
<1>1. n \in Int /\ m \in Int /\ Signed(n) \in Int /\ Signed(m) \in Int
  BY SignedInteger
<1>2. QED
  <2>1. CASE t \in {"EQUALITY", "INEQUALITY"}
    <3>1. CASE t = "EQUALITY"
      BY <3>1 DEF Holds, NegatedType
    <3>2. CASE t = "INEQUALITY"
      BY <3>2 DEF Holds, NegatedType
    <3>3. QED
      BY <2>1, <3>1, <3>2
  <2>2. CASE t = "LESS_THAN"
    BY <1>1, <2>2 DEF Holds, NegatedType
  <2>3. CASE t = "LESS_EQUAL"
    BY <1>1, <2>3 DEF Holds, NegatedType
  <2>4. CASE t = "GREATER_THAN"
    BY <1>1, <2>4 DEF Holds, NegatedType
  <2>5. CASE t = "GREATER_EQUAL"
    BY <1>1, <2>5 DEF Holds, NegatedType
  <2>6. CASE t = "SLESS_THAN"
    BY <1>1, <2>6 DEF Holds, NegatedType
  <2>7. CASE t = "SLESS_EQUAL"
    BY <1>1, <2>7 DEF Holds, NegatedType
  <2>8. CASE t = "SGREATER_THAN"
    BY <1>1, <2>8 DEF Holds, NegatedType
  <2>9. CASE t = "SGREATER_EQUAL"
    BY <1>1, <2>9 DEF Holds, NegatedType
  <2>10. QED
    BY <2>1, <2>2, <2>3, <2>4, <2>5, <2>6, <2>7, <2>8, <2>9 DEF Relations

LEMMA NegateTyped == ASSUME NEW c \in Constraint PROVE negate(c) \in Constraint
<1>1. CASE c.type = "CUSTOM"
  BY <1>1 DEF negate, Constraint
<1>2. CASE c.type = "NOT"
  BY <1>2 DEF negate, Constraint, ConstraintType
<1>3. CASE c.type \notin {"CUSTOM", "NOT"}
  <2>1. NegatedType[c.type] \in ConstraintType
    BY <1>3, NegatedTypes DEF Constraint
  <2>2. negate(c) = [c EXCEPT !.type = NegatedType[c.type]]
    BY <1>3 DEF negate
  <2>3. QED
    BY <2>1, <2>2 DEF Constraint
<1>4. QED
  BY <1>1, <1>2, <1>3

(* negate() is the complement of a constraint that is no AND and no OR.    *)
LEMMA NegateComplement ==
  ASSUME NEW c \in Constraint, c.type \notin {"AND", "OR"}
  PROVE  toZ3Expr(negate(c)) = Valuations \ toZ3Expr(c)
<1>1. CASE c.type = "CUSTOM"
  BY <1>1 DEF negate, toZ3Expr, Constraint
<1>2. CASE c.type = "NOT"
  BY <1>2 DEF negate, toZ3Expr, Constraint, Holds
<1>3. CASE c.type \in Relations
  <2>1. c.type \notin {"CUSTOM", "NOT"}
    BY <1>3 DEF Relations
  <2>2. negate(c) = [c EXCEPT !.type = NegatedType[c.type]]
    BY <2>1 DEF negate
  <2>3. /\ negate(c).type = NegatedType[c.type]
        /\ negate(c).left = c.left /\ negate(c).right = c.right
    BY <2>2 DEF Constraint
  <2>4. NegatedType[c.type] # "CUSTOM"
    BY <1>3 DEF NegatedType, Relations
  <2>5. ASSUME NEW v \in Valuations
        PROVE  Holds(NegatedType[c.type], c.left.at[v], c.right.at[v])
                 <=> ~Holds(c.type, c.left.at[v], c.right.at[v])
    <3>1. c.left.at[v] \in Word /\ c.right.at[v] \in Word
      BY DEF Constraint, Operand
    <3>2. QED
      BY <1>3, <3>1, RelationFlips
  <2>6. QED
    BY <2>1, <2>3, <2>4, <2>5 DEF toZ3Expr
<1>4. QED
  BY <1>1, <1>2, <1>3 DEF Constraint, ConstraintType

(* A constraint more cuts off what it does not allow.                      *)
LEMMA AppendNarrows ==
  ASSUME NEW cs \in Seq(Constraint), NEW c \in Constraint
  PROVE  getAllConstraints(Append(cs, c)) = getAllConstraints(cs) \cap toZ3Expr(c)
<1>1. /\ DOMAIN Append(cs, c) = 1 .. Len(cs) + 1 /\ DOMAIN cs = 1 .. Len(cs)
      /\ Len(cs) \in Nat
      /\ \A k \in 1 .. Len(cs) : Append(cs, c)[k] = cs[k]
      /\ Append(cs, c)[Len(cs) + 1] = c
  OBVIOUS
<1>2. ASSUME NEW v \in Valuations
      PROVE  (\A k \in DOMAIN Append(cs, c) : v \in toZ3Expr(Append(cs, c)[k]))
               <=> (\A k \in DOMAIN cs : v \in toZ3Expr(cs[k])) /\ v \in toZ3Expr(c)
  <2>1. 1 .. Len(cs) + 1 = (1 .. Len(cs)) \cup {Len(cs) + 1}
    BY <1>1
  <2>2. QED
    BY <1>1, <2>1, Zenon
<1>3. QED
  BY <1>2 DEF getAllConstraints

LEMMA NothingAdded == getAllConstraints(<<>>) = Valuations
BY DEF getAllConstraints

-----------------------------------------------------------------------------
LEMMA TypesInit == Init => Types
BY DEF Init, Types

LEMMA TypesStep == ASSUME Types, [Next]_vars PROVE Types'
<1> USE DEF Types
<1>1. CASE addConstraint
  <2>1. PICK c \in Constraints : \E d \in {c, negate(c)} :
          constraints' = Append(constraints, d)
    BY <1>1 DEF addConstraint
  <2>2. c \in Constraint /\ negate(c) \in Constraint
    BY ConstraintsAssumption, NegateTyped
  <2>3. QED
    BY <1>1, <2>1, <2>2 DEF addConstraint
<1>2. CASE push
  BY <1>2 DEF push
<1>3. CASE pop
  <2>1. Len(constraintStack) \in Nat /\ Len(constraintStack) > 0
    BY <1>3 DEF pop
  <2>2. constraints' \in Seq(Constraint)
    BY <1>3, <2>1 DEF pop
  <2>3. constraintStack' \in Seq(Seq(Constraint))
    <3>1. constraintStack' = SubSeq(constraintStack, 1, Len(constraintStack) - 1)
      BY <1>3 DEF pop
    <3>2. Len(constraintStack) - 1 \in 0 .. Len(constraintStack)
      BY <2>1
    <3>3. QED
      BY <2>1, <3>1, <3>2, SubSeqProperties
  <2>4. QED
    BY <1>3, <2>2, <2>3 DEF pop
<1>4. CASE clear
  BY <1>4 DEF clear
<1>5. CASE check
  BY <1>5 DEF check
<1>6. CASE getModel
  <2>1. getAllConstraints(constraints) \in SUBSET Valuations
    BY DEF getAllConstraints
  <2>2. solver' \in Seq(SUBSET Valuations) /\ failures' \in Nat
    <3>1. CASE UNCHANGED <<solver, failures>>
      BY <3>1
    <3>2. CASE /\ solver' = Append(solver, getAllConstraints(constraints))
               /\ failures' = failures + 1
      <4>1. \A e \in SUBSET Valuations :
              Append(solver, e) \in Seq(SUBSET Valuations)
        OBVIOUS
      <4>2. QED
        BY <2>1, <3>2, <4>1
    <3>3. QED
      BY <1>6, <3>1, <3>2 DEF getModel
  <2>3. QED
    BY <1>6, <2>2 DEF getModel
<1>7. CASE UNCHANGED vars
  BY <1>7 DEF vars
<1>8. QED
  BY <1>1, <1>2, <1>3, <1>4, <1>5, <1>6, <1>7 DEF Next

-----------------------------------------------------------------------------
LEMMA Divide == Types => SidesDivide
<1> SUFFICES ASSUME Types, NEW c \in Branches,
                    c.type \notin {"AND", "OR"}
             PROVE  /\ getAllConstraints(Append(constraints, c))
                         \cap getAllConstraints(Append(constraints, negate(c))) = {}
                    /\ getAllConstraints(Append(constraints, c))
                         \cup getAllConstraints(Append(constraints, negate(c)))
                           = getAllConstraints(constraints)
  BY DEF SidesDivide, Divides
<1>1. c \in Constraint /\ negate(c) \in Constraint
  BY ConstraintsAssumption, NegateTyped DEF Branches
<1>2. toZ3Expr(negate(c)) = Valuations \ toZ3Expr(c)
  BY <1>1, NegateComplement
<1>3. getAllConstraints(constraints) \subseteq Valuations
  BY DEF getAllConstraints
<1>4. /\ getAllConstraints(Append(constraints, c))
           = getAllConstraints(constraints) \cap toZ3Expr(c)
      /\ getAllConstraints(Append(constraints, negate(c)))
           = getAllConstraints(constraints) \cap toZ3Expr(negate(c))
  BY <1>1, AppendNarrows DEF Types
<1>5. QED
  BY <1>2, <1>3, <1>4

(* At every moment a constraint that is no AND and no OR, and what         *)
(* negate() makes of it, divide the valuations of the path.                *)
THEOREM SidesAlwaysDivide == Spec => []SidesDivide
<1>1. Spec => []Types
  BY TypesInit, TypesStep, PTL DEF Spec
<1>2. QED
  BY <1>1, Divide, PTL

(* A "sat" and the model that goes with it are always right, an "unsat"    *)
(* until a getModel has thrown; nothing is said of what an "unknown"       *)
(* leaves.                                                                 *)
THEOREM AnswersAlwaysFollow == Spec => []AnswersFollow
<1>1. Init => Types /\ AnswersFollow
  BY TypesInit DEF Init, AnswersFollow
<1>2. ASSUME Types, AnswersFollow, [Next]_vars PROVE AnswersFollow'
  <2>1. CASE addConstraint \/ push \/ pop \/ clear
    BY <1>2, <2>1 DEF addConstraint, push, pop, clear, NotAsked, AnswersFollow
  <2>2. CASE check
    <3>1. CASE failures = 0
      <4>1. Possible = getAllConstraints(constraints)
        BY <1>2, <3>1 DEF AnswersFollow, Types, Possible
      <4>2. QED
        BY <1>2, <2>2, <3>1, <4>1 DEF check, Answers, AnswersFollow
    <3>2. CASE failures # 0
      <4>1. Possible \subseteq getAllConstraints(constraints)
        BY DEF Possible
      <4>2. QED
        BY <1>2, <2>2, <3>2, <4>1 DEF check, Answers, AnswersFollow
    <3>3. QED
      BY <3>1, <3>2
  <2>3. CASE getModel
    <3>1. Possible \subseteq getAllConstraints(constraints)
      BY DEF Possible
    <3>2. CASE UNCHANGED <<solver, failures>> /\ answer' # "unsat"
      <4>1. answer' = "sat" => Possible # {} /\ model' \subseteq Possible
        BY <1>2, <2>3, <3>2 DEF getModel, Answers, AnswersFollow, Types
      <4>2. QED
        BY <1>2, <2>3, <3>1, <3>2, <4>1 DEF getModel, AnswersFollow
    <3>3. CASE /\ answer' # "sat" /\ model' = {}
               /\ solver' = Append(solver, getAllConstraints(constraints))
               /\ failures' = failures + 1
      <4>1. Len(solver') = Len(solver) + 1 /\ Len(solver) \in Nat
        BY <1>2, <3>3 DEF Types
      <4>2. QED
        BY <1>2, <2>3, <3>3, <4>1 DEF getModel, AnswersFollow, Types
    <3>4. QED
      BY <2>3, <3>2, <3>3 DEF getModel
  <2>4. CASE UNCHANGED vars
    BY <1>2, <2>4 DEF vars, AnswersFollow
  <2>5. QED
    BY <1>2, <2>1, <2>2, <2>3, <2>4 DEF Next
<1>3. ASSUME Types, AnswersFollow, [Next]_vars PROVE (Types /\ AnswersFollow)'
  BY <1>2, <1>3, TypesStep
<1>4. QED
  BY <1>1, <1>3, PTL DEF Spec

-----------------------------------------------------------------------------
LEMMA ScopesInitially == Init => Scopes!Init
BY NothingAdded DEF Init, Scopes!Init, savedSets

LEMMA ScopesStepwise ==
  ASSUME Types, [Next]_vars PROVE [Scopes!Next]_(Scopes!scopeVars)
<1> DEFINE N == getAllConstraints(constraints)
<1>1. CASE addConstraint
  <2>1. PICK c \in Constraints : \E d \in {c, negate(c)} :
          constraints' = Append(constraints, d)
    BY <1>1 DEF addConstraint
  <2>2. c \in Constraint /\ negate(c) \in Constraint
    BY ConstraintsAssumption, NegateTyped
  <2>3. getAllConstraints(constraints') \subseteq N
    BY <2>1, <2>2, AppendNarrows DEF Types
  <2>4. savedSets' = savedSets
    BY <1>1 DEF addConstraint, savedSets
  <2>5. QED
    BY <2>3, <2>4 DEF Scopes!Next, Scopes!Narrow
<1>2. CASE push
  <2>1. constraintStack' = Append(constraintStack, constraints)
        /\ constraints' = constraints
    BY <1>2 DEF push
  <2>2. savedSets' = Append(savedSets, N)
    BY <2>1 DEF savedSets, Types
  <2>3. QED
    BY <2>1, <2>2 DEF Scopes!Next, Scopes!Open
<1>3. CASE pop
  <2>1. /\ Len(constraintStack) \in Nat /\ Len(constraintStack) > 0
        /\ constraints' = constraintStack[Len(constraintStack)]
        /\ constraintStack' =
             SubSeq(constraintStack, 1, Len(constraintStack) - 1)
    BY <1>3 DEF pop, Types
  <2>2. Len(savedSets) = Len(constraintStack) /\ savedSets # <<>>
    BY <2>1 DEF savedSets
  <2>3. getAllConstraints(constraints') = savedSets[Len(savedSets)]
    BY <2>1, <2>2 DEF savedSets
  <2>4. savedSets' = SubSeq(savedSets, 1, Len(savedSets) - 1)
    BY <2>1, <2>2 DEF savedSets, Types
  <2>5. QED
    BY <2>2, <2>3, <2>4 DEF Scopes!Next, Scopes!Close
<1>4. CASE clear
  BY <1>4, NothingAdded DEF clear, savedSets, Scopes!Next, Scopes!Reset
<1>5. CASE check \/ getModel \/ UNCHANGED vars
  <2>1. constraints' = constraints /\ constraintStack' = constraintStack
    BY <1>5 DEF check, getModel, vars
  <2>2. QED
    BY <2>1 DEF Scopes!scopeVars, savedSets
<1>6. QED
  BY <1>1, <1>2, <1>3, <1>4, <1>5 DEF Next

(* The constraint manager implements the stack of contexts, so the         *)
(* contexts of a path are nested and pop undoes what was added since push. *)
THEOREM ManagerImplementsScopes == Spec => ImplementsScopes
<1>1. Spec => []Types
  BY TypesInit, TypesStep, PTL DEF Spec
<1>2. Init => Scopes!Init
  BY ScopesInitially
<1>3. Types /\ [Next]_vars => [Scopes!Next]_(Scopes!scopeVars)
  BY ScopesStepwise
<1>4. QED
  BY <1>1, <1>2, <1>3, PTL DEF Spec, ImplementsScopes, Scopes!Spec
=============================================================================
