---------------------------- MODULE AbstractProofs ----------------------------
(***************************************************************************)
(* The two abstract specifications keep their promises: the division of    *)
(* the inputs into classes stays a division, and contexts of a stack of    *)
(* scopes stay nested.                                                     *)
(***************************************************************************)
EXTENDS PathPartition, SequenceTheorems, TLAPS

CONSTANT Points

VARIABLES now, saved

Scopes == INSTANCE ConstraintScopes

-----------------------------------------------------------------------------
LEMMA PartitionInit == ASSUME Inputs # {}, Init PROVE Partition
BY DEF Init, Partition, Disjoint, Covering, Classes

LEMMA PartitionStep == ASSUME Partition, [Next]_vars PROVE Partition'
<1>1. CASE UNCHANGED vars
  BY <1>1 DEF vars, Partition, Disjoint, Covering, Classes
<1>2. CASE Next
  <2>1. PICK c \in open : Split(c) \/ Narrow(c) \/ Close(c)
    BY <1>2 DEF Next
  <2>2. CASE Split(c)
    <3>1. PICK a \in SUBSET c :
            /\ a # {} /\ a # c
            /\ open' = (open \ {c}) \cup {a, c \ a} /\ closed' = closed
      BY <2>2 DEF Split
    <3>2. Disjoint'
      <4>1. c \subseteq Inputs /\ c # {}
        BY <2>1 DEF Partition, Disjoint, Classes
      <4>2. ASSUME NEW d \in Classes, d # c
            PROVE  d # {} /\ d \cap c = {} /\ d \cap a = {} /\ d \cap (c \ a) = {}
        <5>1. c \in Classes /\ d \cap c = {} /\ d # {}
          BY <2>1, <4>2 DEF Partition, Disjoint, Classes
        <5>2. QED
          BY <5>1
      <4>3. Classes' = (Classes \ {c}) \cup {a, c \ a}
        BY <2>1, <3>1 DEF Partition, Disjoint, Classes
      <4>4. \A d \in Classes' : d # {}
        <5>1. c \ a # {}
          BY <3>1
        <5>2. QED
          BY <3>1, <4>2, <4>3, <5>1
      <4>5. ASSUME NEW d \in Classes', NEW e \in Classes', d # e
            PROVE  d \cap e = {}
        <5>1. CASE d \in Classes \ {c} /\ e \in Classes \ {c}
          BY <4>5, <5>1 DEF Partition, Disjoint
        <5>2. CASE d \in {a, c \ a} /\ e \in Classes \ {c}
          BY <4>2, <5>2
        <5>3. CASE d \in Classes \ {c} /\ e \in {a, c \ a}
          BY <4>2, <5>3
        <5>4. CASE d \in {a, c \ a} /\ e \in {a, c \ a}
          BY <4>5, <5>4
        <5>5. QED
          BY <4>3, <5>1, <5>2, <5>3, <5>4
      <4>6. open' \subseteq SUBSET Inputs /\ closed' \subseteq SUBSET Inputs
        BY <3>1, <4>1 DEF Partition, Disjoint
      <4>7. a \notin closed /\ (c \ a) \notin closed
        <5>1. c \notin closed
          BY <2>1 DEF Partition, Disjoint
        <5>2. \A d \in closed : d \cap a = {} /\ d \cap (c \ a) = {}
          BY <4>2, <5>1 DEF Classes
        <5>3. a \cap a # {}
          BY <3>1
        <5>4. (c \ a) \cap (c \ a) # {}
          BY <3>1
        <5>5. QED
          BY <5>2, <5>3, <5>4
      <4>8. open' \cap closed' = {}
        <5>1. (open \ {c}) \cap closed = {}
          BY DEF Partition, Disjoint
        <5>2. QED
          BY <3>1, <4>7, <5>1
      <4>9. QED
        BY <4>4, <4>5, <4>6, <4>8 DEF Disjoint
    <3>3. UNION (Classes') = UNION Classes
      <4>1. ASSUME NEW v \in UNION (Classes') PROVE v \in UNION Classes
        BY <2>1, <3>1 DEF Classes
      <4>2. ASSUME NEW v \in UNION Classes PROVE v \in UNION (Classes')
        <5>1. PICK d \in Classes : v \in d
          OBVIOUS
        <5>2. CASE d = c
          <6>1. a \in Classes' /\ (c \ a) \in Classes'
            BY <3>1 DEF Classes
          <6>2. v \in a \/ v \in c \ a
            BY <5>1, <5>2
          <6>3. QED
            BY <6>1, <6>2
        <5>3. CASE d # c
          BY <3>1, <5>1, <5>3 DEF Classes
        <5>4. QED
          BY <5>2, <5>3
      <4>3. QED
        BY <4>1, <4>2
    <3>4. QED
      BY <3>2, <3>3 DEF Partition, Covering
  <2>3. CASE Narrow(c)
    <3>1. PICK a \in SUBSET c :
            a # {} /\ open' = (open \ {c}) \cup {a} /\ closed' = closed
      BY <2>3 DEF Narrow
    <3>2. Disjoint'
      BY <2>1, <3>1 DEF Partition, Disjoint, Classes
    <3>3. QED
      BY <2>3, <3>2 DEF Partition, Covering, Narrow
  <2>4. CASE Close(c)
    <3>1. Classes' = Classes /\ open' = open \ {c} /\ closed' = closed \cup {c}
      BY <2>1, <2>4 DEF Close, Classes
    <3>2. QED
      BY <2>1, <3>1 DEF Partition, Disjoint, Covering, Classes
  <2>5. QED
    BY <2>1, <2>2, <2>3, <2>4
<1>3. QED
  BY <1>1, <1>2

(* The classes never overlap, and unless inputs may be cut off they cover  *)
(* the inputs: what every engine that implements PathPartition promises.   *)
THEOREM PartitionHolds == ASSUME Inputs # {} PROVE Spec => []Partition
<1>1. Init => Partition
  BY PartitionInit
<1>2. Partition /\ [Next]_vars => Partition'
  BY PartitionStep
<1>3. QED
  BY <1>1, <1>2, PTL DEF Spec

-----------------------------------------------------------------------------
LEMMA ScopesInit == Scopes!Init => Scopes!Types /\ Scopes!Nested
BY DEF Scopes!Init, Scopes!Types, Scopes!Nested

LEMMA ScopesStep ==
  ASSUME Scopes!Types, Scopes!Nested, [Scopes!Next]_(Scopes!scopeVars)
  PROVE  Scopes!Types' /\ Scopes!Nested'
<1> USE DEF Scopes!Types, Scopes!Nested
<1>1. CASE Scopes!Narrow
  BY <1>1 DEF Scopes!Narrow
<1>2. CASE Scopes!Open
  <2>1. Scopes!Types'
    BY <1>2 DEF Scopes!Open
  <2>2. Len(saved') = Len(saved) + 1 /\ now' = now
    BY <1>2 DEF Scopes!Open
  <2>3. \A k \in 1 .. Len(saved) : saved'[k] = saved[k]
    BY <1>2 DEF Scopes!Open
  <2>4. saved'[Len(saved) + 1] = now
    BY <1>2 DEF Scopes!Open
  <2>5. ASSUME NEW k \in 1 .. Len(saved') PROVE now' \subseteq saved'[k]
    BY <2>2, <2>3, <2>4
  <2>6. ASSUME NEW j \in 1 .. Len(saved'), NEW k \in 1 .. Len(saved'), j <= k
        PROVE  saved'[k] \subseteq saved'[j]
    <3>1. CASE k = Len(saved) + 1
      BY <2>2, <2>4, <2>5, <3>1
    <3>2. CASE k \in 1 .. Len(saved)
      BY <2>3, <2>6, <3>2
    <3>3. QED
      BY <2>2, <3>1, <3>2
  <2>7. QED
    BY <2>1, <2>5, <2>6
<1>3. CASE Scopes!Close
  <2>1. /\ Len(saved) \in Nat /\ Len(saved) > 0
        /\ now' = saved[Len(saved)]
    BY <1>3 DEF Scopes!Close
  <2>2. /\ saved' \in Seq(SUBSET Points)
        /\ Len(saved') = Len(saved) - 1
        /\ \A k \in 1 .. Len(saved) - 1 : saved'[k] = saved[k]
    <3>1. saved' = SubSeq(saved, 1, Len(saved) - 1)
      BY <1>3 DEF Scopes!Close
    <3>2. PICK n \in Nat : n = Len(saved) - 1
      BY <2>1
    <3>3. \A k \in 1 .. n : saved[k] \in SUBSET Points
      BY <2>1, <3>2
    <3>4. /\ SubSeq(saved, 1, n) \in Seq(SUBSET Points)
          /\ Len(SubSeq(saved, 1, n)) = IF 1 <= n THEN n - 1 + 1 ELSE 0
          /\ \A k \in 1 .. n - 1 + 1 : SubSeq(saved, 1, n)[k] = saved[1 + k - 1]
      BY <3>3, SubSeqProperties
    <3>5. n - 1 + 1 = n /\ \A k \in 1 .. n : 1 + k - 1 = k
      OBVIOUS
    <3>6. QED
      BY <3>1, <3>2, <3>4, <3>5
  <2>3. Scopes!Types'
    BY <2>1, <2>2
  <2>4. ASSUME NEW k \in 1 .. Len(saved') PROVE now' \subseteq saved'[k]
    BY <2>1, <2>2
  <2>5. ASSUME NEW j \in 1 .. Len(saved'), NEW k \in 1 .. Len(saved'), j <= k
        PROVE  saved'[k] \subseteq saved'[j]
    BY <2>1, <2>2, <2>5
  <2>6. QED
    BY <2>3, <2>4, <2>5
<1>4. CASE Scopes!Reset
  BY <1>4 DEF Scopes!Reset
<1>5. CASE UNCHANGED Scopes!scopeVars
  BY <1>5 DEF Scopes!scopeVars
<1>6. QED
  BY <1>1, <1>2, <1>3, <1>4, <1>5 DEF Scopes!Next

(* No context allows what one around it has ruled out: what every user of  *)
(* push and pop of src/PathConstraint.cpp may rely on.                     *)
THEOREM NestedHolds == Scopes!Spec => []Scopes!Nested
<1>1. Scopes!Init => Scopes!Types /\ Scopes!Nested
  BY ScopesInit
<1>2. (Scopes!Types /\ Scopes!Nested) /\ [Scopes!Next]_(Scopes!scopeVars)
        => (Scopes!Types /\ Scopes!Nested)'
  BY ScopesStep
<1>3. QED
  BY <1>1, <1>2, PTL DEF Scopes!Spec
=============================================================================
