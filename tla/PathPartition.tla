--------------------------- MODULE PathPartition ---------------------------
(***************************************************************************)
(* What the exploration engine of src/main.cpp promises, without programs, *)
(* stacks, limits or counters: it divides the inputs into classes, one per *)
(* path.  A class is open while its path is being explored and closed when *)
(* it has been reported.  A class may only be split in two, or closed; a   *)
(* solver that may give up can also narrow an open class, and the inputs   *)
(* cut off are then on no path at all.                                     *)
(***************************************************************************)
CONSTANTS
  Inputs,     (* assignments of the symbolic inputs                        *)
  MayForget   (* TRUE: inputs may be cut off                               *)

VARIABLES open, closed

vars == <<open, closed>>

Init == open = {Inputs} /\ closed = {}

(* A class and its two nonempty parts.                                     *)
Split(c) ==
  \E a \in SUBSET c :
    /\ a # {} /\ a # c
    /\ open' = (open \ {c}) \cup {a, c \ a}
    /\ UNCHANGED closed

Narrow(c) ==
  /\ MayForget
  /\ \E a \in SUBSET c :
       /\ a # {}
       /\ open' = (open \ {c}) \cup {a}
  /\ UNCHANGED closed

Close(c) ==
  /\ open' = open \ {c}
  /\ closed' = closed \cup {c}

Next == \E c \in open : Split(c) \/ Narrow(c) \/ Close(c)

Spec == Init /\ [][Next]_vars

-----------------------------------------------------------------------------
Classes == open \cup closed

(* The classes, open and closed, are sets of inputs; no class is empty, no *)
(* input is in two of them, and none is both open and closed.              *)
Disjoint ==
  /\ open \subseteq SUBSET Inputs /\ closed \subseteq SUBSET Inputs
  /\ open \cap closed = {}
  /\ \A c \in Classes : c # {}
  /\ \A c, d \in Classes : c # d => c \cap d = {}

(* Unless inputs may be cut off, every input is in some class.             *)
Covering == MayForget \/ UNION Classes = Inputs

Partition == Disjoint /\ Covering
=============================================================================
