--------------------------- MODULE ConstraintScopes ---------------------------
(***************************************************************************)
(* What src/PathConstraint.cpp promises to code that explores branches:    *)
(* the set of points still possible, which only shrinks, and a stack of    *)
(* contexts.  Opening a context keeps the set; closing it gives the set    *)
(* back as it was, whatever was added in between.                          *)
(***************************************************************************)
EXTENDS Integers, Sequences

CONSTANT Points

VARIABLES now, saved

scopeVars == <<now, saved>>

Init == now = Points /\ saved = <<>>

Narrow == now' \in SUBSET now /\ UNCHANGED saved
Open   == saved' = Append(saved, now) /\ UNCHANGED now

Close ==
  /\ saved # <<>>
  /\ now' = saved[Len(saved)]
  /\ saved' = SubSeq(saved, 1, Len(saved) - 1)

Reset == now' = Points /\ saved' = <<>>

Next == Narrow \/ Open \/ Close \/ Reset

Spec == Init /\ [][Next]_scopeVars

-----------------------------------------------------------------------------
Types == now \subseteq Points /\ saved \in Seq(SUBSET Points)

(* Contexts are nested: an inner one never allows a point that the one     *)
(* around it has ruled out.                                                *)
Nested ==
  /\ \A k \in 1 .. Len(saved) : now \subseteq saved[k]
  /\ \A j, k \in 1 .. Len(saved) : j <= k => saved[k] \subseteq saved[j]
=============================================================================
