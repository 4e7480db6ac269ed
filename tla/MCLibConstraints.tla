--------------------------- MODULE MCLibConstraints ---------------------------
(***************************************************************************)
(* Constraints over a constant of two bits; with their negations they      *)
(* are of every type.                                                      *)
(***************************************************************************)
EXTENDS LibConstraints

Build(t, l, r) ==
  [type |-> t, left |-> l, right |-> r, customExpr |-> {}]

MCConstraints ==
  {Build(t, makeSymbolic("x"), Concrete(2)) :
     t \in {"EQUALITY", "LESS_THAN", "GREATER_THAN", "SLESS_THAN", "SGREATER_THAN"}}
    \cup {Build(t, Apply("ult", makeSymbolic("x"), Concrete(2)),
                        Apply("eq", makeSymbolic("x"), Concrete(1))) :
            t \in {"AND", "OR", "NOT"}}
    \cup {[Build("CUSTOM", Concrete(0), Concrete(0)) EXCEPT
             !.customExpr = {v \in Valuations : v["x"] # 3}]}
=============================================================================
