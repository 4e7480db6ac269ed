---------------------------- MODULE SymExecFlow ----------------------------
(***************************************************************************)
(* The engine next to the control flow graph.  main() draws the graph from *)
(* the instructions it hands to the engine, and the engine never looks at  *)
(* it: do the paths the engine explores stay on the graph?                 *)
(***************************************************************************)
EXTENDS SymExecProps, FiniteSets

(* The instructions of a program come from one linear sweep over a buffer, *)
(* which ends at the first bytes that do not decode: each has a size, they *)
(* do not overlap, and there is no gap between two of them.                *)
ASSUME SweepAssumption ==
  \A p \in Programs :
    /\ IsFiniteSet(DOMAIN p)
    /\ \A a \in DOMAIN p :
         /\ p[a].size > 0
         /\ \A x \in DOMAIN p :
              x > a => x >= a + p[a].size /\ a + p[a].size \in DOMAIN p

Graph == INSTANCE FlowGraph WITH insns <- insn_map, entry <- Entry

(* The paths so far, with the instruction a waiting state is about to      *)
(* execute, and the transfers of control on them.                          *)
Paths ==
  {tests[i].path : i \in Reported}
    \cup {IF st.pc \in DOMAIN insn_map THEN Append(st.trace, st.pc)
          ELSE st.trace : st \in {worklist[i] : i \in Pending}}

Transfers == UNION {{<<p[k], p[k + 1]>> : k \in 1 .. Len(p) - 1} : p \in Paths}

Kind(a) == insn_map[a].kind
EndsBlock(a) == a = Graph!LastOf(Graph!BlockOf(a))

InsideBlock(a, b) == ~EndsBlock(a) /\ Kind(a) = "op" /\ b = Graph!After(a)
AlongEdge(a, b) == EndsBlock(a) /\ <<Graph!BlockOf(a), b>> \in Graph!edges
EntersCall(a, b) == Kind(a) = "call" /\ b = insn_map[a].target
ReturnsFromCall(a, b) ==
  /\ Kind(a) = "ret"
  /\ \E c \in DOMAIN insn_map : Kind(c) = "call" /\ b = Graph!After(c)

(* A jump the builder takes for an instruction in the middle of a block.   *)
HiddenJump(a) == Kind(a) = "jmp" /\ ~EndsBlock(a)

(* A path is a walk on the graph, with calls entered and left.  The only   *)
(* other transfers are jumps that do not end their block, as no leader     *)
(* follows them.                                                           *)
PathsFollowGraph ==
  \A t \in Transfers :
    \/ InsideBlock(t[1], t[2]) \/ AlongEdge(t[1], t[2])
    \/ EntersCall(t[1], t[2]) \/ ReturnsFromCall(t[1], t[2])
    \/ HiddenJump(t[1])

(* Blocks are entered at their start only, by hidden jumps and by returns  *)
(* to the middle of a function too.                                        *)
BlocksEnteredAtStart ==
  \A t \in Transfers : t[2] \in Graph!Starts \/ Kind(t[1]) = "op"
=============================================================================
