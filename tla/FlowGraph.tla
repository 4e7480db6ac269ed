----------------------------- MODULE FlowGraph -----------------------------
(***************************************************************************)
(* The control flow graph of src/main.cpp, CFGBuilder::build: a function   *)
(* of the decoded instructions and the entry point.                        *)
(*                                                                         *)
(* The instructions come from one linear sweep, so they follow each other  *)
(* without gaps.  Blocks are named by their first address.  The vectors of *)
(* successors and edges become one set: an edge that is added twice, by a  *)
(* branch to the next instruction, is in it once.                          *)
(***************************************************************************)
EXTENDS Integers, FiniteSetsExt

CONSTANTS
  insns,   (* address -> instruction                                       *)
  entry    (* the address the program starts at                            *)

Addresses == DOMAIN insns
After(a) == a + insns[a].size
Targets(a) == {insns[a].target} \ {0}
Of(K) == {a \in Addresses : insns[a].kind \in K}

\* the target of a branch starts no block
MutLeaders ==
  {entry, Min(Addresses)}
    \cup {After(a) : a \in Of({"jcc", "call"})}

(* What follows a return or an unconditional jump is no leader.            *)
leaders ==
  {entry, Min(Addresses)}
    \cup (UNION {Targets(a) : a \in Of({"jmp", "jcc", "call"})})
    \cup {After(a) : a \in Of({"jcc", "call"})}

(* A block goes from a leader to the instruction before the next one.      *)
Starts == leaders \cap Addresses
BlockOf(a) == Max({s \in Starts : s <= a})
LastOf(s) == Max({a \in Addresses : BlockOf(a) = s})

(* An address inside of an instruction belongs to its block; 0 stands for  *)
(* no block.                                                               *)
find_block_start(a) ==
  IF \E s \in Starts : s <= a /\ a < After(LastOf(s)) THEN BlockOf(a) ELSE 0

\* a conditional branch has its target for only successor
MutSuccessors(a) ==
  CASE insns[a].kind = "ret" -> {}
    [] insns[a].kind \in {"jmp", "jcc"} -> Targets(a)
    [] OTHER -> {After(a)}

Successors(a) ==
  CASE insns[a].kind = "ret" -> {}
    [] insns[a].kind = "jmp" -> Targets(a)
    [] insns[a].kind = "jcc" -> Targets(a) \cup {After(a)}
    [] OTHER -> {After(a)}

edges ==
  UNION {{<<s, find_block_start(d)>> :
            d \in {t \in Successors(LastOf(s)) : find_block_start(t) # 0}} :
         s \in Starts}
=============================================================================
