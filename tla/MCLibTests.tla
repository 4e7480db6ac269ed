------------------------------ MODULE MCLibTests ------------------------------
(***************************************************************************)
(* Sessions with the library on small code: registers of one bit, so that  *)
(* a constant has two values, and code of the shape of MCLib's.            *)
(***************************************************************************)
EXTENDS LibTests

Code(m, ops) == [mnemonic |-> m, operands |-> ops, size |-> 1]
Flag(f) == Reg(f)
To(m, a) == Code(m, <<Imm(a)>>)

(* Two branches on flags the client marks, forward or back, straight or    *)
(* through a call.                                                         *)
Laid(c1, body, c2) ==
  [a \in 0 .. 6 |->
     CASE a = 1 -> c1
       [] a = 2 -> body
       [] a = 3 -> c2
       [] a = 4 -> Code("add", <<Reg("rax"), Imm(1)>>)
       [] OTHER -> Code("ret", <<>>)]

Firsts == {To("je", 3), To("jne", 4)}
Bodies == {To("callq", 4), Code("mov", <<Reg("rcx"), Imm(1)>>)}

MCPrograms ==
  {Laid(c1, body, c2) :
     c1 \in Firsts, body \in Bodies, c2 \in {To("je", 1), To("jl", 5), To("ja", 0)}}

FewPrograms ==
  {Laid(c1, To("callq", 4), c2) : c1 \in Firsts, c2 \in {To("je", 1), To("jl", 5)}}

Mark(a, n, f) == [at |-> a, name |-> n, to |-> Reg(f)]
MCClients ==
  {[marks |-> m, stopAt |-> 0] :
     m \in {{Mark(1, "x", "zf")}, {Mark(1, "x", "zf"), Mark(3, "y", "sf")},
            {Mark(3, "x", "sf")}, {Mark(1, "x", "sf"), Mark(3, "y", "of")}}}

(* An input of more than 8 bytes, in memory nothing here reads.            *)
Large(a) == [at |-> a, name |-> "w", to |-> Mem("", 0)]
WideClients ==
  MCClients \cup {[marks |-> m, stopAt |-> 0] :
                    m \in {{Large(1)}, {Large(4), Mark(1, "x", "zf")}}}
=============================================================================
