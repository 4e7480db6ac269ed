-------------------------------- MODULE MCLib --------------------------------
(***************************************************************************)
(* Small instances of the library's executor: registers of two bits, two   *)
(* symbolic constants, code of eleven addresses with the entry at 1.       *)
(***************************************************************************)
EXTENDS LibProps

Code(m, ops, size) == [mnemonic |-> m, operands |-> ops, size |-> size]
Do(m, ops) == Code(m, ops, 1)
RAX == Reg("rax")
RCX == Reg("rcx")
Nop == Do("nop", <<>>)
Ret == Do("ret", <<>>)
To(m, a) == Do(m, <<Imm(a)>>)

(* Compares with 0, after which every flag is what the processor has;      *)
(* loops, calls, pushes and pops, memory operands, writes through a 32-bit *)
(* name, and an instruction of two addresses into which a jump goes.       *)
Laid(first, cond, body) ==
  [a \in 0 .. 10 |->
     CASE a = 0 -> Nop
       [] a = 1 -> first
       [] a = 2 -> Do("cmp", <<RAX, Imm(0)>>)
       [] a = 3 -> cond
       [] a \in 4 .. 6 -> body[a - 3]
       [] a = 7 -> Ret
       [] a = 8 -> To("je", 10)
       [] a = 9 -> Do("add", <<RCX, Imm(1)>>)
       [] OTHER -> Ret]

Long ==
  <<Code("add", <<Mem("", 2), RAX>>, 2), To("jmp", 9), Do("add", <<RCX, Mem("rax", 1)>>)>>
Firsts == {Do("mov", <<RAX, Imm(1)>>), Do("mov", <<Reg("eax"), Imm(3)>>)}
Conds == {To(m, 6) : m \in Conditional}
Bodies ==
  {<<Do("sub", <<RAX, Imm(1)>>), To("jne", 2), Do("mov", <<RCX, RAX>>)>>,
   <<Do("push", <<RAX>>), Do("pop", <<RCX>>), To("jbe", 2)>>,
   <<Do("lea", <<RCX, Mem("rax", 1)>>), To("call", 8), To("je", 8)>>,
   Long,
   <<To("callq", 8), To("jmp", 2), Do("shl", <<RCX, Imm(1)>>)>>,
   <<Do("mov", <<Mem("", 1), RAX>>), Do("xor", <<RAX, RCX>>), To("js", 0)>>}
MCPrograms == {Laid(f, c, b) : f \in Firsts, c \in Conds, b \in Bodies}
                \cup {Laid(f, To("jne", 5), Long) : f \in Firsts}

Mark(a, n, o) == [at |-> a, name |-> n, to |-> o]
MCClients ==
  {[marks |-> {Mark(3, "x", Reg(f)), Mark(8, "y", Reg("zf")),
               Mark(5, "y", Reg(f)), Mark(6, "x", Reg("zf"))}, stopAt |-> s] :
     f \in {"zf", "sf"}, s \in {0, 9}}
   \cup {[marks |-> {Mark(8, "x", Reg("zf")), Mark(7, "y", Mem("", 2))}, stopAt |-> 0]}
ASSUME SparesStack /\ DirectJumps
ASSUME \E p \in MCPrograms, c \in MCClients : PlainRun(p, c)
=============================================================================
