----------------------------- MODULE Processor -----------------------------
(***************************************************************************)
(* The part of an x86 processor the engine of src/main.cpp has a case for, *)
(* on numbers: the reference its data semantics is compared with.  It is   *)
(* written from what the instructions do, not from the code.               *)
(***************************************************************************)
EXTENDS DataSemantics

(* The machine at the start of the run, on one assignment of the inputs.   *)
PowerOn(i) ==
  [regs |-> [r \in DOMAIN CapNames |->
     IF r \in SymRegs THEN i.reg[r]
     ELSE IF r \in {"rsp", "rbp"} THEN StackTop ELSE 0],
   mem |-> [a \in Words |->
     IF a \in SymMem THEN i.mem[a]
     ELSE IF a \in DOMAIN Image THEN Image[a] ELSE 0],
   zf |-> FALSE, sf |-> FALSE, cf |-> FALSE, of |-> FALSE]

Half == WordBytes \div 2
Low(n, size) == n % 2^(size * ByteBits)
SignBit(n, size) == BitOf(n, size * ByteBits - 1) = 1
SignExtended(n, size) ==
  IF SignBit(n, size) THEN Wrap(n - 2^(size * ByteBits)) ELSE n

Family(r) == CHOOSE n \in DOMAIN CapNames : r \in CapNames[n]

Load(c, a, size) ==
  Assembled([k \in 0 .. size - 1 |-> c.mem[Wrap(a + k)]], ByteBits, size)
Store(c, a, n, size) ==
  [c EXCEPT !.mem = [b \in Words |->
     LET k == Wrap(b - a)
     IN  IF k < size THEN (n \div 2^(k * ByteBits)) % 2^ByteBits ELSE c.mem[b]]]

EffectiveAddress(c, o) ==
  LET Part(r) == IF r = NoReg THEN 0 ELSE c.regs[Family(r)]
  IN  Wrap(Part(o.base) + Part(o.index) * o.scale + o.disp)

(* A 32-bit result clears the upper half of its register, a narrower one   *)
(* leaves the rest as it was.                                              *)
Get(c, o) ==
  CASE o.kind = "imm" -> o.imm
    [] o.kind = "reg" -> Low(c.regs[Family(o.reg)], o.size)
    [] o.kind = "mem" -> Load(c, EffectiveAddress(c, o), o.size)

Put(c, o, n) ==
  IF o.kind = "mem" THEN Store(c, EffectiveAddress(c, o), n, o.size)
  ELSE LET r == Family(o.reg)
           old == c.regs[r]
           new == IF o.size \in {WordBytes, Half} THEN Low(n, o.size)
                  ELSE old - Low(old, o.size) + Low(n, o.size)
       IN  [c EXCEPT !.regs[r] = new]

Flags(c, n, size, carry, overflow) ==
  [c EXCEPT !.zf = (Low(n, size) = 0), !.sf = SignBit(Low(n, size), size),
            !.cf = carry, !.of = overflow]

AddFlags(c, x, y, size) ==
  LET n == Low(x + y, size)
  IN  Flags(c, n, size, x + y > n,
            /\ SignBit(x, size) = SignBit(y, size)
            /\ SignBit(n, size) # SignBit(x, size))
SubFlags(c, x, y, size) ==
  LET n == Low(x - y, size)
  IN  Flags(c, n, size, x < y,
            /\ SignBit(x, size) # SignBit(y, size)
            /\ SignBit(n, size) # SignBit(x, size))
LogicFlags(c, n, size) == Flags(c, n, size, FALSE, FALSE)

Result(mn, x, y) ==
  CASE mn = "add" -> x + y
    [] mn = "sub" -> Wrap(x - y)
    [] mn = "xor" -> Xor(x, y)
    [] mn = "and" -> And(x, y)
    [] mn = "or" -> Or(x, y)

(* An instruction of the kinds executeNonBranch has a case for.            *)
Perform(c, ins) ==
  LET o == ins.ops[1]
      p == ins.ops[2]
      x == Get(c, o)
      y == Low(Get(c, p), o.size)
      n == Result(ins.mn, x, y)
      rsp == c.regs["rsp"]
  IN  CASE ins.mn \in {"mov", "movzx"} -> Put(c, o, Get(c, p))
        [] ins.mn = "movsxd" -> Put(c, o, SignExtended(Get(c, p), p.size))
        [] ins.mn = "lea" -> Put(c, o, EffectiveAddress(c, p))
        [] ins.mn = "add" -> Put(AddFlags(c, x, y, o.size), o, n)
        [] ins.mn = "sub" -> Put(SubFlags(c, x, y, o.size), o, n)
        [] ins.mn \in {"xor", "and", "or"} ->
             Put(LogicFlags(c, n, o.size), o, n)
        [] ins.mn = "cmp" -> SubFlags(c, x, y, o.size)
        [] ins.mn = "test" -> LogicFlags(c, And(x, y), o.size)
        [] ins.mn = "push" ->
             [Store(c, Wrap(rsp - WordBytes), x, WordBytes)
                EXCEPT !.regs["rsp"] = Wrap(rsp - WordBytes)]
        [] ins.mn = "pop" ->
             Put([c EXCEPT !.regs["rsp"] = Wrap(rsp + WordBytes)],
                 o, Load(c, rsp, WordBytes))

(* Conditional jumps read the flags.                                       *)
Taken(c, mn) ==
  CASE mn = "je" -> c.zf
    [] mn = "jne" -> ~c.zf
    [] mn = "jb" -> c.cf
    [] mn = "ja" -> ~c.cf /\ ~c.zf
    [] mn = "jbe" -> c.cf \/ c.zf
    [] mn = "jae" -> ~c.cf
    [] mn = "jl" -> c.sf # c.of
    [] mn = "jle" -> c.zf \/ c.sf # c.of
    [] mn = "jg" -> ~c.zf /\ c.sf = c.of
    [] mn = "jge" -> c.sf = c.of
    [] mn = "js" -> c.sf
=============================================================================
