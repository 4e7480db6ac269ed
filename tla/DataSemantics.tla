--------------------------- MODULE DataSemantics ---------------------------
(***************************************************************************)
(* What src/main.cpp makes of the instructions that are not branches: the  *)
(* registers, the memory and the operands of the last compare that a state *)
(* carries, and the conditions its branches read off them.                 *)
(*                                                                         *)
(* A Z3 term is modelled by its value under every assignment of the        *)
(* symbolic inputs, its width, and whether it is a numeral.  Z3 rewrites   *)
(* nothing while it builds a term: what an operation returns is never a    *)
(* numeral, be its operands numerals or not.                               *)
(*                                                                         *)
(* A byte has ByteBits bits and a word WordBytes bytes; both are 8 in the  *)
(* code.  The operand sizes are 1, WordBytes \div 2 and WordBytes.         *)
(***************************************************************************)
EXTENDS Integers, Sequences

CONSTANTS
  ByteBits, WordBytes,
  SymRegs,      (* the registers named by --sym-reg                        *)
  SymMem,       (* the addresses of the bytes named by --sym-mem           *)
  Image,        (* address -> byte: the segments of the file               *)
  StackTop      (* kStackTop                                               *)

WordBits == ByteBits * WordBytes
Words == 0 .. 2^WordBits - 1
Bytes == 0 .. 2^ByteBits - 1
Wrap(n) == n % 2^WordBits

ASSUME SizesAssumption ==
  ByteBits \in Nat \ {0} /\ WordBytes \in Nat \ {0}
(* What the provers do not know of exponents: that powers are positive and *)
(* what the power of a sum is.                                             *)
ASSUME PowersAssumption ==
  \A j \in 0 .. WordBits :
    /\ 2^j \in Nat \ {0}
    /\ \A k \in 0 .. WordBits - j : 2^(j + k) = 2^j * 2^k
ASSUME ContentsAssumption ==
  /\ SymMem \subseteq Words /\ StackTop \in Words
  /\ DOMAIN Image \subseteq Words /\ \A a \in DOMAIN Image : Image[a] \in Bytes

(* A value for each symbolic register and byte.                            *)
Assignments == [reg : [SymRegs -> Words], mem : [SymMem -> Bytes]]

-----------------------------------------------------------------------------
(* Terms.                                                                  *)

Numeral(n, bits) ==
  [bits |-> bits, numeral |-> TRUE, val |-> [i \in Assignments |-> n % 2^bits]]
Term(bits, val) == [bits |-> bits, numeral |-> FALSE, val |-> val]

Extract(e, high, low) ==
  LET bits == high - low + 1
  IN  Term(bits, [i \in Assignments |-> (e.val[i] \div 2^low) % 2^bits])

castToBits(e, bits) ==
  CASE e.bits = bits -> e
    [] e.bits < bits -> Term(bits, e.val)
    [] e.bits > bits -> Extract(e, bits - 1, 0)

asBv64(e) == castToBits(e, WordBits)

(* The number made of n digits of that many bits each, the lowest first.   *)
Assembled(digit, bits, n) ==
  LET Lowest[k \in 0 .. n] ==
        IF k = 0 THEN 0 ELSE Lowest[k - 1] + digit[k - 1] * 2^((k - 1) * bits)
  IN  Lowest[n]

(* Bitwise operations on two words.                                        *)
BitOf(n, k) == (n \div 2^k) % 2
BitwiseBy(op(_, _), x, y) ==
  Assembled([k \in 0 .. WordBits - 1 |-> op(BitOf(x, k), BitOf(y, k))],
            1, WordBits)
And(x, y) == BitwiseBy(LAMBDA a, b : a * b, x, y)
Or(x, y) == BitwiseBy(LAMBDA a, b : a + b - a * b, x, y)
Xor(x, y) == BitwiseBy(LAMBDA a, b : (a + b) % 2, x, y)

Signed(n) == IF n >= 2^(WordBits - 1) THEN n - 2^WordBits ELSE n

-----------------------------------------------------------------------------
(* AbstractValue: a term with the number it stands for, if it is concrete. *)

Concrete(n, bits) ==
  [expr |-> Numeral(n, bits), is_concrete |-> TRUE, concrete |-> n]
Symbolic(bits, val) ==
  [expr |-> Term(bits, val), is_concrete |-> FALSE, concrete |-> 0]

\* every term is taken for concrete, with its value on one of the inputs
MutFromExpr(e) ==
  [expr |-> e, is_concrete |-> TRUE,
   concrete |-> e.val[CHOOSE i \in Assignments : TRUE]]

fromExpr(e) ==
  [expr |-> e, is_concrete |-> e.numeral,
   concrete |-> IF e.numeral THEN e.val[CHOOSE i \in Assignments : TRUE] ELSE 0]

-----------------------------------------------------------------------------
(* MemoryModel: bytes by address; what is not there reads as 0.  The list  *)
(* of mapped regions is kept and never asked.                              *)

ByteAt(mem, a) ==
  IF a \in DOMAIN mem THEN mem[a].expr ELSE Numeral(0, ByteBits)

(* The loop of read extracts the bits from 8 up of the bytes gathered so   *)
(* far.  When one byte is read there are none, and Z3 throws.              *)
ReadThrows(size) == size = 1

MemRead(mem, a, size) ==
  fromExpr(Term(size * ByteBits,
    [i \in Assignments |->
       Assembled([k \in 0 .. size - 1 |-> ByteAt(mem, Wrap(a + k)).val[i]],
                 ByteBits, size)]))

\* the most significant byte first
MutMemWrite(mem, a, v, size) ==
  LET e == castToBits(v.expr, size * ByteBits)
      Written == {Wrap(a + k) : k \in 0 .. size - 1}
      ByteFor(b) == LET k == size - 1 - Wrap(b - a)
                    IN  Extract(e, (k + 1) * ByteBits - 1, k * ByteBits)
  IN  [b \in DOMAIN mem \cup Written |->
         IF b \in Written THEN fromExpr(ByteFor(b)) ELSE mem[b]]

MemWrite(mem, a, v, size) ==
  LET e == castToBits(v.expr, size * ByteBits)
      Written == {Wrap(a + k) : k \in 0 .. size - 1}
      ByteFor(b) == LET k == Wrap(b - a)
                    IN  Extract(e, (k + 1) * ByteBits - 1, k * ByteBits)
  IN  [b \in DOMAIN mem \cup Written |->
         IF b \in Written THEN fromExpr(ByteFor(b)) ELSE mem[b]]

-----------------------------------------------------------------------------
(* Registers.                                                              *)

(* capRegName: the names Capstone may give each register.  A name that is  *)
(* not here, rip, ah, r8w, sil and the vector registers among them, is     *)
(* mapped to the empty string, one more register that all of them share.   *)
CapNames ==
  [rax |-> {"rax", "eax", "ax", "al"}, rbx |-> {"rbx", "ebx", "bx", "bl"},
   rcx |-> {"rcx", "ecx", "cx", "cl"}, rdx |-> {"rdx", "edx", "dx", "dl"},
   rsi |-> {"rsi", "esi"}, rdi |-> {"rdi", "edi"},
   rbp |-> {"rbp", "ebp"}, rsp |-> {"rsp", "esp"},
   r8 |-> {"r8", "r8d"}, r9 |-> {"r9", "r9d"}, r10 |-> {"r10", "r10d"},
   r11 |-> {"r11", "r11d"}, r12 |-> {"r12", "r12d"}, r13 |-> {"r13", "r13d"},
   r14 |-> {"r14", "r14d"}, r15 |-> {"r15", "r15d"}]

capRegName(r) ==
  IF \E n \in DOMAIN CapNames : r \in CapNames[n]
  THEN CHOOSE n \in DOMAIN CapNames : r \in CapNames[n]
  ELSE ""

(* makeInitialState gives a value to every register and puts the symbolic  *)
(* ones in by the name the user gave; a name it has not is one more key.   *)
(* getReg adds a missing register with value 0, which is to start with it. *)
RegKeys == DOMAIN CapNames \cup {""} \cup SymRegs

InitialData ==
  [regs |-> [r \in RegKeys |->
     IF r \in SymRegs THEN Symbolic(WordBits, [i \in Assignments |-> i.reg[r]])
     ELSE Concrete(IF r \in {"rsp", "rbp"} THEN StackTop ELSE 0, WordBits)],
   mem |-> [a \in DOMAIN Image \cup SymMem |->
     IF a \in SymMem THEN Symbolic(ByteBits, [i \in Assignments |-> i.mem[a]])
     ELSE Concrete(Image[a], ByteBits)],
   cmp_l |-> << >>, cmp_r |-> << >>]

getReg(d, r) == d.regs[capRegName(r)]
setReg(d, r, v) == [d EXCEPT !.regs[capRegName(r)] = v]

-----------------------------------------------------------------------------
(* Operands: registers, immediates and memory.                             *)

Reg(r, size) == [kind |-> "reg", reg |-> r, size |-> size]
Imm(n) == [kind |-> "imm", imm |-> n, size |-> WordBytes]
Mem(base, index, scale, disp, size) ==
  [kind |-> "mem", base |-> base, index |-> index, scale |-> scale,
   disp |-> disp, size |-> size]

NoReg == "none"

(* A register that is not concrete counts as 0.                            *)
NumberIn(d, r) ==
  IF r # NoReg /\ getReg(d, r).is_concrete THEN getReg(d, r).concrete ELSE 0

memAddr(d, o) ==
  Wrap(NumberIn(d, o.base) + NumberIn(d, o.index) * o.scale + o.disp)

readOperand(d, o) ==
  CASE o.kind = "imm" -> Concrete(o.imm, WordBits)
    [] o.kind = "reg" -> getReg(d, o.reg)
    [] o.kind = "mem" -> MemRead(d.mem, memAddr(d, o), o.size)

(* A register takes the value as it is, whatever the size of the operand.  *)
writeOperand(d, o, v) ==
  CASE o.kind = "reg" -> setReg(d, o.reg, v)
    [] o.kind = "mem" ->
         [d EXCEPT !.mem = MemWrite(@, memAddr(d, o), v, o.size)]
    [] OTHER -> d

-----------------------------------------------------------------------------
(* executeNonBranch, one operator per group of mnemonics.                  *)

Move(d, ins) == writeOperand(d, ins.ops[1], readOperand(d, ins.ops[2]))

LoadAddress(d, ins) ==
  writeOperand(d, ins.ops[1], Concrete(memAddr(d, ins.ops[2]), WordBits))

Word(v) == asBv64(v.expr).val

\* subtraction the other way around
MutCompute(mn, x, y) ==
  CASE mn = "add" -> Wrap(x + y) [] mn = "sub" -> Wrap(y - x)
    [] mn = "xor" -> Xor(x, y) [] mn = "and" -> And(x, y)
    [] mn = "or" -> Or(x, y)

Compute(mn, x, y) ==
  CASE mn = "add" -> Wrap(x + y) [] mn = "sub" -> Wrap(x - y)
    [] mn = "xor" -> Xor(x, y) [] mn = "and" -> And(x, y)
    [] mn = "or" -> Or(x, y)

Combine(d, mn, o, p) ==
  LET a == Word(readOperand(d, o))
      b == Word(readOperand(d, p))
  IN  fromExpr(Term(WordBits, [i \in Assignments |-> Compute(mn, a[i], b[i])]))

Arithmetic(d, ins) ==
  writeOperand(d, ins.ops[1], Combine(d, ins.mn, ins.ops[1], ins.ops[2]))

Compare(d, ins) ==
  [d EXCEPT !.cmp_l = <<readOperand(d, ins.ops[1])>>,
            !.cmp_r = <<readOperand(d, ins.ops[2])>>]

\* the left operand is missing
MutTest(d, ins) ==
  [d EXCEPT !.cmp_r = <<Combine(d, "and", ins.ops[1], ins.ops[2])>>]

(* test keeps its left operand and stores the conjunction as the right.    *)
Test(d, ins) ==
  [d EXCEPT !.cmp_l = <<readOperand(d, ins.ops[1])>>,
            !.cmp_r = <<Combine(d, "and", ins.ops[1], ins.ops[2])>>]

StackMoved(d, mn) == Combine(d, mn, Reg("rsp", WordBytes), Imm(WordBytes))

\* the stack grows upwards
MutPush(d, ins) == setReg(d, "rsp", StackMoved(d, "add"))

(* The value is stored, and by pop loaded, only if the pointer is concrete.*)
Push(d, ins) ==
  LET v == readOperand(d, ins.ops[1])
      new_rsp == StackMoved(d, "sub")
      e == setReg(d, "rsp", new_rsp)
  IN  IF new_rsp.is_concrete
      THEN [e EXCEPT !.mem = MemWrite(@, new_rsp.concrete, v, WordBytes)]
      ELSE e

Pop(d, ins) ==
  LET rsp == getReg(d, "rsp")
      e == IF rsp.is_concrete
           THEN writeOperand(d, ins.ops[1],
                             MemRead(d.mem, rsp.concrete, WordBytes))
           ELSE d
  IN  setReg(e, "rsp", StackMoved(d, "add"))

(* Any other mnemonic changes nothing.                                     *)
executeNonBranch(d, ins) ==
  CASE ins.mn \in {"mov", "movzx", "movsxd"} -> Move(d, ins)
    [] ins.mn = "lea" /\ ins.ops[2].kind = "mem" -> LoadAddress(d, ins)
    [] ins.mn \in {"add", "sub", "xor", "and", "or"} -> Arithmetic(d, ins)
    [] ins.mn = "cmp" -> Compare(d, ins)
    [] ins.mn = "test" -> Test(d, ins)
    [] ins.mn = "push" -> Push(d, ins)
    [] ins.mn = "pop" -> Pop(d, ins)
    [] OTHER -> d

(* The operands an instruction reads.                                      *)
OperandsRead(ins) ==
  CASE ins.mn \in {"mov", "movzx", "movsxd"} -> {ins.ops[2]}
    [] ins.mn \in {"add", "sub", "xor", "and", "or", "cmp", "test"} ->
         {ins.ops[1], ins.ops[2]}
    [] ins.mn = "push" -> {ins.ops[1]}
    [] OTHER -> {}

Rejected(ins) ==
  \E o \in OperandsRead(ins) : o.kind = "mem" /\ ReadThrows(o.size)

-----------------------------------------------------------------------------
\* the signed comparisons are made on unsigned numbers
MutHolds(mn, a, b) ==
  CASE mn \in {"je", "jz"} -> a = b
    [] mn \in {"jne", "jnz"} -> a # b
    [] mn \in {"jb", "jc", "jnae", "jl", "jnge"} -> a < b
    [] mn \in {"ja", "jnbe", "jg", "jnle"} -> a > b
    [] mn \in {"jbe", "jna", "jle", "jng"} -> a <= b
    [] mn \in {"jae", "jnb", "jnc", "jge", "jnl"} -> a >= b
    [] OTHER -> TRUE

Holds(mn, a, b) ==
  CASE mn \in {"je", "jz"} -> a = b
    [] mn \in {"jne", "jnz"} -> a # b
    [] mn \in {"jb", "jc", "jnae"} -> a < b
    [] mn \in {"ja", "jnbe"} -> a > b
    [] mn \in {"jbe", "jna"} -> a <= b
    [] mn \in {"jae", "jnb", "jnc"} -> a >= b
    [] mn \in {"jl", "jnge"} -> Signed(a) < Signed(b)
    [] mn \in {"jle", "jng"} -> Signed(a) <= Signed(b)
    [] mn \in {"jg", "jnle"} -> Signed(a) > Signed(b)
    [] mn \in {"jge", "jnl"} -> Signed(a) >= Signed(b)
    [] OTHER -> TRUE

(* The inputs on which a branch with this mnemonic is taken.               *)
branchCondition(d, mn) ==
  LET Side(c) == IF c = << >> THEN Numeral(0, WordBits).val ELSE Word(c[1])
      a == Side(d.cmp_l)
      b == Side(d.cmp_r)
  IN  {i \in Assignments : Holds(mn, a[i], b[i])}
=============================================================================
