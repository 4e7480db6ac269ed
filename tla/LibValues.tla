------------------------------ MODULE LibValues ------------------------------
(***************************************************************************)
(* src/MemoryModel.cpp of the library: SymbolicValue, RegisterFile and     *)
(* MemoryModel, the data an ExecutionState of the library carries.         *)
(*                                                                         *)
(* A term is what it evaluates to under every valuation of the symbolic    *)
(* constants, so equal terms are one; the solver knows a constant by its   *)
(* name.  Every value is as wide as a register, and one unit of address    *)
(* holds one value.  z3::int_val, which gives a folded value its term, is  *)
(* taken for the numeral of that width.                                    *)
(***************************************************************************)
EXTENDS Integers, TLC

CONSTANTS
  Bits,    \* the width of a register
  Names    \* the names of the symbolic constants

(* That powers of two are positive is said for the provers, which do not   *)
(* compute with powers.                                                    *)
ASSUME BitsAssumption ==
  Bits \in Nat \ {0} /\ \A k \in 0 .. Bits : 2 ^ k \in Nat \ {0}

Size == 2 ^ Bits
Word == 0 .. Size - 1
Valuations == [Names -> Word]

Wrap(n) == n % Size
Negative(n) == n >= Size \div 2
Signed(n) == IF Negative(n) THEN n - Size ELSE n

-----------------------------------------------------------------------------
(* SymbolicValue: folded to a number, or a term.                           *)
Concrete(n) ==
  [symbolic |-> FALSE, concreteValue |-> n, at |-> [v \in Valuations |-> n]]
Term(f) == [symbolic |-> TRUE, concreteValue |-> 0, at |-> f]
makeSymbolic(name) == Term([v \in Valuations |-> v[name]])

Bit(n, k) == (n \div 2 ^ k) % 2
BitWise(n, m, T) ==
  LET Value[k \in 0 .. Bits] ==
        IF k = 0 THEN 0
        ELSE Value[k - 1]
               + (IF <<Bit(n, k - 1), Bit(m, k - 1)>> \in T THEN 2 ^ (k - 1) ELSE 0)
  IN  Value[Bits]

Bool(b) == IF b THEN 1 ELSE 0

(* What the operations compute on two numbers.  They are the same folded   *)
(* and in the solver, but for shifts, which the solver does not mask.      *)
Compute(op, n, m) ==
  CASE op = "add" -> Wrap(n + m)
    [] op = "sub" -> Wrap(n - m)
    [] op = "mul" -> Wrap(n * m)
    [] op = "and" -> BitWise(n, m, {<<1, 1>>})
    [] op = "or"  -> BitWise(n, m, {<<0, 1>>, <<1, 0>>, <<1, 1>>})
    [] op = "xor" -> BitWise(n, m, {<<0, 1>>, <<1, 0>>})
    [] op = "eq"  -> Bool(n = m)
    [] op = "ne"  -> Bool(n # m)
    [] op = "ult" -> Bool(n < m)
    [] op = "ule" -> Bool(n <= m)
    [] op = "ugt" -> Bool(n > m)
    [] op = "uge" -> Bool(n >= m)
    [] op = "slt" -> Bool(Signed(n) < Signed(m))
    [] op = "sle" -> Bool(Signed(n) <= Signed(m))
    [] op = "sgt" -> Bool(Signed(n) > Signed(m))
    [] op = "sge" -> Bool(Signed(n) >= Signed(m))

Shift(op, n, m) == IF op = "shl" THEN Wrap(n * 2 ^ m) ELSE n \div 2 ^ m
Shifts == {"shl", "lshr"}

Fold(op, n, m) ==
  IF op \in Shifts THEN Shift(op, n, m % Bits) ELSE Compute(op, n, m)
Solve(op, n, m) ==
  IF op \in Shifts THEN Shift(op, n, m) ELSE Compute(op, n, m)

Apply(op, a, b) ==
  IF a.symbolic \/ b.symbolic
  THEN Term([v \in Valuations |-> Solve(op, a.at[v], b.at[v])])
  ELSE Concrete(Fold(op, a.concreteValue, b.concreteValue))

-----------------------------------------------------------------------------
(* RegisterFile.  A write through a 32-bit name goes to the wide register  *)
(* alone; the 32-bit names are registers of their own, read as they are.   *)
Alias == [eax |-> "rax", ecx |-> "rcx", ebp |-> "rbp", esp |-> "rsp"]
Flags == {"zf", "sf", "cf", "of"}
RegisterNames ==
  DOMAIN Alias \cup {Alias[n] : n \in DOMAIN Alias} \cup Flags

initializeRegisters == [n \in RegisterNames |-> Concrete(0)]

get(regs, name) == IF name \in DOMAIN regs THEN regs[name] ELSE Concrete(0)

\* every name is a register of its own
MutSet(regs, name, value) == (name :> value) @@ regs

set(regs, name, value) ==
  LET wide == IF name \in DOMAIN Alias THEN Alias[name] ELSE name
  IN  [n \in DOMAIN regs \cup {wide} |-> IF n = wide THEN value ELSE regs[n]]

-----------------------------------------------------------------------------
(* MemoryModel: cells by address, and a stack pointer of its own.          *)
read(memory, address) ==
  IF address \in DOMAIN memory THEN memory[address] ELSE Concrete(0)

write(memory, address, value) ==
  [a \in DOMAIN memory \cup {address} |->
     IF a = address THEN value ELSE memory[a]]
=============================================================================
