--------------------------- MODULE DataPathProofs ---------------------------
(***************************************************************************)
(* What holds of the data semantics for every width of a word, every set   *)
(* of instructions and every choice of the symbolic inputs.                *)
(***************************************************************************)
EXTENDS DataPath, NatRecursion

Fields == {"regs", "mem", "cmp_l", "cmp_r"}

(* A value that counts as concrete is its number on every input.           *)
Constant(v) ==
  v.is_concrete =>
    v.concrete \in Nat /\ \A i \in Assignments : v.expr.val[i] = v.concrete

Sound(d) ==
  /\ DOMAIN d = Fields
  /\ DOMAIN d.regs = RegKeys
  /\ \A r \in RegKeys : Constant(d.regs[r])
  /\ \A a \in DOMAIN d.mem : Constant(d.mem[a])

DataInv == Sound(data)

-----------------------------------------------------------------------------
(* Powers of two.                                                          *)

(* A byte, or several of them, fits into a word.                           *)
LEMMA BytesFit ==
  ASSUME NEW k \in 0 .. WordBytes
  PROVE  /\ WordBits \in Nat \ {0} /\ k * ByteBits \in 0 .. WordBits
         /\ WordBytes * ByteBits = WordBits
<1>1. PICK b \in Nat \ {0}, n \in Nat \ {0} : b = ByteBits /\ n = WordBytes
  BY SizesAssumption
<1>2. n * b = b * n /\ b * n \in Nat \ {0}
  OBVIOUS
<1>3. k \in Nat /\ n - k \in Nat
  BY <1>1
<1>4. k * b \in Nat /\ (n - k) * b \in Nat /\ n * b = k * b + (n - k) * b
  BY <1>3
<1>5. QED
  BY <1>1, <1>2, <1>4 DEF WordBits

LEMMA PowersPositive ==
  /\ 2^WordBits \in Nat \ {0} /\ 2^ByteBits \in Nat \ {0}
  /\ \A k \in 0 .. WordBytes : 2^(k * ByteBits) \in Nat \ {0}
<1>1. 0 \in 0 .. WordBytes /\ 1 \in 0 .. WordBytes /\ 1 * ByteBits = ByteBits
  BY SizesAssumption
<1>2. WordBits \in 0 .. WordBits /\ ByteBits \in 0 .. WordBits
  BY <1>1, BytesFit
<1>3. QED
  BY <1>2, BytesFit, PowersAssumption

LEMMA PowersGrow ==
  ASSUME NEW j \in 0 .. WordBits, NEW k \in 0 .. j
  PROVE  /\ 2^j \in Nat \ {0} /\ 2^k \in Nat \ {0} /\ 2^(j - k) \in Nat \ {0}
         /\ 2^j = 2^k * 2^(j - k) /\ 2^k <= 2^j
<1>1. /\ WordBits \in Nat /\ k \in 0 .. WordBits /\ j - k \in 0 .. WordBits - k
      /\ j - k \in 0 .. WordBits /\ k + (j - k) = j
  <2>1. 0 \in 0 .. WordBytes
    BY SizesAssumption
  <2>2. WordBits \in Nat
    BY <2>1, BytesFit
  <2>3. QED
    BY <2>2
<1>2. PICK x \in Nat \ {0}, y \in Nat \ {0} : x = 2^k /\ y = 2^(j - k)
  BY <1>1, PowersAssumption
<1>3. 2^(k + (j - k)) = x * y
  BY <1>1, <1>2, PowersAssumption
<1>4. 2^j = x * y /\ 2^j \in Nat \ {0}
  BY <1>1, <1>3, PowersAssumption
<1>5. x <= x * y
  OBVIOUS
<1>6. QED
  BY <1>2, <1>4, <1>5

-----------------------------------------------------------------------------
(* Numbers made of digits.                                                 *)

LEMMA AssembledSums ==
  ASSUME NEW digit, NEW bits, NEW n \in Nat
  PROVE  \E f : /\ f[0] = 0 /\ Assembled(digit, bits, n) = f[n]
                /\ \A k \in 1 .. n :
                     f[k] = f[k - 1] + digit[k - 1] * 2^((k - 1) * bits)
<1> DEFINE t == [k \in 1 .. n |-> digit[k - 1] * 2^((k - 1) * bits)]
           Sums(h) == h = [k \in 0 .. n |->
             IF k = 0 THEN 0 ELSE h[k - 1] + digit[k - 1] * 2^((k - 1) * bits)]
<1>1. ASSUME NEW h PROVE PartialSums(t, n, h) <=> Sums(h)
  <2>1. \A k \in 0 .. n : k # 0 => t[k] = digit[k - 1] * 2^((k - 1) * bits)
    OBVIOUS
  <2> HIDE DEF t
  <2>2. [k \in 0 .. n |-> IF k = 0 THEN 0 ELSE h[k - 1] + t[k]]
          = [k \in 0 .. n |-> IF k = 0 THEN 0
               ELSE h[k - 1] + digit[k - 1] * 2^((k - 1) * bits)]
    BY <2>1
  <2>3. QED
    BY <2>2 DEF PartialSums
<1>2. \E h : Sums(h)
  <2> HIDE DEF t, Sums
  <2>1. QED
    BY <1>1, PartialSumsExist
<1>3. PICK f : f = CHOOSE h : Sums(h)
  OBVIOUS
<1>4. Sums(f)
  BY <1>2, <1>3
<1>5. Assembled(digit, bits, n) = f[n]
  BY <1>3 DEF Assembled
<1>6. f[0] = 0 /\ \A k \in 1 .. n :
                    f[k] = f[k - 1] + digit[k - 1] * 2^((k - 1) * bits)
  BY <1>4
<1>7. QED
  BY <1>5, <1>6

(* Digits that fit their width make a number that fits its width.          *)
LEMMA AssembledFits ==
  ASSUME NEW bits \in Nat \ {0}, NEW n \in Nat, n * bits \in 0 .. WordBits,
         NEW digit, \A k \in 0 .. n - 1 : digit[k] \in 0 .. 2^bits - 1
  PROVE  Assembled(digit, bits, n) \in 0 .. 2^(n * bits) - 1
<1>1. PICK f : /\ f[0] = 0 /\ Assembled(digit, bits, n) = f[n]
               /\ \A k \in 1 .. n :
                    f[k] = f[k - 1] + digit[k - 1] * 2^((k - 1) * bits)
  BY AssembledSums
<1> DEFINE S == {m \in Nat : m <= n => f[m] \in 0 .. 2^(m * bits) - 1}
<1>2. 0 \in S
  <2>1. 0 * bits = 0 /\ 2^0 = 1
    OBVIOUS
  <2>2. 2^(0 * bits) = 1
    BY <2>1
  <2>3. f[0] \in 0 .. 2^(0 * bits) - 1
    BY <1>1, <2>2
  <2>4. QED
    BY <2>3
<1>3. ASSUME NEW m \in Nat, m \in S PROVE m + 1 \in S
  <2>1. SUFFICES ASSUME m + 1 <= n PROVE f[m + 1] \in 0 .. 2^((m + 1) * bits) - 1
    BY <1>3
  <2>2. PICK j \in Nat, k \in Nat :
          j = (m + 1) * bits /\ k = m * bits /\ j = k + bits
    OBVIOUS
  <2>3. j \in 0 .. WordBits
    <3>1. PICK r \in Nat : r = n - (m + 1) /\ n = r + (m + 1)
      BY <2>1
    <3>2. n * bits = r * bits + j /\ r * bits \in Nat
      BY <2>2, <3>1
    <3>3. 0 \in 0 .. WordBytes
      BY SizesAssumption
    <3>4. WordBits \in Nat /\ n * bits \in Nat /\ n * bits <= WordBits
      BY <3>3, BytesFit
    <3>5. QED
      BY <3>2, <3>4
  <2>4. PICK x \in Nat \ {0}, b \in Nat \ {0} :
          x = 2^k /\ b = 2^bits /\ 2^j = x * b
    <3>1. k \in 0 .. j /\ j - k = bits
      BY <2>2
    <3>2. QED
      BY <2>3, <3>1, PowersGrow
  <2>5. PICK d \in 0 .. b - 1 : d = digit[m]
    BY <2>1, <2>4
  <2>6. f[m + 1] = f[m] + d * x
    <3>1. m + 1 \in 1 .. n /\ (m + 1) - 1 = m
      BY <2>1
    <3>2. QED
      BY <1>1, <2>2, <2>4, <2>5, <3>1
  <2>7. f[m] \in 0 .. x - 1
    BY <1>3, <2>1, <2>2, <2>4
  <2>8. f[m] + d * x \in 0 .. x * b - 1
    <3>1. PICK e \in Nat : e = (b - 1) - d /\ b = d + e + 1
      BY <2>5
    <3>2. x * b = d * x + e * x + x /\ e * x \in Nat /\ d * x \in Nat
      BY <2>5, <3>1
    <3>3. QED
      BY <2>5, <2>7, <3>2
  <2>9. QED
    BY <2>2, <2>4, <2>6, <2>8
<1>4. \A m \in Nat : m \in S
  <2> HIDE DEF S
  <2>1. QED
    BY <1>2, <1>3, Induction
<1>5. QED
  BY <1>1, <1>4

-----------------------------------------------------------------------------
(* Values.                                                                 *)

LEMMA WrapsToWord == ASSUME NEW n \in Int PROVE Wrap(n) \in Words
  BY PowersPositive DEF Wrap, Words

LEMMA WordIsItself ==
  ASSUME NEW M \in Nat \ {0}, NEW n \in 0 .. M - 1 PROVE n % M = n
  OBVIOUS

(* A number that fits its width is a constant; what an operation builds is *)
(* not concrete.                                                           *)
LEMMA ConcreteConstant ==
  ASSUME NEW n, NEW bits, 2^bits \in Nat \ {0}, n \in 0 .. 2^bits - 1
  PROVE  Constant(Concrete(n, bits))
  <1>1. n % 2^bits = n
    BY WordIsItself
  <1>2. \A i \in Assignments : Concrete(n, bits).expr.val[i] = n
    BY <1>1 DEF Concrete, Numeral
  <1> QED
    BY <1>2 DEF Constant, Concrete

LEMMA WordConstant ==
  ASSUME NEW n \in Words PROVE Constant(Concrete(n, WordBits))
  BY ConcreteConstant, PowersPositive DEF Words

LEMMA TermsAreSymbolic ==
  ASSUME NEW bits, NEW val
  PROVE  fromExpr(Term(bits, val)).is_concrete = FALSE
  BY DEF fromExpr, Term

LEMMA SymbolicConstant ==
  ASSUME NEW v, v.is_concrete = FALSE PROVE Constant(v)
  BY DEF Constant

-----------------------------------------------------------------------------
(* A bit is 0 or 1, so what is made of bits is a word.                     *)
LEMMA BitIsBit ==
  ASSUME NEW x \in Int, NEW k \in 0 .. WordBits - 1
  PROVE  BitOf(x, k) = 0 \/ BitOf(x, k) = 1
<1>1. k \in 0 .. WordBits
  <2>1. 0 \in 0 .. WordBytes
    BY SizesAssumption
  <2>2. WordBits \in Nat
    BY <2>1, BytesFit
  <2>3. QED
    BY <2>2
<1>2. PICK m \in Nat \ {0} : m = 2^k
  BY <1>1, PowersAssumption
<1>3. PICK q \in Int : q = x \div m
  BY DividesWithRest
<1>4. QED
  BY <1>2, <1>3 DEF BitOf

LEMMA BitsMakeWord ==
  ASSUME NEW digit,
         \A k \in 0 .. WordBits - 1 : digit[k] = 0 \/ digit[k] = 1
  PROVE  Assembled(digit, 1, WordBits) \in Words
<1>1. PICK n \in Nat \ {0}, b \in Nat \ {0} : n = WordBits /\ b = 1
  <2>1. 0 \in 0 .. WordBytes
    BY SizesAssumption
  <2>2. QED
    BY <2>1, BytesFit
<1>2. n * b = n /\ n * b \in 0 .. WordBits /\ 2^b = 2
  BY <1>1
<1>3. \A k \in 0 .. n - 1 : digit[k] \in 0 .. 2^b - 1
  BY <1>1, <1>2
<1>4. Assembled(digit, b, n) \in 0 .. 2^(n * b) - 1
  BY <1>2, <1>3, AssembledFits
<1>5. QED
  BY <1>1, <1>2, <1>4 DEF Words

LEMMA BitwiseIsWord ==
  ASSUME NEW x \in Int, NEW y \in Int
  PROVE  And(x, y) \in Words /\ Or(x, y) \in Words /\ Xor(x, y) \in Words
<1> DEFINE a == [k \in 0 .. WordBits - 1 |-> BitOf(x, k) * BitOf(y, k)]
           o == [k \in 0 .. WordBits - 1 |->
                   BitOf(x, k) + BitOf(y, k) - BitOf(x, k) * BitOf(y, k)]
           e == [k \in 0 .. WordBits - 1 |-> (BitOf(x, k) + BitOf(y, k)) % 2]
<1>1. ASSUME NEW k \in 0 .. WordBits - 1
      PROVE  /\ a[k] = 0 \/ a[k] = 1
             /\ o[k] = 0 \/ o[k] = 1
             /\ e[k] = 0 \/ e[k] = 1
  <2>1. /\ BitOf(x, k) = 0 \/ BitOf(x, k) = 1
        /\ BitOf(y, k) = 0 \/ BitOf(y, k) = 1
    BY BitIsBit
  <2>2. QED
    BY <2>1
<1>2. /\ And(x, y) = Assembled(a, 1, WordBits)
      /\ Or(x, y) = Assembled(o, 1, WordBits)
      /\ Xor(x, y) = Assembled(e, 1, WordBits)
  BY DEF And, Or, Xor, BitwiseBy
<1> HIDE DEF a, o, e
<1>3. QED
  BY <1>1, <1>2, BitsMakeWord

LEMMA ComputesWord ==
  ASSUME NEW x \in Int, NEW y \in Int,
         NEW mn \in {"add", "sub", "xor", "and", "or"}
  PROVE  Compute(mn, x, y) \in Words
<1>1. PICK s \in Int, t \in Int : s = x + y /\ t = x - y
  OBVIOUS
<1>2. Wrap(s) \in Words /\ Wrap(t) \in Words
  BY WrapsToWord
<1>3. QED
  BY <1>1, <1>2, BitwiseIsWord DEF Compute

-----------------------------------------------------------------------------
(* Terms.                                                                  *)

Widths == {s * ByteBits : s \in 1 .. WordBytes}

LEMMA WidthsFit ==
  /\ ByteBits \in Widths /\ WordBits \in Widths
  /\ \A s \in 1 .. WordBytes : s * ByteBits \in Widths
  /\ \A b \in Widths : b \in 1 .. WordBits /\ 2^b \in Nat \ {0}
<1>1. 1 \in 1 .. WordBytes /\ WordBytes \in 1 .. WordBytes /\ 1 * ByteBits = ByteBits
  BY SizesAssumption
<1>2. WordBits = WordBytes * ByteBits
  BY <1>1, BytesFit
<1>3. ASSUME NEW s \in 1 .. WordBytes
      PROVE  s * ByteBits \in 1 .. WordBits /\ 2^(s * ByteBits) \in Nat \ {0}
  <2>1. PICK b \in Nat \ {0} : b = ByteBits
    BY SizesAssumption
  <2>2. s \in 0 .. WordBytes /\ s \in Nat \ {0}
    BY SizesAssumption
  <2>3. s * b \in Nat \ {0}
    BY <2>2
  <2>4. WordBits \in Nat \ {0} /\ s * ByteBits \in 0 .. WordBits
    BY <2>2, BytesFit
  <2>5. QED
    BY <2>1, <2>2, <2>3, <2>4, PowersPositive
<1>4. QED
  BY <1>1, <1>2, <1>3 DEF Widths

LEMMA NumeralIsTerm ==
  ASSUME NEW n \in Int, NEW bits \in Widths
  PROVE  IsTerm(Numeral(n, bits), {bits})
<1>1. PICK m \in Nat \ {0} : m = 2^bits
  BY WidthsFit
<1>2. QED
  BY <1>1 DEF IsTerm, Numeral

LEMMA ExtractIsTerm ==
  ASSUME NEW e, \A i \in Assignments : e.val[i] \in Int,
         NEW high \in Int, NEW low \in 0 .. WordBits, high - low + 1 \in Widths
  PROVE  IsTerm(Extract(e, high, low), {high - low + 1})
<1>1. PICK m \in Nat \ {0} : m = 2^low
  BY PowersAssumption
<1>2. PICK b \in Widths, n \in Nat \ {0} : b = high - low + 1 /\ n = 2^b
  BY WidthsFit
<1>3. \A i \in Assignments : (e.val[i] \div m) % n \in 0 .. n - 1
  BY DividesWithRest
<1>4. QED
  BY <1>1, <1>2, <1>3 DEF IsTerm, Extract, Term

(* A cast keeps the lowest bits, whether it cuts off or adds zeros.        *)
LEMMA CastKeepsLowest ==
  ASSUME NEW e, IsTerm(e, Widths), NEW bits \in Widths
  PROVE  /\ IsTerm(castToBits(e, bits), {bits})
         /\ \A i \in Assignments : castToBits(e, bits).val[i] = e.val[i] % 2^bits
<1>1. PICK b \in Widths, m \in Nat \ {0}, n \in Nat \ {0} :
        b = e.bits /\ m = 2^b /\ n = 2^bits
  BY WidthsFit DEF IsTerm
<1>2. /\ b \in Nat /\ bits \in Nat /\ WordBits \in Nat
      /\ b \in 0 .. WordBits /\ bits \in 0 .. WordBits
  BY WidthsFit
<1>3. /\ DOMAIN e.val = Assignments
      /\ \A i \in Assignments : e.val[i] \in 0 .. m - 1 /\ e.val[i] \in Int
  BY <1>1 DEF IsTerm
<1>4. CASE b <= bits
  <2>1. m <= n
    <3>1. b \in 0 .. bits
      BY <1>2, <1>4
    <3>2. QED
      BY <1>1, <1>2, <3>1, PowersGrow
  <2>2. castToBits(e, bits).bits = bits /\ castToBits(e, bits).val = e.val
    BY <1>1, <1>2, <1>4 DEF castToBits, Term
  <2>3. \A i \in Assignments : e.val[i] \in 0 .. n - 1
    BY <1>3, <2>1
  <2>4. \A i \in Assignments : e.val[i] % n = e.val[i]
    BY <2>3, WordIsItself
  <2>5. QED
    BY <1>1, <1>3, <2>2, <2>3, <2>4 DEF IsTerm
<1>5. CASE b > bits
  <2>1. castToBits(e, bits) = Extract(e, bits - 1, 0)
    BY <1>1, <1>2, <1>5 DEF castToBits
  <2>2. PICK h \in Int, z \in Int : h = bits - 1 /\ z = 0
    BY <1>2
  <2>3. h - z + 1 = bits /\ 2^z = 1 /\ z \in 0 .. WordBits
    <3>1. 2^0 = 1
      OBVIOUS
    <3>2. 2^z = 1
      BY <2>2, <3>1
    <3>3. h - z + 1 = bits /\ z \in 0 .. WordBits
      BY <1>2, <2>2
    <3>4. QED
      BY <3>2, <3>3
  <2>4. IsTerm(Extract(e, h, z), {bits})
    BY <1>3, <2>3, ExtractIsTerm
  <2>5. \A i \in Assignments : e.val[i] \div 1 = e.val[i]
    BY <1>3
  <2>6. \A i \in Assignments : Extract(e, h, z).val[i] = e.val[i] % 2^bits
    BY <2>3, <2>5 DEF Extract, Term
  <2>7. QED
    BY <2>1, <2>2, <2>4, <2>6
<1>6. QED
  BY <1>2, <1>4, <1>5

LEMMA WordOfTerm ==
  ASSUME NEW v, IsTerm(v.expr, Widths)
  PROVE  /\ DOMAIN Word(v) = Assignments
         /\ \A i \in Assignments :
              Word(v)[i] = v.expr.val[i] /\ Word(v)[i] \in Words
<1>1. /\ IsTerm(castToBits(v.expr, WordBits), {WordBits})
      /\ \A i \in Assignments :
           castToBits(v.expr, WordBits).val[i] = v.expr.val[i] % 2^WordBits
  BY WidthsFit, CastKeepsLowest
<1>2. PICK m \in Nat \ {0}, n \in Nat \ {0} :
        m = 2^v.expr.bits /\ n = 2^WordBits /\ m <= n
  <2>1. PICK b \in Widths : b = v.expr.bits
    BY DEF IsTerm
  <2>2. b \in 0 .. WordBits /\ WordBits \in 0 .. WordBits
    BY WidthsFit
  <2>3. QED
    BY <2>1, <2>2, PowersGrow
<1>3. ASSUME NEW i \in Assignments
      PROVE  v.expr.val[i] % 2^WordBits = v.expr.val[i]
  <2>1. v.expr.val[i] \in 0 .. n - 1
    BY <1>2 DEF IsTerm
  <2>2. QED
    BY <1>2, <2>1, WordIsItself
<1>4. QED
  BY <1>1, <1>3 DEF Word, asBv64, IsTerm, Words

-----------------------------------------------------------------------------
(* Registers, memory and operands.                                         *)

LEMMA KeysNamed == ASSUME NEW r PROVE capRegName(r) \in RegKeys
  BY DEF capRegName, RegKeys

LEMMA RegSound == ASSUME NEW d, Sound(d), NEW r PROVE Constant(getReg(d, r))
  BY KeysNamed DEF Sound, getReg

LEMMA SetRegSound ==
  ASSUME NEW d, Sound(d), NEW r, NEW v, Constant(v)
  PROVE  Sound(setReg(d, r, v)) /\ setReg(d, r, v).mem = d.mem
  BY KeysNamed DEF Sound, setReg, Fields

LEMMA WriteConstant ==
  ASSUME NEW mem, \A a \in DOMAIN mem : Constant(mem[a]),
         NEW a, NEW v, NEW size,
         NEW b \in DOMAIN MemWrite(mem, a, v, size)
  PROVE  Constant(MemWrite(mem, a, v, size)[b])
  BY TermsAreSymbolic, SymbolicConstant DEF MemWrite, Extract

LEMMA WriteSound ==
  ASSUME NEW d, Sound(d), NEW a, NEW v, NEW size
  PROVE  Sound([d EXCEPT !.mem = MemWrite(@, a, v, size)])
  BY WriteConstant DEF Sound, Fields

(* An operand the instructions may have.                                   *)
Legal(o) ==
  /\ o.kind \in {"reg", "imm", "mem"} /\ o.size \in 1 .. WordBytes
  /\ o.kind = "imm" => o.imm \in Words
  /\ o.kind = "mem" => o.disp \in Int /\ o.scale \in Int

(* One that can be read, the word the stack pointer is moved by included.  *)
Readable(o) ==
  /\ o.kind \in {"reg", "imm", "mem"} /\ o.size \in 1 .. WordBytes
  /\ o.kind = "imm" => o.imm \in Int

LEMMA LegalIsReadable == ASSUME NEW o, Legal(o) PROVE Readable(o)
  BY PowersPositive DEF Legal, Readable, Words

LEMMA NumberIsNatural ==
  ASSUME NEW d, Sound(d), NEW r PROVE NumberIn(d, r) \in Nat
  BY RegSound DEF NumberIn, Constant

LEMMA AddressIsWord ==
  ASSUME NEW d, Sound(d), NEW o, o.disp \in Int, o.scale \in Int
  PROVE  memAddr(d, o) \in Words
  <1>1. PICK m \in Nat : m = NumberIn(d, o.base)
    BY NumberIsNatural
  <1>2. PICK n \in Nat : n = NumberIn(d, o.index)
    BY NumberIsNatural
  <1>3. PICK k \in Int : k = n * o.scale
    OBVIOUS
  <1>4. m + k + o.disp \in Int
    OBVIOUS
  <1> QED
    BY <1>1, <1>2, <1>3, <1>4, WrapsToWord DEF memAddr

LEMMA ReadConstant ==
  ASSUME NEW d, Sound(d), NEW o, Legal(o) PROVE Constant(readOperand(d, o))
  <1>1. CASE o.kind = "imm"
    BY <1>1, WordConstant DEF readOperand, Legal
  <1>2. CASE o.kind = "reg"
    BY <1>2, RegSound DEF readOperand
  <1>3. CASE o.kind = "mem"
    BY <1>3, TermsAreSymbolic, SymbolicConstant DEF readOperand, MemRead
  <1> QED
    BY <1>1, <1>2, <1>3 DEF Legal

LEMMA OperandSound ==
  ASSUME NEW d, Sound(d), NEW o, Legal(o), NEW v, Constant(v)
  PROVE  /\ Sound(writeOperand(d, o, v))
         /\ o.kind # "mem" => writeOperand(d, o, v).mem = d.mem
  <1>1. CASE o.kind = "imm"
    BY <1>1 DEF writeOperand
  <1>2. CASE o.kind = "reg"
    BY <1>2, SetRegSound DEF writeOperand
  <1>3. CASE o.kind = "mem"
    BY <1>3, WriteSound DEF writeOperand
  <1> QED
    BY <1>1, <1>2, <1>3 DEF Legal

LEMMA CombineConstant ==
  ASSUME NEW d, NEW mn, NEW o, NEW p
  PROVE  /\ Combine(d, mn, o, p).is_concrete = FALSE
         /\ Constant(Combine(d, mn, o, p))
  <1>1. Combine(d, mn, o, p).is_concrete = FALSE
    BY TermsAreSymbolic DEF Combine
  <1> QED
    BY <1>1, SymbolicConstant

-----------------------------------------------------------------------------
(* Widths: what the registers, the memory and the last compare hold.       *)

Formed(d) ==
  /\ \A r \in RegKeys : IsTerm(d.regs[r].expr, Widths)
  /\ \A a \in DOMAIN d.mem : a \in Words /\ IsTerm(d.mem[a].expr, {ByteBits})
  /\ \/ d.cmp_l = << >> /\ d.cmp_r = << >>
     \/ \E v, w : /\ d.cmp_l = <<v>> /\ d.cmp_r = <<w>>
                  /\ IsTerm(v.expr, Widths) /\ IsTerm(w.expr, Widths)

LEMMA Exprs ==
  ASSUME NEW e PROVE fromExpr(e).expr = e
  BY DEF fromExpr

LEMMA BytesAreTerms ==
  ASSUME NEW d, Formed(d), NEW a
  PROVE  /\ IsTerm(ByteAt(d.mem, a), {ByteBits})
         /\ \A i \in Assignments : ByteAt(d.mem, a).val[i] \in Bytes
<1>1. CASE a \in DOMAIN d.mem
  BY <1>1 DEF Formed, ByteAt, IsTerm, Bytes
<1>2. CASE a \notin DOMAIN d.mem
  BY <1>2, NumeralIsTerm, WidthsFit DEF ByteAt, IsTerm, Bytes
<1>3. QED
  BY <1>1, <1>2

LEMMA ReadMemoryIsTerm ==
  ASSUME NEW d, Formed(d), NEW a, NEW size \in 1 .. WordBytes
  PROVE  /\ IsTerm(MemRead(d.mem, a, size).expr, {size * ByteBits})
         /\ IsTerm(MemRead(d.mem, a, size).expr, Widths)
<1> DEFINE digits(i) == [k \in 0 .. size - 1 |-> ByteAt(d.mem, Wrap(a + k)).val[i]]
           e == Term(size * ByteBits,
                     [i \in Assignments |-> Assembled(digits(i), ByteBits, size)])
<1>1. MemRead(d.mem, a, size).expr = e
  BY Exprs DEF MemRead
<1>2. ASSUME NEW i \in Assignments
      PROVE  Assembled(digits(i), ByteBits, size) \in 0 .. 2^(size * ByteBits) - 1
  <2>1. \A k \in 0 .. size - 1 : digits(i)[k] \in 0 .. 2^ByteBits - 1
    BY BytesAreTerms DEF Bytes
  <2>2. /\ ByteBits \in Nat \ {0} /\ size \in Nat
        /\ size * ByteBits \in 0 .. WordBits
    <3>1. size \in 0 .. WordBytes
      BY SizesAssumption
    <3>2. QED
      BY <3>1, SizesAssumption, BytesFit
  <2> HIDE DEF digits
  <2>3. QED
    BY <2>1, <2>2, AssembledFits
<1>3. size * ByteBits \in Widths
  BY WidthsFit
<1> HIDE DEF digits
<1>4. IsTerm(e, {size * ByteBits})
  BY <1>2 DEF IsTerm, Term
<1>5. QED
  BY <1>1, <1>3, <1>4 DEF IsTerm

LEMMA ReadIsTerm ==
  ASSUME NEW d, Formed(d), NEW o, Readable(o)
  PROVE  IsTerm(readOperand(d, o).expr, Widths)
<1>1. CASE o.kind = "imm"
  <2>1. o.imm \in Int /\ WordBits \in Widths
    BY <1>1, WidthsFit DEF Readable
  <2>2. IsTerm(Numeral(o.imm, WordBits), {WordBits})
    BY <2>1, NumeralIsTerm
  <2>3. QED
    BY <1>1, <2>1, <2>2 DEF readOperand, Concrete, IsTerm
<1>2. CASE o.kind = "reg"
  BY <1>2, KeysNamed DEF readOperand, getReg, Formed
<1>3. CASE o.kind = "mem"
  BY <1>3, ReadMemoryIsTerm DEF readOperand, Readable
<1>4. QED
  BY <1>1, <1>2, <1>3 DEF Readable

LEMMA SetRegFormed ==
  ASSUME NEW d, Sound(d), Formed(d), NEW r, NEW v, IsTerm(v.expr, Widths)
  PROVE  Formed(setReg(d, r, v))
<1> DEFINE e == setReg(d, r, v)
<1>1. /\ e.mem = d.mem /\ e.cmp_l = d.cmp_l /\ e.cmp_r = d.cmp_r
      /\ \A s \in RegKeys : e.regs[s] = d.regs[s] \/ e.regs[s] = v
  BY KeysNamed DEF Sound, setReg, Fields
<1> HIDE DEF e
<1>2. Formed(e)
  BY <1>1 DEF Formed
<1>3. QED
  BY <1>2 DEF e

(* The bytes a store touches are those less than its size away.            *)
LEMMA WrittenNear ==
  ASSUME NEW a \in Int, NEW size \in Nat,
         NEW b \in {Wrap(a + k) : k \in 0 .. size - 1}
  PROVE  Wrap(b - a) \in Nat /\ Wrap(b - a) <= size - 1
<1>1. PICK j \in 0 .. size - 1 : b = Wrap(a + j)
  OBVIOUS
<1>2. PICK M \in Nat \ {0} : M = 2^WordBits
  BY PowersPositive
<1>3. PICK x \in Int, y \in Int : x = a + j /\ y = -a
  OBVIOUS
<1>4. ((x % M) + y) % M = (x + y) % M
  BY <1>2, RestsAdd
<1>5. x + y = j /\ b - a = (x % M) + y
  <2>1. b = x % M /\ x % M \in Int
    BY <1>1, <1>2, <1>3, DividesWithRest DEF Wrap
  <2>2. QED
    BY <1>3, <2>1
<1>6. Wrap(b - a) = j % M
  BY <1>2, <1>4, <1>5 DEF Wrap
<1>7. j % M \in Nat /\ j % M <= j
  <2>1. CASE j < M
    BY <2>1, WordIsItself
  <2>2. CASE j >= M
    BY <2>2, DividesWithRest
  <2>3. QED
    BY <1>2, <2>1, <2>2
<1>8. QED
  BY <1>6, <1>7

LEMMA NearWritten ==
  ASSUME NEW a \in Int, NEW b \in Words
  PROVE  b = Wrap(a + Wrap(b - a)) /\ Wrap(b - a) \in Nat
<1>1. PICK M \in Nat \ {0} : M = 2^WordBits
  BY PowersPositive
<1>2. b \in Int /\ b \in 0 .. M - 1
  BY <1>1 DEF Words
<1>3. PICK x \in Int : x = b - a
  BY <1>2
<1>4. x % M \in 0 .. M - 1 /\ ((x % M) + a) % M = (x + a) % M
  <2>1. x % M \in 0 .. M - 1
    BY DividesWithRest
  <2>2. QED
    BY <2>1, RestsAdd
<1>5. x + a = b /\ (x % M) + a = a + (x % M)
  BY <1>2, <1>3, <1>4
<1>6. b % M = b
  BY <1>2, WordIsItself
<1>7. QED
  BY <1>1, <1>3, <1>4, <1>5, <1>6 DEF Wrap

(* A store cuts the value into bytes.                                      *)
LEMMA WriteFormed ==
  ASSUME NEW d, Sound(d), Formed(d), NEW a \in Int, NEW v, IsTerm(v.expr, Widths),
         NEW size \in 1 .. WordBytes
  PROVE  Formed([d EXCEPT !.mem = MemWrite(@, a, v, size)])
<1> DEFINE m == MemWrite(d.mem, a, v, size)
           e == castToBits(v.expr, size * ByteBits)
           Written == {Wrap(a + k) : k \in 0 .. size - 1}
<1>1. IsTerm(e, {size * ByteBits})
  BY WidthsFit, CastKeepsLowest
<1>2. \A i \in Assignments : e.val[i] \in Int
  <2>1. 2^(size * ByteBits) \in Nat
    BY WidthsFit
  <2>2. QED
    BY <1>1, <2>1 DEF IsTerm
<1>3. DOMAIN m = DOMAIN d.mem \cup Written /\ Written \subseteq Words
  <2>1. \A k \in 0 .. size - 1 : a + k \in Int
    OBVIOUS
  <2>2. QED
    BY <2>1, WrapsToWord DEF MemWrite
<1>4. ASSUME NEW b \in Written PROVE IsTerm(m[b].expr, {ByteBits})
  <2>1. PICK k \in Nat : k = Wrap(b - a) /\ k <= size - 1
    <3>1. Wrap(b - a) \in Nat /\ Wrap(b - a) <= size - 1
      <4>1. size \in Nat
        BY SizesAssumption
      <4>2. QED
        BY <4>1, WrittenNear
    <3>2. QED
      BY <3>1
  <2>2. PICK h \in Int, l \in Int :
          h = (k + 1) * ByteBits - 1 /\ l = k * ByteBits /\ h - l + 1 = ByteBits
    <3>1. PICK c \in Nat : c = ByteBits
      BY SizesAssumption
    <3>2. (k + 1) * c = k * c + c /\ k * c \in Int
      OBVIOUS
    <3>3. QED
      BY <3>1, <3>2
  <2>3. l \in 0 .. WordBits
    <3>1. k \in 0 .. WordBytes
      BY <2>1, SizesAssumption
    <3>2. QED
      BY <2>2, <3>1, BytesFit
  <2>4. m[b].expr = Extract(e, h, l)
    BY <2>1, <2>2, Exprs DEF MemWrite
  <2>5. IsTerm(Extract(e, h, l), {ByteBits})
    BY <1>2, <2>2, <2>3, WidthsFit, ExtractIsTerm
  <2>6. QED
    BY <2>4, <2>5
<1>5. ASSUME NEW b \in DOMAIN d.mem, b \notin Written PROVE m[b] = d.mem[b]
  BY <1>5 DEF MemWrite
<1>6. \A b \in DOMAIN m : b \in Words /\ IsTerm(m[b].expr, {ByteBits})
  <2> HIDE DEF m, Written
  <2>1. QED
    BY <1>3, <1>4, <1>5 DEF Formed
<1> DEFINE f == [d EXCEPT !.mem = m]
<1> HIDE DEF m, e, Written
<1>7. /\ f.mem = m /\ f.regs = d.regs /\ f.cmp_l = d.cmp_l /\ f.cmp_r = d.cmp_r
  BY DEF Sound, Fields
<1> HIDE DEF f
<1>8. Formed(f)
  BY <1>6, <1>7 DEF Formed
<1>9. QED
  BY <1>8 DEF f, m

LEMMA OperandFormed ==
  ASSUME NEW d, Sound(d), Formed(d), NEW o, Legal(o),
         NEW v, IsTerm(v.expr, Widths)
  PROVE  Formed(writeOperand(d, o, v))
<1>1. CASE o.kind = "imm"
  BY <1>1 DEF writeOperand
<1>2. CASE o.kind = "reg"
  BY <1>2, SetRegFormed DEF writeOperand
<1>3. CASE o.kind = "mem"
  <2>1. memAddr(d, o) \in Int /\ o.size \in 1 .. WordBytes
    BY <1>3, AddressIsWord, PowersPositive DEF Legal, Words
  <2>2. QED
    BY <1>3, <2>1, WriteFormed DEF writeOperand
<1>4. QED
  BY <1>1, <1>2, <1>3 DEF Legal

(* The value an operation returns is a word.                               *)
LEMMA CombineIsTerm ==
  ASSUME NEW d, Formed(d), NEW mn \in {"add", "sub", "xor", "and", "or"},
         NEW o, Readable(o), NEW p, Readable(p)
  PROVE  /\ IsTerm(Combine(d, mn, o, p).expr, Widths)
         /\ \A i \in Assignments :
              Combine(d, mn, o, p).expr.val[i]
                = Compute(mn, Word(readOperand(d, o))[i], Word(readOperand(d, p))[i])
<1> DEFINE a == Word(readOperand(d, o))
           b == Word(readOperand(d, p))
           e == Term(WordBits, [i \in Assignments |-> Compute(mn, a[i], b[i])])
<1>1. ASSUME NEW i \in Assignments PROVE a[i] \in Int /\ b[i] \in Int
  BY ReadIsTerm, WordOfTerm, PowersPositive DEF Words
<1>2. Combine(d, mn, o, p).expr = e
  BY Exprs DEF Combine
<1> HIDE DEF a, b
<1>3. \A i \in Assignments : Compute(mn, a[i], b[i]) \in 0 .. 2^WordBits - 1
  BY <1>1, ComputesWord DEF Words
<1>4. IsTerm(e, Widths)
  BY <1>3, WidthsFit DEF IsTerm, Term
<1>5. e.val = [i \in Assignments |-> Compute(mn, a[i], b[i])]
  BY DEF Term
<1>6. QED
  BY <1>2, <1>4, <1>5 DEF a, b

-----------------------------------------------------------------------------
(* Instructions.                                                           *)

LEMMA MoveSound ==
  ASSUME NEW d, Sound(d), NEW ins, Legal(ins.ops[1]), Legal(ins.ops[2])
  PROVE  /\ Sound(Move(d, ins))
         /\ ins.ops[1].kind # "mem" => Move(d, ins).mem = d.mem
  BY OperandSound, ReadConstant DEF Move

LEMMA LoadAddressSound ==
  ASSUME NEW d, Sound(d), NEW ins, Legal(ins.ops[1]), Legal(ins.ops[2]),
         ins.ops[2].kind = "mem"
  PROVE  /\ Sound(LoadAddress(d, ins))
         /\ ins.ops[1].kind # "mem" => LoadAddress(d, ins).mem = d.mem
  <1>1. Constant(Concrete(memAddr(d, ins.ops[2]), WordBits))
    BY AddressIsWord, WordConstant DEF Legal
  <1> QED
    BY <1>1, OperandSound DEF LoadAddress

LEMMA ArithmeticSound ==
  ASSUME NEW d, Sound(d), NEW ins, Legal(ins.ops[1])
  PROVE  /\ Sound(Arithmetic(d, ins))
         /\ ins.ops[1].kind # "mem" => Arithmetic(d, ins).mem = d.mem
  BY OperandSound, CombineConstant DEF Arithmetic

LEMMA CompareSound ==
  ASSUME NEW d, Sound(d), NEW ins
  PROVE  /\ Sound(Compare(d, ins)) /\ Compare(d, ins).mem = d.mem
         /\ Sound(Test(d, ins)) /\ Test(d, ins).mem = d.mem
  BY DEF Compare, Test, Sound, Fields

(* The new stack pointer is the result of a subtraction, so it is never a  *)
(* number, and the store of a push is never reached.                       *)
LEMMA PushSound ==
  ASSUME NEW d, Sound(d), NEW ins
  PROVE  Sound(Push(d, ins)) /\ Push(d, ins).mem = d.mem
  <1> DEFINE new_rsp == StackMoved(d, "sub")
  <1>1. new_rsp.is_concrete = FALSE /\ Constant(new_rsp)
    BY CombineConstant DEF StackMoved
  <1>2. Push(d, ins) = setReg(d, "rsp", new_rsp)
    BY <1>1 DEF Push
  <1> QED
    BY <1>1, <1>2, SetRegSound

LEMMA PopSound ==
  ASSUME NEW d, Sound(d), NEW ins, Legal(ins.ops[1])
  PROVE  /\ Sound(Pop(d, ins))
         /\ ins.ops[1].kind # "mem" => Pop(d, ins).mem = d.mem
  <1> DEFINE rsp == getReg(d, "rsp")
             v == MemRead(d.mem, rsp.concrete, WordBytes)
             e == IF rsp.is_concrete THEN writeOperand(d, ins.ops[1], v) ELSE d
             new_rsp == StackMoved(d, "add")
  <1>1. Constant(v)
    BY TermsAreSymbolic, SymbolicConstant DEF MemRead
  <1>2. Sound(e) /\ (ins.ops[1].kind # "mem" => e.mem = d.mem)
    BY <1>1, OperandSound
  <1>3. Constant(new_rsp)
    BY CombineConstant DEF StackMoved
  <1>4. Pop(d, ins) = setReg(e, "rsp", new_rsp)
    BY DEF Pop
  <1> HIDE DEF e, new_rsp
  <1> QED
    BY <1>2, <1>3, <1>4, SetRegSound

LEMMA StepSound ==
  ASSUME NEW d, Sound(d), NEW ins, Legal(ins.ops[1]), Legal(ins.ops[2])
  PROVE  /\ Sound(executeNonBranch(d, ins))
         /\ ins.ops[1].kind # "mem" \/ ins.mn = "push"
              => executeNonBranch(d, ins).mem = d.mem
  <1>1. CASE ins.mn \in {"mov", "movzx", "movsxd"}
    BY <1>1, MoveSound DEF executeNonBranch
  <1>2. CASE ins.mn = "lea"
    BY <1>2, LoadAddressSound DEF executeNonBranch
  <1>3. CASE ins.mn \in {"add", "sub", "xor", "and", "or"}
    BY <1>3, ArithmeticSound DEF executeNonBranch
  <1>4. CASE ins.mn \in {"cmp", "test"}
    BY <1>4, CompareSound DEF executeNonBranch
  <1>5. CASE ins.mn = "push"
    BY <1>5, PushSound DEF executeNonBranch
  <1>6. CASE ins.mn = "pop"
    BY <1>6, PopSound DEF executeNonBranch
  <1>7. CASE ins.mn \notin {"mov", "movzx", "movsxd", "lea", "add", "sub",
                          "xor", "and", "or", "cmp", "test", "push", "pop"}
    BY <1>7 DEF executeNonBranch
  <1> QED
    BY <1>1, <1>2, <1>3, <1>4, <1>5, <1>6, <1>7

(* Every instruction keeps the widths.                                     *)
LEMMA ComparesFormed ==
  ASSUME NEW d, Sound(d), Formed(d), NEW ins, Legal(ins.ops[1]), Legal(ins.ops[2])
  PROVE  Formed(Compare(d, ins)) /\ Formed(Test(d, ins))
<1> DEFINE e == Compare(d, ins)
           f == Test(d, ins)
           v == readOperand(d, ins.ops[1])
           w == readOperand(d, ins.ops[2])
           c == Combine(d, "and", ins.ops[1], ins.ops[2])
<1>1. IsTerm(v.expr, Widths) /\ IsTerm(w.expr, Widths) /\ IsTerm(c.expr, Widths)
  BY ReadIsTerm, CombineIsTerm, LegalIsReadable
<1>2. /\ e.regs = d.regs /\ e.mem = d.mem /\ e.cmp_l = <<v>> /\ e.cmp_r = <<w>>
      /\ f.regs = d.regs /\ f.mem = d.mem /\ f.cmp_l = <<v>> /\ f.cmp_r = <<c>>
  BY DEF Compare, Test, Sound, Fields
<1> HIDE DEF e, f, v, w, c
<1>3. Formed(e) /\ Formed(f)
  BY <1>1, <1>2 DEF Formed
<1>4. QED
  BY <1>3 DEF e, f

LEMMA StackMovedIsTerm ==
  ASSUME NEW d, Formed(d), NEW mn \in {"add", "sub"}
  PROVE  IsTerm(StackMoved(d, mn).expr, Widths)
<1>1. Readable(Reg("rsp", WordBytes)) /\ Readable(Imm(WordBytes))
  BY SizesAssumption DEF Readable, Reg, Imm
<1>2. QED
  BY <1>1, CombineIsTerm DEF StackMoved

LEMMA PopFormed ==
  ASSUME NEW d, Sound(d), Formed(d), NEW ins, Legal(ins.ops[1])
  PROVE  Formed(Pop(d, ins))
<1> DEFINE rsp == getReg(d, "rsp")
           v == MemRead(d.mem, rsp.concrete, WordBytes)
           e == IF rsp.is_concrete THEN writeOperand(d, ins.ops[1], v) ELSE d
           new_rsp == StackMoved(d, "add")
<1>1. Constant(v) /\ IsTerm(v.expr, Widths)
  <2>1. WordBytes \in 1 .. WordBytes
    BY SizesAssumption
  <2>2. QED
    BY <2>1, ReadMemoryIsTerm, TermsAreSymbolic, SymbolicConstant DEF MemRead
<1>2. Sound(e) /\ Formed(e)
  BY <1>1, OperandSound, OperandFormed
<1>3. IsTerm(new_rsp.expr, Widths)
  BY StackMovedIsTerm
<1>4. Pop(d, ins) = setReg(e, "rsp", new_rsp)
  BY DEF Pop
<1> HIDE DEF e, new_rsp
<1>5. QED
  BY <1>2, <1>3, <1>4, SetRegFormed

LEMMA StepFormed ==
  ASSUME NEW d, Sound(d), Formed(d),
         NEW ins, Legal(ins.ops[1]), Legal(ins.ops[2])
  PROVE  Formed(executeNonBranch(d, ins))
<1>1. CASE ins.mn \in {"mov", "movzx", "movsxd"}
  <2>1. IsTerm(readOperand(d, ins.ops[2]).expr, Widths)
    BY ReadIsTerm, LegalIsReadable
  <2>2. Formed(Move(d, ins))
    BY <2>1, OperandFormed DEF Move
  <2>3. QED
    BY <1>1, <2>2 DEF executeNonBranch
<1>2. CASE ins.mn = "lea" /\ ins.ops[2].kind = "mem"
  <2>1. memAddr(d, ins.ops[2]) \in Int /\ WordBits \in Widths
    BY <1>2, AddressIsWord, PowersPositive, WidthsFit DEF Legal, Words
  <2>2. IsTerm(Concrete(memAddr(d, ins.ops[2]), WordBits).expr, Widths)
    BY <2>1, NumeralIsTerm DEF Concrete, IsTerm
  <2>3. Formed(LoadAddress(d, ins))
    BY <2>2, OperandFormed DEF LoadAddress
  <2>4. QED
    BY <1>2, <2>3 DEF executeNonBranch
<1>3. CASE ins.mn \in {"add", "sub", "xor", "and", "or"}
  <2>1. IsTerm(Combine(d, ins.mn, ins.ops[1], ins.ops[2]).expr, Widths)
    BY <1>3, CombineIsTerm, LegalIsReadable
  <2>2. Formed(Arithmetic(d, ins))
    BY <2>1, OperandFormed DEF Arithmetic
  <2>3. QED
    BY <1>3, <2>2 DEF executeNonBranch
<1>4. CASE ins.mn \in {"cmp", "test"}
  BY <1>4, ComparesFormed DEF executeNonBranch
<1>5. CASE ins.mn = "push"
  <2>1. Push(d, ins) = setReg(d, "rsp", StackMoved(d, "sub"))
    <3>1. StackMoved(d, "sub").is_concrete = FALSE
      BY CombineConstant DEF StackMoved
    <3>2. QED
      BY <3>1 DEF Push
  <2>2. Formed(setReg(d, "rsp", StackMoved(d, "sub")))
    BY StackMovedIsTerm, SetRegFormed
  <2>3. QED
    BY <1>5, <2>1, <2>2 DEF executeNonBranch
<1>6. CASE ins.mn = "pop"
  BY <1>6, PopFormed DEF executeNonBranch
<1>7. CASE \/ ins.mn \notin {"mov", "movzx", "movsxd", "lea", "add", "sub",
                            "xor", "and", "or", "cmp", "test", "push", "pop"}
           \/ ins.mn = "lea" /\ ins.ops[2].kind # "mem"
  BY <1>7 DEF executeNonBranch
<1>8. QED
  BY <1>1, <1>2, <1>3, <1>4, <1>5, <1>6, <1>7

-----------------------------------------------------------------------------
(* Paths.                                                                  *)

LEMMA InitSound == Sound(InitialData)
  <1>1. \A r \in RegKeys : Constant(InitialData.regs[r])
    <2> SUFFICES ASSUME NEW r \in RegKeys PROVE Constant(InitialData.regs[r])
      OBVIOUS
    <2>1. CASE r \in SymRegs
      BY <2>1, SymbolicConstant DEF InitialData, Symbolic
    <2>2. CASE r \notin SymRegs
      <3>1. 0 \in Words /\ StackTop \in Words
        BY PowersPositive, ContentsAssumption DEF Words
      <3> QED
        BY <2>2, <3>1, WordConstant DEF InitialData
    <2> QED
      BY <2>1, <2>2
  <1>2. \A a \in DOMAIN InitialData.mem : Constant(InitialData.mem[a])
    <2> SUFFICES ASSUME NEW a \in DOMAIN Image \cup SymMem
                 PROVE  Constant(InitialData.mem[a])
      BY DEF InitialData
    <2>1. CASE a \in SymMem
      BY <2>1, SymbolicConstant DEF InitialData, Symbolic
    <2>2. CASE a \notin SymMem
      <3>1. Image[a] \in 0 .. 2^ByteBits - 1
        BY <2>2, ContentsAssumption DEF Bytes
      <3>2. Constant(Concrete(Image[a], ByteBits))
        BY <3>1, ConcreteConstant, PowersPositive
      <3> QED
        BY <2>2, <3>2 DEF InitialData
    <2> QED
      BY <2>1, <2>2
  <1>3. DOMAIN InitialData = Fields /\ DOMAIN InitialData.regs = RegKeys
    BY DEF InitialData, Fields
  <1> QED
    BY <1>1, <1>2, <1>3 DEF Sound

LEMMA InstructionsLegal ==
  ASSUME NEW ins \in Instructions PROVE Legal(ins.ops[1]) /\ Legal(ins.ops[2])
  BY InstructionsAssumption DEF Legal

LEMMA DataInvariant == Spec => []DataInv
  <1>1. Init => DataInv
    BY InitSound DEF Init, DataInv
  <1>2. DataInv /\ [Next]_vars => DataInv'
    <2> SUFFICES ASSUME DataInv, [Next]_vars PROVE DataInv'
      OBVIOUS
    <2>1. ASSUME NEW ins \in Instructions, Execute(ins) PROVE DataInv'
      BY <2>1, StepSound, InstructionsLegal DEF Execute, DataInv
    <2>2. ASSUME NEW ins \in Instructions, Throw(ins) PROVE DataInv'
      BY <2>2 DEF Throw, DataInv
    <2>3. CASE UNCHANGED vars
      BY <2>3 DEF vars, DataInv
    <2> QED
      BY <2>1, <2>2, <2>3 DEF Next
  <1> QED
    BY <1>1, <1>2, PTL DEF Spec

(* Whatever instructions a path is made of, a value that counts as         *)
(* concrete has its number on every input: addresses, which are made of    *)
(* such numbers, do not depend on the input.                               *)
THEOREM ConcreteSound == Spec => []ConcreteIsConstant
  <1>1. DataInv => ConcreteIsConstant
    BY DEF DataInv, Sound, ConcreteIsConstant, Values, Constant
  <1> QED
    BY <1>1, DataInvariant, PTL

(* No push stores anything, whatever was done to the stack pointer before; *)
(* the memory changes only by an instruction with a memory operand.        *)
THEOREM PushNeverStores == Spec => OnlyMemoryOperandsStore
  <1>1. ASSUME DataInv, [Next]_vars, NEW ins \in Instructions, Execute(ins),
               ins.ops[1].kind # "mem" \/ ins.mn = "push"
        PROVE  data'.mem = data.mem
    BY <1>1, StepSound, InstructionsLegal DEF Execute, DataInv
  <1>2. DataInv /\ [Next]_vars =>
          [\A ins \in Instructions :
             Execute(ins) /\ (ins.ops[1].kind # "mem" \/ ins.mn = "push")
               => data'.mem = data.mem]_vars
    BY <1>1
  <1> QED
    BY <1>2, DataInvariant, PTL DEF Spec, OnlyMemoryOperandsStore

-----------------------------------------------------------------------------
(* Widths along a path.                                                    *)

LEMMA InitFormed == Formed(InitialData)
<1>1. ASSUME NEW r \in RegKeys PROVE IsTerm(InitialData.regs[r].expr, Widths)
  <2>1. CASE r \in SymRegs
    BY <2>1, WidthsFit
    DEF InitialData, Symbolic, Term, IsTerm, Assignments, Words
  <2>2. CASE r \notin SymRegs
    <3>1. PICK n \in Int : n = (IF r \in {"rsp", "rbp"} THEN StackTop ELSE 0)
      BY ContentsAssumption, PowersPositive DEF Words
    <3>2. IsTerm(Numeral(n, WordBits), Widths)
      BY NumeralIsTerm, WidthsFit DEF IsTerm
    <3>3. QED
      BY <2>2, <3>1, <3>2 DEF InitialData, Concrete
  <2>3. QED
    BY <2>1, <2>2
<1>2. ASSUME NEW a \in DOMAIN InitialData.mem
      PROVE  a \in Words /\ IsTerm(InitialData.mem[a].expr, {ByteBits})
  <2>1. a \in DOMAIN Image \cup SymMem
    BY DEF InitialData
  <2>2. CASE a \in SymMem
    BY <2>1, <2>2, ContentsAssumption
    DEF InitialData, Symbolic, Term, IsTerm, Assignments, Bytes
  <2>3. CASE a \notin SymMem
    <3>1. Image[a] \in Int
      BY <2>1, <2>3, ContentsAssumption, PowersPositive DEF Bytes
    <3>2. IsTerm(Numeral(Image[a], ByteBits), {ByteBits})
      BY <3>1, NumeralIsTerm, WidthsFit
    <3>3. QED
      BY <2>1, <2>3, <3>2, ContentsAssumption DEF InitialData, Concrete
  <2>4. QED
    BY <2>2, <2>3
<1>3. InitialData.cmp_l = << >> /\ InitialData.cmp_r = << >>
  BY DEF InitialData
<1>4. QED
  BY <1>1, <1>2, <1>3 DEF Formed

FormedInv == DataInv /\ Formed(data)

LEMMA FormedInvariant == Spec => []FormedInv
<1>1. Init => Formed(data)
  BY InitFormed DEF Init
<1>2. DataInv /\ Formed(data) /\ [Next]_vars => Formed(data)'
  <2> SUFFICES ASSUME DataInv, Formed(data), [Next]_vars PROVE Formed(data)'
    OBVIOUS
  <2>1. ASSUME NEW ins \in Instructions, Execute(ins) PROVE Formed(data)'
    BY <2>1, StepFormed, InstructionsLegal DEF Execute, DataInv
  <2>2. ASSUME NEW ins \in Instructions, Throw(ins) PROVE Formed(data)'
    BY <2>2 DEF Throw
  <2>3. CASE UNCHANGED vars
    BY <2>3 DEF vars
  <2>4. QED
    BY <2>1, <2>2, <2>3 DEF Next
<1>3. QED
  BY <1>1, <1>2, DataInvariant, PTL DEF Spec, FormedInv

(* Whatever instructions a path is made of, every term keeps the width of  *)
(* its place: the expressions handed to Z3 never differ in their sorts.    *)
THEOREM WidthsHold == Spec => []WellFormed
<1>1. FormedInv => WellFormed
  <2> SUFFICES ASSUME FormedInv PROVE WellFormed
    OBVIOUS
  <2>1. Len(data.cmp_l) = Len(data.cmp_r)
    <3>1. CASE data.cmp_l = << >> /\ data.cmp_r = << >>
      BY <3>1
    <3>2. CASE \E v, w : data.cmp_l = <<v>> /\ data.cmp_r = <<w>>
      BY <3>2
    <3>3. QED
      BY <3>1, <3>2 DEF FormedInv, Formed
  <2>2. QED
    BY <2>1 DEF FormedInv, Formed, WellFormed, Widths
<1>2. QED
  BY <1>1, FormedInvariant, PTL

-----------------------------------------------------------------------------
(* Reading, next to the processor.                                         *)

(* What a processor c has on input i is what the data d stands for.        *)
Follows(c, d, i) ==
  /\ DOMAIN c = {"regs", "mem", "zf", "sf", "cf", "of"}
  /\ DOMAIN c.regs = DOMAIN CapNames
  /\ \A r \in DOMAIN CapNames : Word(d.regs[r])[i] = c.regs[r]
  /\ \A a \in Words : ByteAt(d.mem, a).val[i] = c.mem[a]

LEMMA FamilyOfNamed ==
  ASSUME NEW r, Named(r)
  PROVE  Family(r) = capRegName(r) /\ Family(r) \in DOMAIN CapNames
<1>1. PICK n \in DOMAIN CapNames : r \in CapNames[n]
  BY DEF Named, capRegName
<1>2. capRegName(r) = Family(r)
  BY <1>1, Zenon DEF capRegName, Family
<1>3. Family(r) \in DOMAIN CapNames
  BY <1>1, Zenon DEF Family
<1>4. QED
  BY <1>2, <1>3

LEMMA RegistersRead ==
  ASSUME NEW d, Formed(d), NEW i \in Assignments, NEW c, Follows(c, d, i),
         NEW r, Named(r)
  PROVE  /\ c.regs[Family(r)] = getReg(d, r).expr.val[i]
         /\ c.regs[Family(r)] = Word(getReg(d, r))[i]
         /\ c.regs[Family(r)] \in Words
<1>1. /\ IsTerm(getReg(d, r).expr, Widths)
      /\ Word(getReg(d, r))[i] = c.regs[Family(r)]
  BY FamilyOfNamed, KeysNamed DEF Formed, Follows, getReg
<1>2. QED
  BY <1>1, WordOfTerm

(* An address made of numbers is the address.                              *)
LEMMA AddressesAgree ==
  ASSUME NEW d, Sound(d), Formed(d), NEW i \in Assignments,
         NEW c, Follows(c, d, i), NEW o, Legal(o), o.kind = "mem", Numbered(d, o)
  PROVE  memAddr(d, o) = EffectiveAddress(c, o) /\ memAddr(d, o) \in Words
<1>1. ASSUME NEW r \in {o.base, o.index}
      PROVE  NumberIn(d, r) = IF r = NoReg THEN 0 ELSE c.regs[Family(r)]
  <2>1. CASE r = NoReg
    BY <2>1 DEF NumberIn
  <2>2. CASE r # NoReg
    <3>1. Named(r) /\ getReg(d, r).is_concrete
      BY <1>1, <2>2 DEF Numbered
    <3>2. getReg(d, r).expr.val[i] = getReg(d, r).concrete
      BY <3>1, RegSound DEF Constant
    <3>3. QED
      BY <2>2, <3>1, <3>2, RegistersRead DEF NumberIn
  <2>3. QED
    BY <2>1, <2>2
<1>2. memAddr(d, o) = EffectiveAddress(c, o)
  BY <1>1 DEF memAddr, EffectiveAddress
<1>3. QED
  BY <1>2, AddressIsWord DEF Legal

LEMMA LoadsAgree ==
  ASSUME NEW d, Formed(d), NEW i \in Assignments, NEW c, Follows(c, d, i),
         NEW a \in Int, NEW size \in 1 .. WordBytes
  PROVE  /\ MemRead(d.mem, a, size).expr.val[i] = Load(c, a, size)
         /\ Load(c, a, size) \in 0 .. 2^(size * ByteBits) - 1
<1> DEFINE f == [k \in 0 .. size - 1 |-> ByteAt(d.mem, Wrap(a + k)).val[i]]
           g == [k \in 0 .. size - 1 |-> c.mem[Wrap(a + k)]]
<1>1. f = g
  <2>1. ASSUME NEW k \in 0 .. size - 1
        PROVE  ByteAt(d.mem, Wrap(a + k)).val[i] = c.mem[Wrap(a + k)]
    <3>1. a + k \in Int
      OBVIOUS
    <3>2. Wrap(a + k) \in Words
      BY <3>1, WrapsToWord
    <3>3. QED
      BY <3>2 DEF Follows
  <2>2. QED
    BY <2>1
<1>2. MemRead(d.mem, a, size).expr.val[i] = Assembled(f, ByteBits, size)
  <2> DEFINE digits(j) == [k \in 0 .. size - 1 |-> ByteAt(d.mem, Wrap(a + k)).val[j]]
             val == [j \in Assignments |-> Assembled(digits(j), ByteBits, size)]
  <2>1. MemRead(d.mem, a, size).expr = Term(size * ByteBits, val)
    BY Exprs DEF MemRead
  <2>2. digits(i) = f
    OBVIOUS
  <2> HIDE DEF digits, f
  <2>3. val[i] = Assembled(f, ByteBits, size)
    BY <2>2
  <2> HIDE DEF val
  <2>4. QED
    BY <2>1, <2>3 DEF Term
<1>3. Load(c, a, size) = Assembled(g, ByteBits, size)
  BY DEF Load
<1>4. MemRead(d.mem, a, size).expr.val[i] \in 0 .. 2^(size * ByteBits) - 1
  BY ReadMemoryIsTerm DEF IsTerm
<1> HIDE DEF f, g
<1>5. QED
  BY <1>1, <1>2, <1>3, <1>4

LEMMA LowIsItself ==
  ASSUME NEW size \in 1 .. WordBytes, NEW n \in 0 .. 2^(size * ByteBits) - 1
  PROVE  Low(n, size) = n
<1>1. PICK m \in Nat \ {0} : m = 2^(size * ByteBits)
  BY WidthsFit
<1>2. QED
  BY <1>1, WordIsItself DEF Low

LEMMA LowOfWord ==
  /\ WordBytes \in 1 .. WordBytes /\ 2^(WordBytes * ByteBits) = 2^WordBits
  /\ \A n \in Words : Low(n, WordBytes) = n
  /\ \A n : Low(n, WordBytes) = Wrap(n)
<1>1. WordBytes \in 1 .. WordBytes /\ WordBytes \in 0 .. WordBytes
  BY SizesAssumption
<1>2. WordBytes * ByteBits = WordBits
  BY <1>1, BytesFit
<1>3. \A n \in Words : Low(n, WordBytes) = n
  BY <1>1, <1>2, LowIsItself DEF Words
<1>4. QED
  BY <1>1, <1>2, <1>3 DEF Low, Wrap

LEMMA WholeRead ==
  ASSUME NEW d, Sound(d), Formed(d), NEW i \in Assignments,
         NEW c, Follows(c, d, i), NEW o, Legal(o), Whole(d, o)
  PROVE  /\ Get(c, o) = Word(readOperand(d, o))[i]
         /\ Get(c, o) = readOperand(d, o).expr.val[i]
         /\ Get(c, o) \in Words /\ Low(Get(c, o), WordBytes) = Get(c, o)
<1>1. IsTerm(readOperand(d, o).expr, Widths)
  BY ReadIsTerm, LegalIsReadable
<1>2. /\ Word(readOperand(d, o))[i] = readOperand(d, o).expr.val[i]
      /\ Word(readOperand(d, o))[i] \in Words
  BY <1>1, WordOfTerm
<1>3. Get(c, o) = readOperand(d, o).expr.val[i]
  <2>1. CASE o.kind = "imm"
    <3>1. PICK n \in Words, m \in Nat \ {0} : n = o.imm /\ m = 2^WordBits
      BY <2>1, PowersPositive DEF Legal
    <3>2. n % m = n
      BY <3>1, WordIsItself DEF Words
    <3>3. QED
      BY <2>1, <3>1, <3>2 DEF Get, readOperand, Concrete, Numeral
  <2>2. CASE o.kind = "reg"
    <3>1. Named(o.reg) /\ o.size = WordBytes
      BY <2>2 DEF Whole
    <3>2. Get(c, o) = Low(c.regs[Family(o.reg)], WordBytes)
      BY <2>2, <3>1 DEF Get
    <3>3. QED
      BY <2>2, <3>1, <3>2, RegistersRead, LowOfWord DEF readOperand
  <2>3. CASE o.kind = "mem"
    <3>1. Numbered(d, o) /\ o.size \in 1 .. WordBytes
      BY <2>3 DEF Whole, Legal
    <3>2. memAddr(d, o) = EffectiveAddress(c, o) /\ memAddr(d, o) \in Int
      BY <2>3, <3>1, AddressesAgree, PowersPositive DEF Words
    <3>3. QED
      BY <2>3, <3>1, <3>2, LoadsAgree DEF Get, readOperand
  <2>4. QED
    BY <2>1, <2>2, <2>3 DEF Legal
<1>4. QED
  BY <1>2, <1>3, LowOfWord

-----------------------------------------------------------------------------
(* Writing, next to the processor.                                         *)

LEMMA RegistersWritten ==
  ASSUME NEW d, Sound(d), Formed(d), NEW i \in Assignments,
         NEW c, Follows(c, d, i), NEW r, Named(r),
         NEW v, IsTerm(v.expr, Widths), NEW n, n = v.expr.val[i]
  PROVE  Follows([c EXCEPT !.regs[Family(r)] = n], setReg(d, r, v), i)
<1> DEFINE e == setReg(d, r, v)
           m == [c EXCEPT !.regs[Family(r)] = n]
<1>1. Family(r) = capRegName(r) /\ Family(r) \in DOMAIN CapNames
  BY FamilyOfNamed
<1>2. e.mem = d.mem /\ e.regs = [d.regs EXCEPT ![Family(r)] = v]
  BY <1>1 DEF Sound, setReg, Fields
<1>3. /\ DOMAIN m = DOMAIN c /\ m.mem = c.mem
      /\ m.regs = [c.regs EXCEPT ![Family(r)] = n]
  BY DEF Follows
<1>4. Word(v)[i] = n
  BY WordOfTerm
<1>5. DOMAIN d.regs = RegKeys /\ DOMAIN CapNames \subseteq RegKeys
  BY DEF Sound, RegKeys
<1> HIDE DEF e, m
<1>6. Follows(m, e, i)
  BY <1>1, <1>2, <1>3, <1>4, <1>5 DEF Follows
<1>7. QED
  BY <1>6 DEF e, m

LEMMA DigitBelow ==
  ASSUME NEW x \in Int, NEW s \in 1 .. WordBytes, NEW k \in 0 .. s - 1
  PROVE  ((x % 2^(s * ByteBits)) \div 2^(k * ByteBits)) % 2^ByteBits
           = (x \div 2^(k * ByteBits)) % 2^ByteBits
<1>1. PICK b \in Nat \ {0}, w \in Nat : b = ByteBits /\ w = WordBits
  <2>1. 0 \in 0 .. WordBytes
    BY SizesAssumption
  <2>2. QED
    BY <2>1, SizesAssumption, BytesFit
<1>2. PICK j \in Nat, h \in Nat, g \in Nat :
        /\ j = s * b /\ h = k * b /\ g = j - h
        /\ h <= j /\ b <= g
  <2>1. PICK r \in Nat : r = (s - 1) - k
    BY SizesAssumption
  <2>2. s = k + r + 1 /\ s \in Nat /\ k \in Nat
    BY <2>1, SizesAssumption
  <2>3. s * b = k * b + r * b + b /\ r * b \in Nat /\ k * b \in Nat
    BY <2>2
  <2>4. QED
    BY <2>3
<1>3. j \in 0 .. w /\ g \in 0 .. w /\ h \in 0 .. j /\ b \in 0 .. g
  <2>1. s \in 0 .. WordBytes
    BY SizesAssumption
  <2>2. j \in 0 .. w
    BY <1>1, <1>2, <2>1, BytesFit
  <2>3. QED
    BY <1>2, <2>2
<1>4. PICK p \in Nat \ {0}, q \in Nat \ {0} : p = 2^h /\ q = 2^g /\ 2^j = p * q
  BY <1>1, <1>2, <1>3, PowersGrow
<1>5. PICK t \in Nat \ {0}, u \in Nat \ {0} : t = 2^b /\ u = 2^(g - b) /\ q = t * u
  BY <1>1, <1>3, <1>4, PowersGrow
<1>6. 2^j = p * t * u
  BY <1>4, <1>5
<1>7. ((x % (p * t * u)) \div p) % t = (x \div p) % t
  <2>1. CutKeeps(x, p, t, u)
    BY DigitStays
  <2>2. QED
    BY <2>1 DEF CutKeeps
<1>8. QED
  BY <1>1, <1>2, <1>4, <1>5, <1>6, <1>7

(* What a load finds of a store, byte by byte.                             *)
LEMMA ByteWritten ==
  ASSUME NEW d, Formed(d), NEW i \in Assignments, NEW a \in Int,
         NEW size \in 1 .. WordBytes, NEW v, IsTerm(v.expr, Widths),
         NEW b \in Words
  PROVE  ByteAt(MemWrite(d.mem, a, v, size), b).val[i] =
           IF Wrap(b - a) < size
           THEN (v.expr.val[i] \div 2^(Wrap(b - a) * ByteBits)) % 2^ByteBits
           ELSE ByteAt(d.mem, b).val[i]
<1> DEFINE m == MemWrite(d.mem, a, v, size)
           e == castToBits(v.expr, size * ByteBits)
           Written == {Wrap(a + k) : k \in 0 .. size - 1}
<1>1. PICK k \in Nat : k = Wrap(b - a) /\ b = Wrap(a + k)
  BY NearWritten
<1>2. CASE k < size
  <2>1. b \in Written /\ b \in DOMAIN m
    BY <1>1, <1>2, SizesAssumption DEF MemWrite
  <2>2. PICK h \in Int, l \in Int :
          h = (k + 1) * ByteBits - 1 /\ l = k * ByteBits /\ h - l + 1 = ByteBits
    <3>1. PICK c \in Nat : c = ByteBits
      BY SizesAssumption
    <3>2. (k + 1) * c = k * c + c /\ k * c \in Int
      OBVIOUS
    <3>3. QED
      BY <3>1, <3>2
  <2>3. m[b].expr = Extract(e, h, l)
    BY <1>1, <2>1, <2>2, Exprs DEF MemWrite
  <2>4. ByteAt(m, b).val[i] = (e.val[i] \div 2^(k * ByteBits)) % 2^ByteBits
    BY <2>1, <2>2, <2>3 DEF ByteAt, Extract, Term
  <2>5. e.val[i] = v.expr.val[i] % 2^(size * ByteBits)
    BY WidthsFit, CastKeepsLowest
  <2>6. v.expr.val[i] \in Int
    BY WordOfTerm, PowersPositive DEF Words
  <2>7. QED
    BY <1>1, <1>2, <2>4, <2>5, <2>6, DigitBelow
<1>3. CASE ~(k < size)
  <2>1. b \notin Written
    <3>1. SUFFICES ASSUME b \in Written PROVE FALSE
      OBVIOUS
    <3>2. size \in Nat
      BY SizesAssumption
    <3>3. k <= size - 1
      BY <1>1, <3>1, <3>2, WrittenNear
    <3>4. QED
      BY <1>3, <3>2, <3>3
  <2>2. ByteAt(m, b) = ByteAt(d.mem, b)
    BY <2>1 DEF MemWrite, ByteAt
  <2>3. QED
    BY <1>1, <1>3, <2>2
<1>4. QED
  BY <1>2, <1>3

(* A store of the lowest bytes of numbers that have them in common.        *)
LEMMA MemoryWritten ==
  ASSUME NEW d, Sound(d), Formed(d), NEW i \in Assignments,
         NEW c, Follows(c, d, i), NEW a \in Words,
         NEW size \in 1 .. WordBytes, NEW s \in size .. WordBytes,
         NEW v, IsTerm(v.expr, Widths), NEW n \in Int,
         n % 2^(s * ByteBits) = v.expr.val[i] % 2^(s * ByteBits)
  PROVE  Follows(Store(c, a, n, size),
                 [d EXCEPT !.mem = MemWrite(@, a, v, size)], i)
<1> DEFINE e == [d EXCEPT !.mem = MemWrite(d.mem, a, v, size)]
           m == Store(c, a, n, size)
<1>1. e.regs = d.regs /\ e.mem = MemWrite(d.mem, a, v, size)
  BY DEF Sound, Fields
<1>2. /\ DOMAIN m = DOMAIN c /\ m.regs = c.regs
      /\ m.mem = [b \in Words |->
           LET k == Wrap(b - a)
           IN  IF k < size THEN (n \div 2^(k * ByteBits)) % 2^ByteBits
               ELSE c.mem[b]]
  BY DEF Store, Follows
<1>3. ASSUME NEW b \in Words PROVE ByteAt(e.mem, b).val[i] = m.mem[b]
  <2>1. a \in Int
    BY PowersPositive DEF Words
  <2>2. PICK k \in Nat : k = Wrap(b - a)
    BY <2>1, NearWritten
  <2>3. CASE k < size
    <3>1. k \in 0 .. s - 1 /\ s \in 1 .. WordBytes
      BY <2>3, SizesAssumption
    <3>2. v.expr.val[i] \in Int
      BY WordOfTerm, PowersPositive DEF Words
    <3>3. (n \div 2^(k * ByteBits)) % 2^ByteBits
            = (v.expr.val[i] \div 2^(k * ByteBits)) % 2^ByteBits
      BY <3>1, <3>2, DigitBelow
    <3>4. ByteAt(e.mem, b).val[i]
            = (v.expr.val[i] \div 2^(k * ByteBits)) % 2^ByteBits
      BY <1>1, <2>1, <2>2, <2>3, ByteWritten
    <3>5. QED
      BY <1>2, <2>2, <2>3, <3>3, <3>4
  <2>4. CASE ~(k < size)
    <3>1. ByteAt(e.mem, b).val[i] = ByteAt(d.mem, b).val[i]
      BY <1>1, <2>1, <2>2, <2>4, ByteWritten
    <3>2. QED
      BY <1>2, <2>2, <2>4, <3>1 DEF Follows
  <2>5. QED
    BY <2>3, <2>4
<1> HIDE DEF e, m
<1>4. Follows(m, e, i)
  BY <1>1, <1>2, <1>3 DEF Follows
<1>5. QED
  BY <1>4 DEF e, m

(* A word written to a whole register, or to memory at a numbered address. *)
LEMMA WholeWritten ==
  ASSUME NEW d, Sound(d), Formed(d), NEW i \in Assignments,
         NEW c, Follows(c, d, i), NEW o, Legal(o), o.kind \in {"reg", "mem"},
         Whole(d, o), NEW v, IsTerm(v.expr, Widths),
         NEW n \in Int, Wrap(n) = v.expr.val[i]
  PROVE  Follows(Put(c, o, n), writeOperand(d, o, v), i)
<1>1. v.expr.val[i] \in Words
  BY WordOfTerm
<1>2. CASE o.kind = "reg"
  <2>1. Named(o.reg) /\ o.size = WordBytes
    BY <1>2 DEF Whole
  <2>2. Put(c, o, n) = [c EXCEPT !.regs[Family(o.reg)] = v.expr.val[i]]
    BY <1>2, <2>1, LowOfWord DEF Put
  <2>3. writeOperand(d, o, v) = setReg(d, o.reg, v)
    BY <1>2 DEF writeOperand
  <2>4. QED
    BY <2>1, <2>2, <2>3, RegistersWritten
<1>3. CASE o.kind = "mem"
  <2>1. Numbered(d, o) /\ o.size = WordBytes
    BY <1>3 DEF Whole
  <2>2. PICK a \in Words : a = memAddr(d, o) /\ a = EffectiveAddress(c, o)
    BY <1>3, <2>1, AddressesAgree
  <2>3. Put(c, o, n) = Store(c, a, n, WordBytes)
    BY <1>3, <2>1, <2>2 DEF Put
  <2>4. writeOperand(d, o, v)
          = [d EXCEPT !.mem = MemWrite(@, a, v, WordBytes)]
    BY <1>3, <2>1, <2>2 DEF writeOperand
  <2>5. n % 2^(WordBytes * ByteBits)
          = v.expr.val[i] % 2^(WordBytes * ByteBits)
    BY <1>1, LowOfWord DEF Low, Wrap
  <2>6. WordBytes \in 1 .. WordBytes /\ WordBytes \in WordBytes .. WordBytes
    BY SizesAssumption
  <2>7. Follows(Store(c, a, n, WordBytes),
                [d EXCEPT !.mem = MemWrite(@, a, v, WordBytes)], i)
    BY <2>5, <2>6, MemoryWritten
  <2>8. QED
    BY <2>3, <2>4, <2>7
<1>4. QED
  BY <1>2, <1>3

(* The flags are no part of what the data follow.                          *)
LEMMA FlagsAside ==
  ASSUME NEW d, NEW i, NEW c, Follows(c, d, i),
         NEW n, NEW size, NEW carry, NEW overflow
  PROVE  /\ Follows(Flags(c, n, size, carry, overflow), d, i)
         /\ Flags(c, n, size, carry, overflow).regs = c.regs
         /\ Flags(c, n, size, carry, overflow).mem = c.mem
<1> DEFINE m == Flags(c, n, size, carry, overflow)
<1>1. DOMAIN m = DOMAIN c /\ m.regs = c.regs /\ m.mem = c.mem
  BY DEF Flags, Follows
<1> HIDE DEF m
<1>2. Follows(m, d, i)
  BY <1>1 DEF Follows
<1>3. QED
  BY <1>1, <1>2 DEF m

(* A load fills a register, or clears the upper half of it.                *)
LEMMA LoadFollows ==
  ASSUME NEW d, Sound(d), Formed(d), NEW i \in Assignments,
         NEW c, Follows(c, d, i), NEW o, Legal(o), NEW p, Legal(p),
         Loads(d, o, p)
  PROVE  Follows(Put(c, o, Get(c, p)), writeOperand(d, o, readOperand(d, p)), i)
<1>1. PICK s \in 1 .. WordBytes, t \in 1 .. WordBytes :
        s = o.size /\ t = p.size /\ t <= s /\ s \in {Half, WordBytes}
  BY DEF Loads, Legal
<1>2. /\ o.kind = "reg" /\ Named(o.reg) /\ p.kind = "mem" /\ Numbered(d, p)
  BY DEF Loads
<1>3. PICK a \in Words : a = memAddr(d, p) /\ a = EffectiveAddress(c, p)
  BY <1>2, AddressesAgree
<1>4. a \in Int
  BY PowersPositive DEF Words
<1> DEFINE v == readOperand(d, p)
           n == Get(c, p)
<1>5. v = MemRead(d.mem, a, t) /\ n = Load(c, a, t)
  BY <1>1, <1>2, <1>3 DEF readOperand, Get
<1>6. v.expr.val[i] = n /\ n \in 0 .. 2^(t * ByteBits) - 1
  BY <1>4, <1>5, LoadsAgree
<1>7. IsTerm(v.expr, Widths)
  BY ReadIsTerm, LegalIsReadable
<1> HIDE DEF v, n
<1>8. n \in 0 .. 2^(s * ByteBits) - 1
  <2>1. /\ s * ByteBits \in 0 .. WordBits /\ t * ByteBits \in 0 .. s * ByteBits
    <3>1. PICK b \in Nat, r \in Nat : b = ByteBits /\ r = s - t
      <4>1. s \in Nat /\ t \in Nat /\ ByteBits \in Nat
        BY SizesAssumption
      <4>2. s - t \in Nat
        BY <1>1, <4>1
      <4>3. QED
        BY <4>1, <4>2
    <3>2. s = t + r /\ t \in Nat /\ r \in Nat
      BY <1>1, <3>1, SizesAssumption
    <3>3. s * b = t * b + r * b /\ t * b \in Nat /\ r * b \in Nat
      BY <3>2
    <3>4. s \in 0 .. WordBytes
      BY SizesAssumption
    <3>5. s * ByteBits \in 0 .. WordBits
      BY <3>4, BytesFit
    <3>6. QED
      BY <3>1, <3>3, <3>5
  <2>2. PICK x \in Nat, y \in Nat :
          x = 2^(t * ByteBits) /\ y = 2^(s * ByteBits) /\ x <= y
    BY <2>1, PowersGrow
  <2>3. QED
    BY <1>6, <2>2
<1>9. Low(n, s) = n
  BY <1>8, LowIsItself
<1>10. Put(c, o, n) = [c EXCEPT !.regs[Family(o.reg)] = n]
  BY <1>1, <1>2, <1>9 DEF Put
<1>11. writeOperand(d, o, v) = setReg(d, o.reg, v)
  BY <1>2 DEF writeOperand
<1>12. Follows([c EXCEPT !.regs[Family(o.reg)] = n], setReg(d, o.reg, v), i)
  BY <1>2, <1>6, <1>7, RegistersWritten
<1>13. QED
  BY <1>10, <1>11, <1>12 DEF v, n

(* A store keeps as many of the lowest bytes as it has room for.           *)
LEMMA StoreFollows ==
  ASSUME NEW d, Sound(d), Formed(d), NEW i \in Assignments,
         NEW c, Follows(c, d, i), NEW o, Legal(o), NEW p, Legal(p),
         Stores(d, o, p)
  PROVE  Follows(Put(c, o, Get(c, p)), writeOperand(d, o, readOperand(d, p)), i)
<1>1. PICK s \in 1 .. WordBytes, t \in 1 .. WordBytes :
        s = o.size /\ t = p.size /\ s <= t
  BY DEF Stores, Legal
<1>2. /\ o.kind = "mem" /\ Numbered(d, o)
      /\ p.kind = "imm" \/ (p.kind = "reg" /\ Named(p.reg))
  BY DEF Stores
<1>3. PICK a \in Words : a = memAddr(d, o) /\ a = EffectiveAddress(c, o)
  BY <1>2, AddressesAgree
<1> DEFINE v == readOperand(d, p)
           n == Get(c, p)
<1>4. IsTerm(v.expr, Widths)
  BY ReadIsTerm, LegalIsReadable
<1>5. n \in Int /\ n % 2^(t * ByteBits) = v.expr.val[i] % 2^(t * ByteBits)
  <2>1. CASE p.kind = "imm"
    <3>1. PICK x \in Words, m \in Nat \ {0} : x = p.imm /\ m = 2^WordBits
      BY <2>1, PowersPositive DEF Legal
    <3>2. x % m = x /\ x \in Int
      BY <3>1, WordIsItself DEF Words
    <3>3. v.expr.val[i] = x /\ n = x
      BY <2>1, <3>1, <3>2 DEF Get, readOperand, Concrete, Numeral
    <3>4. QED
      BY <3>2, <3>3
  <2>2. CASE p.kind = "reg" /\ Named(p.reg)
    <3>1. n = Low(c.regs[Family(p.reg)], t) /\ v = getReg(d, p.reg)
      BY <1>1, <2>2 DEF Get, readOperand
    <3>2. PICK x \in Int : x = c.regs[Family(p.reg)] /\ x = v.expr.val[i]
      BY <2>2, <3>1, RegistersRead, PowersPositive DEF Words
    <3>3. PICK m \in Nat \ {0} : m = 2^(t * ByteBits)
      BY WidthsFit
    <3>4. x % m \in 0 .. m - 1
      BY DividesWithRest
    <3>5. (x % m) % m = x % m /\ x % m \in Int
      BY <3>4, WordIsItself
    <3>6. n = x % m
      BY <3>1, <3>2, <3>3 DEF Low
    <3>7. QED
      BY <3>2, <3>3, <3>5, <3>6
  <2>3. QED
    BY <1>2, <2>1, <2>2
<1>6. Put(c, o, n) = Store(c, a, n, s)
  BY <1>1, <1>2, <1>3 DEF Put
<1>7. writeOperand(d, o, v) = [d EXCEPT !.mem = MemWrite(@, a, v, s)]
  BY <1>1, <1>2, <1>3 DEF writeOperand
<1>8. t \in s .. WordBytes
  BY <1>1, SizesAssumption
<1> HIDE DEF v, n
<1>9. Follows(Store(c, a, n, s), [d EXCEPT !.mem = MemWrite(@, a, v, s)], i)
  BY <1>4, <1>5, <1>8, MemoryWritten
<1>10. QED
  BY <1>6, <1>7, <1>9 DEF v, n

LEMMA ResultWraps ==
  ASSUME NEW mn \in {"add", "sub", "xor", "and", "or"},
         NEW x \in Words, NEW y \in Words
  PROVE  Result(mn, x, y) \in Int /\ Wrap(Result(mn, x, y)) = Compute(mn, x, y)
<1>1. PICK s \in Int, t \in Int : s = x /\ t = y
  BY PowersPositive DEF Words
<1>2. \A n \in Words : n \in Int /\ Wrap(n) = n
  BY PowersPositive, LowOfWord DEF Words
<1>3. s - t \in Int /\ s + t \in Int
  OBVIOUS
<1>4. CASE mn = "add"
  BY <1>1, <1>3, <1>4 DEF Result, Compute
<1>5. CASE mn = "sub"
  <2>1. Wrap(s - t) \in Words
    BY <1>3, WrapsToWord
  <2>2. QED
    BY <1>1, <1>2, <1>5, <2>1 DEF Result, Compute
<1>6. CASE mn \in {"xor", "and", "or"}
  <2>1. Compute(mn, x, y) \in Words
    BY <1>1, ComputesWord
  <2>2. Result(mn, x, y) = Compute(mn, x, y)
    BY <1>6 DEF Result, Compute
  <2>3. QED
    BY <1>2, <2>1, <2>2
<1>7. QED
  BY <1>4, <1>5, <1>6

(* The result of an operation on two words, written back.                  *)
LEMMA ArithmeticFollows ==
  ASSUME NEW d, Sound(d), Formed(d), NEW i \in Assignments,
         NEW c, Follows(c, d, i), NEW ins,
         NEW o, NEW p, o = ins.ops[1], p = ins.ops[2], Legal(o), Legal(p),
         ins.mn \in {"add", "sub", "xor", "and", "or"},
         o.kind \in {"reg", "mem"}, Whole(d, o), Whole(d, p),
         NEW x, NEW y, x = Get(c, o), y = Low(Get(c, p), o.size),
         NEW f, Follows(f, d, i)
  PROVE  Follows(Put(f, o, Result(ins.mn, x, y)), Arithmetic(d, ins), i)
<1> DEFINE v == Combine(d, ins.mn, o, p)
<1>1. o.size = WordBytes
  BY DEF Whole
<1>2. /\ x = Word(readOperand(d, o))[i] /\ x \in Words
      /\ y = Word(readOperand(d, p))[i] /\ y \in Words
  BY <1>1, WholeRead
<1>3. /\ IsTerm(v.expr, Widths)
      /\ v.expr.val[i] = Compute(ins.mn, x, y)
  BY <1>2, CombineIsTerm, LegalIsReadable
<1>4. PICK n \in Int : /\ n = Result(ins.mn, x, y)
                       /\ Wrap(n) = Compute(ins.mn, x, y)
  BY <1>2, ResultWraps
<1>5. Arithmetic(d, ins) = writeOperand(d, o, v)
  BY DEF Arithmetic
<1> HIDE DEF v
<1>6. Wrap(n) = v.expr.val[i]
  BY <1>3, <1>4
<1>7. Follows(Put(f, o, n), writeOperand(d, o, v), i)
  BY <1>3, <1>6, WholeWritten
<1>8. QED
  BY <1>4, <1>5, <1>7

LEMMA MoveFollows ==
  ASSUME NEW d, Sound(d), Formed(d), NEW i \in Assignments,
         NEW c, Follows(c, d, i), NEW o, Legal(o), NEW p, Legal(p),
         o.kind \in {"reg", "mem"}, Whole(d, o), Whole(d, p)
  PROVE  Follows(Put(c, o, Get(c, p)), writeOperand(d, o, readOperand(d, p)), i)
<1> DEFINE v == readOperand(d, p)
<1>1. IsTerm(v.expr, Widths)
  BY ReadIsTerm, LegalIsReadable
<1>2. PICK n \in Words : n = Get(c, p) /\ n = v.expr.val[i]
  BY WholeRead
<1>3. n \in Int /\ Wrap(n) = n
  BY PowersPositive, LowOfWord DEF Words
<1> HIDE DEF v
<1>4. Follows(Put(c, o, n), writeOperand(d, o, v), i)
  BY <1>1, <1>2, <1>3, WholeWritten
<1>5. QED
  BY <1>2, <1>4 DEF v

LEMMA AddressFollows ==
  ASSUME NEW d, Sound(d), Formed(d), NEW i \in Assignments,
         NEW c, Follows(c, d, i), NEW o, Legal(o), NEW p, Legal(p),
         o.kind = "reg", Whole(d, o), p.kind = "mem", Numbered(d, p)
  PROVE  Follows(Put(c, o, EffectiveAddress(c, p)),
                 writeOperand(d, o, Concrete(memAddr(d, p), WordBits)), i)
<1>1. PICK a \in Words : a = memAddr(d, p) /\ a = EffectiveAddress(c, p)
  BY AddressesAgree
<1> DEFINE v == Concrete(a, WordBits)
<1>2. a \in Int /\ Wrap(a) = a /\ WordBits \in Widths
  BY PowersPositive, LowOfWord, WidthsFit DEF Words
<1>3. IsTerm(Numeral(a, WordBits), {WordBits})
  BY <1>2, NumeralIsTerm
<1>4. v.expr = Numeral(a, WordBits)
  BY DEF Concrete
<1>5. v.expr.val[i] = Wrap(a)
  BY DEF Concrete, Numeral, Wrap
<1>6. IsTerm(v.expr, Widths)
  BY <1>2, <1>3, <1>4 DEF IsTerm
<1> HIDE DEF v
<1>7. Follows(Put(c, o, a), writeOperand(d, o, v), i)
  BY <1>2, <1>5, <1>6, WholeWritten
<1>8. QED
  BY <1>1, <1>7 DEF v

(* An exact instruction does to the data what it does to the processor.    *)
LEMMA StepFollows ==
  ASSUME NEW d, Sound(d), Formed(d), NEW i \in Assignments,
         NEW c, Follows(c, d, i), NEW ins,
         Legal(ins.ops[1]), Legal(ins.ops[2]), Exact(d, ins)
  PROVE  Follows(Perform(c, ins), executeNonBranch(d, ins), i)
<1> DEFINE o == ins.ops[1]
           p == ins.ops[2]
           x == Get(c, o)
           y == Low(Get(c, p), o.size)
<1>1. CASE ins.mn \in {"mov", "movzx"}
  <2>1. /\ o.kind \in {"reg", "mem"}
        /\ (Whole(d, o) /\ Whole(d, p)) \/ Loads(d, o, p) \/ Stores(d, o, p)
    BY <1>1 DEF Exact
  <2>2. Perform(c, ins) = Put(c, o, Get(c, p))
    BY <1>1 DEF Perform
  <2>3. executeNonBranch(d, ins) = writeOperand(d, o, readOperand(d, p))
    BY <1>1 DEF executeNonBranch, Move
  <2>4. Follows(Put(c, o, Get(c, p)),
                writeOperand(d, o, readOperand(d, p)), i)
    BY <2>1, MoveFollows, LoadFollows, StoreFollows
  <2>5. QED
    BY <2>2, <2>3, <2>4
<1>2. CASE ins.mn \in {"add", "sub", "xor", "and", "or"}
  <2>1. o.kind \in {"reg", "mem"} /\ Whole(d, o) /\ Whole(d, p)
    BY <1>2 DEF Exact
  <2>2. PICK f : /\ Perform(c, ins) = Put(f, o, Result(ins.mn, x, y))
                 /\ Follows(f, d, i)
    <3>1. CASE ins.mn = "add"
      <4>1. Perform(c, ins) = Put(AddFlags(c, x, y, o.size), o,
                                  Result(ins.mn, x, y))
        BY <3>1 DEF Perform
      <4>2. Follows(AddFlags(c, x, y, o.size), d, i)
        BY FlagsAside DEF AddFlags
      <4>3. QED
        BY <4>1, <4>2
    <3>2. CASE ins.mn = "sub"
      <4>1. Perform(c, ins) = Put(SubFlags(c, x, y, o.size), o,
                                  Result(ins.mn, x, y))
        BY <3>2 DEF Perform
      <4>2. Follows(SubFlags(c, x, y, o.size), d, i)
        BY FlagsAside DEF SubFlags
      <4>3. QED
        BY <4>1, <4>2
    <3>3. CASE ins.mn \in {"xor", "and", "or"}
      BY <3>3, FlagsAside DEF Perform, LogicFlags
    <3>4. QED
      BY <1>2, <3>1, <3>2, <3>3
  <2>3. executeNonBranch(d, ins) = Arithmetic(d, ins)
    BY <1>2 DEF executeNonBranch
  <2> HIDE DEF o, p, x, y
  <2>4. Follows(Put(f, o, Result(ins.mn, x, y)), Arithmetic(d, ins), i)
    BY <1>2, <2>1, <2>2, ArithmeticFollows DEF o, p, x, y
  <2>5. QED
    BY <2>2, <2>3, <2>4
<1>3. CASE ins.mn = "lea"
  <2>1. o.kind = "reg" /\ Whole(d, o) /\ p.kind = "mem" /\ Numbered(d, p)
    BY <1>3 DEF Exact
  <2>2. Perform(c, ins) = Put(c, o, EffectiveAddress(c, p))
    BY <1>3 DEF Perform
  <2>3. executeNonBranch(d, ins)
          = writeOperand(d, o, Concrete(memAddr(d, p), WordBits))
    BY <1>3, <2>1 DEF executeNonBranch, LoadAddress
  <2>4. QED
    BY <2>1, <2>2, <2>3, AddressFollows
<1>4. CASE ins.mn \in {"cmp", "test"}
  <2>1. Follows(Perform(c, ins), d, i)
    <3>1. CASE ins.mn = "cmp"
      BY <3>1, FlagsAside DEF Perform, SubFlags
    <3>2. CASE ins.mn = "test"
      BY <3>2, FlagsAside DEF Perform, LogicFlags
    <3>3. QED
      BY <1>4, <3>1, <3>2
  <2>2. /\ executeNonBranch(d, ins).regs = d.regs
        /\ executeNonBranch(d, ins).mem = d.mem
    BY <1>4 DEF executeNonBranch, Compare, Test, Sound, Fields
  <2>3. QED
    BY <2>1, <2>2 DEF Follows
<1>5. QED
  BY <1>1, <1>2, <1>3, <1>4 DEF Exact

-----------------------------------------------------------------------------
(* Comparing, next to the processor.                                       *)

(* The highest bit of a word says whether it counts as negative.           *)
LEMMA SignSplitsWords ==
  \E h \in Nat \ {0} :
    /\ 2^WordBits = 2 * h /\ 2^(WordBits - 1) = h
    /\ \A n \in Words : SignBit(n, WordBytes) <=> n >= h
<1>1. PICK w \in Nat \ {0} : w = WordBits /\ WordBytes * ByteBits = w
  <2>1. 0 \in 0 .. WordBytes
    BY SizesAssumption
  <2>2. QED
    BY <2>1, BytesFit
<1>2. w \in 0 .. WordBits /\ 1 \in 0 .. w
  BY <1>1
<1>3. PICK h \in Nat \ {0} : h = 2^(w - 1) /\ 2^w = 2^1 * h
  BY <1>2, PowersGrow
<1>4. 2^1 = 2
  OBVIOUS
<1>5. 2^w = 2 * h
  BY <1>3, <1>4
<1>6. ASSUME NEW n \in 0 .. 2 * h - 1
      PROVE  (n \div h) % 2 = 1 <=> n >= h
  <2>1. CASE n < h
    <3>1. n = 0 * h + n /\ n \in 0 .. h - 1
      BY <2>1
    <3>2. n \div h = 0
      BY <3>1, RestIsUnique
    <3>3. QED
      BY <2>1, <3>2
  <2>2. CASE n >= h
    <3>1. PICK r \in 0 .. h - 1 : n = 1 * h + r
      <4>1. n - h \in 0 .. h - 1 /\ n = 1 * h + (n - h)
        BY <2>2
      <4>2. QED
        BY <4>1
    <3>2. n \div h = 1
      BY <3>1, RestIsUnique
    <3>3. QED
      BY <2>2, <3>2
  <2>3. QED
    BY <2>1, <2>2
<1>7. ASSUME NEW n \in Words PROVE SignBit(n, WordBytes) <=> n >= h
  <2>1. n \in 0 .. 2 * h - 1
    BY <1>1, <1>5 DEF Words
  <2>2. SignBit(n, WordBytes) <=> (n \div h) % 2 = 1
    BY <1>1, <1>3 DEF SignBit, BitOf
  <2>3. QED
    BY <1>6, <2>1, <2>2
<1>8. QED
  BY <1>1, <1>3, <1>5, <1>7

LEMMA DifferenceWraps ==
  ASSUME NEW x \in Words, NEW y \in Words
  PROVE  /\ Wrap(x - y) \in Words
         /\ Wrap(x - y) = IF x >= y THEN x - y ELSE (x - y) + 2^WordBits
<1>1. PICK M \in Nat \ {0} : M = 2^WordBits
  BY PowersPositive
<1>2. x \in 0 .. M - 1 /\ y \in 0 .. M - 1 /\ x - y \in Int
  BY <1>1 DEF Words
<1>3. CASE x >= y
  <2>1. x - y \in 0 .. M - 1
    BY <1>2, <1>3
  <2>2. QED
    BY <1>1, <1>2, <1>3, <2>1, WordIsItself, WrapsToWord DEF Wrap
<1>4. CASE ~(x >= y)
  <2>1. PICK r \in 0 .. M - 1 : r = (x - y) + M
    BY <1>2, <1>4
  <2>2. x - y = (-1) * M + r
    BY <1>2, <2>1
  <2>3. (x - y) % M = r
    BY <1>2, <2>2, RestIsUnique
  <2>4. QED
    BY <1>1, <1>2, <1>4, <2>1, <2>3, WrapsToWord DEF Wrap
<1>5. QED
  BY <1>3, <1>4

(* Whether the difference n of the words x and y overflows.                *)
Overflows(x, y, n) ==
  /\ SignBit(x, WordBytes) # SignBit(y, WordBytes)
  /\ SignBit(n, WordBytes) # SignBit(x, WordBytes)

(* Sign and overflow of a difference differ if and only if the first word  *)
(* is the lesser one as a signed number.                                   *)
LEMMA SignsCompare ==
  ASSUME NEW x \in Words, NEW y \in Words, NEW n, n = Wrap(x - y)
  PROVE  (SignBit(n, WordBytes) # Overflows(x, y, n))
           <=> Signed(x) < Signed(y)
<1>1. PICK h \in Nat \ {0} :
        /\ 2^WordBits = 2 * h /\ 2^(WordBits - 1) = h
        /\ \A k \in Words : SignBit(k, WordBytes) <=> k >= h
  BY SignSplitsWords
<1>2. /\ x \in 0 .. 2 * h - 1 /\ y \in 0 .. 2 * h - 1 /\ n \in Words
      /\ n = IF x >= y THEN x - y ELSE (x - y) + 2 * h
  BY <1>1, DifferenceWraps DEF Words
<1> DEFINE bx == SignBit(x, WordBytes)
           by == SignBit(y, WordBytes)
           bn == SignBit(n, WordBytes)
<1>3. (bx <=> x >= h) /\ (by <=> y >= h) /\ (bn <=> n >= h)
  BY <1>1, <1>2
<1>4. bx \in BOOLEAN /\ by \in BOOLEAN /\ bn \in BOOLEAN
  BY DEF SignBit
<1>5. /\ Signed(x) = IF x >= h THEN x - 2 * h ELSE x
      /\ Signed(y) = IF y >= h THEN y - 2 * h ELSE y
  BY <1>1 DEF Signed
<1> HIDE DEF bx, by, bn
<1>6. bn # (bx # by /\ bn # bx) <=> Signed(x) < Signed(y)
  BY <1>2, <1>3, <1>4, <1>5, SMT
<1>7. QED
  BY <1>6 DEF bx, by, bn, Overflows

(* The flags of c are those of the comparison d keeps.                     *)
Flagged(c, d, i) ==
  /\ d.cmp_l # << >> /\ d.cmp_r # << >>
  /\ LET a == Word(d.cmp_l[1])[i]
         b == Word(d.cmp_r[1])[i]
     IN  /\ a \in Words /\ b \in Words
         /\ c.zf <=> a = b
         /\ c.cf <=> a < b
         /\ (c.sf # c.of) <=> Signed(a) < Signed(b)

LEMMA CompareFlags ==
  ASSUME NEW d, Sound(d), Formed(d), NEW i \in Assignments,
         NEW c, Follows(c, d, i), NEW ins,
         Legal(ins.ops[1]), Legal(ins.ops[2]), ins.mn = "cmp",
         ins.ops[1].size = WordBytes, Exact(d, ins)
  PROVE  Flagged(Perform(c, ins), executeNonBranch(d, ins), i)
<1> DEFINE o == ins.ops[1]
           p == ins.ops[2]
           x == Get(c, o)
           y == Low(Get(c, p), o.size)
           e == executeNonBranch(d, ins)
           f == Perform(c, ins)
           n == Wrap(x - y)
<1>1. Whole(d, o) /\ Whole(d, p)
  BY DEF Exact
<1>2. /\ x = Word(readOperand(d, o))[i] /\ x \in Words
      /\ y = Word(readOperand(d, p))[i] /\ y \in Words
  BY <1>1, WholeRead
<1>3. e.cmp_l = <<readOperand(d, o)>> /\ e.cmp_r = <<readOperand(d, p)>>
  BY DEF executeNonBranch, Compare, Sound, Fields
<1>4. f = SubFlags(c, x, y, WordBytes)
  BY DEF Perform
<1> HIDE DEF o, p, x, y, e, f
<1>5. n \in Words /\ n = Low(x - y, WordBytes) /\ Low(n, WordBytes) = n
  BY <1>2, DifferenceWraps, LowOfWord
<1>6. /\ f.zf = (n = 0) /\ f.sf = SignBit(n, WordBytes) /\ f.cf = (x < y)
      /\ f.of = Overflows(x, y, n)
  <2> HIDE DEF n
  <2>1. QED
    BY <1>4, <1>5 DEF SubFlags, Flags, Follows, Overflows
<1>7. n = 0 <=> x = y
  <2>1. PICK M \in Nat \ {0} : M = 2^WordBits
    BY PowersPositive
  <2>2. x \in 0 .. M - 1 /\ y \in 0 .. M - 1
    BY <1>2, <2>1 DEF Words
  <2>3. n = IF x >= y THEN x - y ELSE (x - y) + M
    BY <1>2, <2>1, DifferenceWraps
  <2> HIDE DEF n
  <2>4. QED
    BY <2>2, <2>3
<1>8. (f.sf # f.of) <=> Signed(x) < Signed(y)
  <2>1. n = Wrap(x - y)
    OBVIOUS
  <2> HIDE DEF n
  <2>2. (SignBit(n, WordBytes) # Overflows(x, y, n)) <=> Signed(x) < Signed(y)
    BY <1>2, <2>1, SignsCompare
  <2>3. f.sf = SignBit(n, WordBytes) /\ f.of = Overflows(x, y, n)
    BY <1>6
  <2>4. QED
    BY <2>2, <2>3, Zenon
<1> HIDE DEF n
<1>9. (f.zf <=> x = y) /\ (f.cf <=> x < y)
  BY <1>6, <1>7, Zenon
<1>10. /\ e.cmp_l # << >> /\ e.cmp_r # << >>
       /\ Word(e.cmp_l[1])[i] = x /\ Word(e.cmp_r[1])[i] = y
  BY <1>2, <1>3
<1>11. Flagged(f, e, i)
  BY <1>2, <1>8, <1>9, <1>10, Zenon DEF Flagged
<1>12. QED
  BY <1>11 DEF f, e

(* What is neither a comparison nor arithmetic leaves both as they were.   *)
LEMMA FlagsKept ==
  ASSUME NEW d, Sound(d), NEW i \in Assignments,
         NEW c, Follows(c, d, i), NEW ins, Exact(d, ins),
         ins.mn \notin {"cmp", "test", "add", "sub", "xor", "and", "or"},
         Flagged(c, d, i)
  PROVE  Flagged(Perform(c, ins), executeNonBranch(d, ins), i)
<1> DEFINE e == executeNonBranch(d, ins)
           f == Perform(c, ins)
<1>1. ins.mn \in {"mov", "movzx", "lea"}
  BY DEF Exact
<1>2. PICK o, v : e = writeOperand(d, o, v)
  <2>1. CASE ins.mn \in {"mov", "movzx"}
    BY <2>1 DEF executeNonBranch, Move
  <2>2. CASE ins.mn = "lea"
    <3>1. ins.ops[2].kind = "mem"
      BY <2>2 DEF Exact
    <3>2. QED
      BY <2>2, <3>1 DEF executeNonBranch, LoadAddress
  <2>3. QED
    BY <1>1, <2>1, <2>2
<1>3. e.cmp_l = d.cmp_l /\ e.cmp_r = d.cmp_r
  <2> HIDE DEF e
  <2>1. QED
    BY <1>2 DEF writeOperand, setReg, Sound, Fields
<1>4. PICK q, n : f = Put(c, q, n)
  BY <1>1 DEF Perform
<1>5. f.zf = c.zf /\ f.sf = c.sf /\ f.cf = c.cf /\ f.of = c.of
  <2> HIDE DEF f
  <2>1. QED
    BY <1>4 DEF Put, Store, Follows
<1> HIDE DEF e, f
<1>6. Flagged(f, e, i)
  BY <1>3, <1>5 DEF Flagged
<1>7. QED
  BY <1>6 DEF e, f

LEMMA StepFlags ==
  ASSUME NEW d, Sound(d), Formed(d), NEW i \in Assignments,
         NEW c, Follows(c, d, i), NEW ins,
         Legal(ins.ops[1]), Legal(ins.ops[2]), Exact(d, ins),
         compared => Flagged(c, d, i), ComparedAfter(ins)
  PROVE  Flagged(Perform(c, ins), executeNonBranch(d, ins), i)
<1>1. CASE ins.mn = "cmp"
  BY <1>1, CompareFlags DEF ComparedAfter
<1>2. CASE ins.mn # "cmp"
  BY <1>2, FlagsKept DEF ComparedAfter
<1>3. QED
  BY <1>1, <1>2

(* A branch is taken on an input if the flags of its processor say so.     *)
LEMMA BranchesFollow ==
  ASSUME NEW d, NEW c, NEW i \in Assignments, Flagged(c, d, i),
         NEW mn \in {"je", "jne", "jb", "ja", "jbe", "jae",
                     "jl", "jle", "jg", "jge"}
  PROVE  i \in branchCondition(d, mn) <=> Taken(c, mn)
<1> DEFINE a == Word(d.cmp_l[1])[i]
           b == Word(d.cmp_r[1])[i]
<1>1. i \in branchCondition(d, mn) <=> Holds(mn, a, b)
  BY DEF Flagged, branchCondition
<1>2. /\ c.zf <=> a = b
      /\ c.cf <=> a < b
      /\ (c.sf # c.of) <=> Signed(a) < Signed(b)
  BY DEF Flagged
<1>3. /\ a \in Int /\ b \in Int /\ Signed(a) \in Int /\ Signed(b) \in Int
      /\ Signed(a) = Signed(b) <=> a = b
  <2>1. PICK h \in Nat \ {0} : 2^WordBits = 2 * h /\ 2^(WordBits - 1) = h
    BY SignSplitsWords
  <2>2. a \in 0 .. 2 * h - 1 /\ b \in 0 .. 2 * h - 1
    BY <2>1 DEF Flagged, Words
  <2>3. /\ Signed(a) = IF a >= h THEN a - 2 * h ELSE a
        /\ Signed(b) = IF b >= h THEN b - 2 * h ELSE b
    BY <2>1 DEF Signed
  <2> HIDE DEF a, b
  <2>4. QED
    BY <2>2, <2>3
<1> HIDE DEF a, b
<1> DEFINE s == Signed(a) < Signed(b)
<1>4. /\ Holds("je", a, b) <=> a = b
      /\ Holds("jne", a, b) <=> a # b
      /\ Holds("jb", a, b) <=> a < b
      /\ Holds("ja", a, b) <=> ~(a < b) /\ a # b
      /\ Holds("jbe", a, b) <=> a < b \/ a = b
      /\ Holds("jae", a, b) <=> ~(a < b)
  BY <1>3 DEF Holds
<1>5. /\ Holds("jl", a, b) <=> s
      /\ Holds("jle", a, b) <=> a = b \/ s
      /\ Holds("jg", a, b) <=> a # b /\ ~s
      /\ Holds("jge", a, b) <=> ~s
  BY <1>3 DEF Holds
<1>6. /\ Taken(c, "je") <=> c.zf
      /\ Taken(c, "jne") <=> ~c.zf
      /\ Taken(c, "jb") <=> c.cf
      /\ Taken(c, "ja") <=> ~c.cf /\ ~c.zf
      /\ Taken(c, "jbe") <=> c.cf \/ c.zf
      /\ Taken(c, "jae") <=> ~c.cf
  BY DEF Taken
<1>7. /\ Taken(c, "jl") <=> c.sf # c.of
      /\ Taken(c, "jle") <=> c.zf \/ c.sf # c.of
      /\ Taken(c, "jg") <=> ~c.zf /\ c.sf = c.of
      /\ Taken(c, "jge") <=> c.sf = c.of
  BY DEF Taken
<1> HIDE DEF s
<1>8. CASE mn \in {"je", "jne", "jb", "ja", "jbe", "jae"}
  BY <1>1, <1>2, <1>4, <1>6, <1>8
<1>9. CASE mn \in {"jl", "jle", "jg", "jge"}
  BY <1>1, <1>2, <1>5, <1>7, <1>9 DEF s
<1>10. QED
  BY <1>8, <1>9

-----------------------------------------------------------------------------
(* Exact paths.                                                            *)

LEMMA InitFollows ==
  ASSUME NEW i \in Assignments PROVE Follows(PowerOn(i), InitialData, i)
<1>1. PICK m \in Nat \ {0} : m = 2^WordBits
  BY PowersPositive
<1>2. ASSUME NEW r \in DOMAIN CapNames
      PROVE  Word(InitialData.regs[r])[i] = PowerOn(i).regs[r]
  <2>1. r \in RegKeys
    BY DEF RegKeys
  <2>2. Word(InitialData.regs[r])[i] = InitialData.regs[r].expr.val[i]
    BY <2>1, InitFormed, WordOfTerm DEF Formed
  <2>3. CASE r \in SymRegs
    BY <2>1, <2>2, <2>3 DEF InitialData, PowerOn, Symbolic, Term
  <2>4. CASE r \notin SymRegs
    <3>1. PICK n \in Words : n = (IF r \in {"rsp", "rbp"} THEN StackTop ELSE 0)
      BY ContentsAssumption, PowersPositive DEF Words
    <3>2. Wrap(n) = n
      BY <3>1, LowOfWord
    <3>3. InitialData.regs[r] = Concrete(n, WordBits)
      BY <2>1, <2>4, <3>1 DEF InitialData
    <3>4. PowerOn(i).regs[r] = n
      BY <2>4, <3>1 DEF PowerOn
    <3>5. QED
      BY <2>2, <3>2, <3>3, <3>4 DEF Concrete, Numeral, Wrap
  <2>5. QED
    BY <2>3, <2>4
<1>3. ASSUME NEW a \in Words
      PROVE  ByteAt(InitialData.mem, a).val[i] = PowerOn(i).mem[a]
  <2>1. PICK b \in Nat \ {0} : b = 2^ByteBits
    BY PowersPositive
  <2>2. CASE a \in SymMem
    BY <2>2 DEF ByteAt, InitialData, PowerOn, Symbolic, Term
  <2>3. CASE a \in DOMAIN Image /\ a \notin SymMem
    <3>1. PICK n \in 0 .. b - 1 : n = Image[a]
      BY <2>1, <2>3, ContentsAssumption DEF Bytes
    <3>2. n % b = n
      BY WordIsItself
    <3>3. a \in DOMAIN InitialData.mem /\ InitialData.mem[a] = Concrete(n, ByteBits)
      BY <2>3, <3>1 DEF InitialData
    <3>4. PowerOn(i).mem[a] = n
      BY <2>3, <3>1 DEF PowerOn
    <3>5. QED
      BY <2>1, <3>2, <3>3, <3>4 DEF ByteAt, Concrete, Numeral
  <2>4. CASE a \notin DOMAIN Image /\ a \notin SymMem
    <3>1. 0 % b = 0
      OBVIOUS
    <3>2. a \notin DOMAIN InitialData.mem
      BY <2>4 DEF InitialData
    <3>3. PowerOn(i).mem[a] = 0
      BY <2>4 DEF PowerOn
    <3>4. QED
      BY <2>1, <3>1, <3>2, <3>3 DEF ByteAt, Numeral
  <2>5. QED
    BY <2>2, <2>3, <2>4
<1>4. /\ DOMAIN PowerOn(i) = {"regs", "mem", "zf", "sf", "cf", "of"}
      /\ DOMAIN PowerOn(i).regs = DOMAIN CapNames
  BY DEF PowerOn
<1>5. QED
  BY <1>2, <1>3, <1>4 DEF Follows

(* As long as the path is exact each processor has what the data stand for *)
(* on its input, and the flags of the last comparison.                     *)
Agreement ==
  /\ DOMAIN machines = Assignments
  /\ exact => \A i \in Assignments :
       /\ Follows(machines[i], data, i)
       /\ compared => Flagged(machines[i], data, i)

AgreeInv == FormedInv /\ Agreement

LEMMA AgreeInvariant == Spec => []AgreeInv
<1>1. Init => Agreement
  BY InitFollows DEF Init, Agreement
<1>2. FormedInv /\ Agreement /\ [Next]_vars => Agreement'
  <2> SUFFICES ASSUME FormedInv, Agreement, [Next]_vars PROVE Agreement'
    OBVIOUS
  <2>1. ASSUME NEW ins \in Instructions, Execute(ins) PROVE Agreement'
    <3>1. DOMAIN machines' = Assignments
      BY <2>1 DEF Execute
    <3>2. ASSUME exact', NEW i \in Assignments
          PROVE  /\ Follows(machines'[i], data', i)
                 /\ compared' => Flagged(machines'[i], data', i)
      <4>1. exact /\ Exact(data, ins)
        BY <2>1, <3>2 DEF Execute
      <4>2. /\ Follows(machines[i], data, i)
            /\ compared => Flagged(machines[i], data, i)
        BY <4>1 DEF Agreement
      <4>3. Sound(data) /\ Formed(data)
        BY DEF FormedInv, DataInv
      <4>4. Legal(ins.ops[1]) /\ Legal(ins.ops[2])
        BY InstructionsLegal
      <4>5. /\ machines'[i] = Perform(machines[i], ins)
            /\ data' = executeNonBranch(data, ins)
            /\ compared' = ComparedAfter(ins)
        BY <2>1 DEF Execute
      <4>6. Follows(machines'[i], data', i)
        BY <4>1, <4>2, <4>3, <4>4, <4>5, StepFollows
      <4>7. compared' => Flagged(machines'[i], data', i)
        BY <4>1, <4>2, <4>3, <4>4, <4>5, StepFlags
      <4>8. QED
        BY <4>6, <4>7
    <3>3. QED
      BY <3>1, <3>2 DEF Agreement
  <2>2. ASSUME NEW ins \in Instructions, Throw(ins) PROVE Agreement'
    BY <2>2 DEF Throw, Agreement
  <2>3. CASE UNCHANGED vars
    BY <2>3 DEF vars, Agreement
  <2>4. QED
    BY <2>1, <2>2, <2>3 DEF Next
<1>3. QED
  BY <1>1, <1>2, FormedInvariant, PTL DEF Spec, AgreeInv

(* On an exact path, of whatever length and whatever instructions, a       *)
(* register stands on every input for what a processor given that input    *)
(* has in it: executeNonBranch does what the instructions do.              *)
THEOREM RegistersAgree == Spec => []FragmentRegistersAgree
<1>1. AgreeInv => FragmentRegistersAgree
  BY DEF AgreeInv, Agreement, Follows, FragmentRegistersAgree
<1>2. QED
  BY <1>1, AgreeInvariant, PTL

(* So does every byte of the memory: the stores and loads of MemoryModel,  *)
(* however they overlap and wrap around, are those of a processor.         *)
THEOREM MemoryAgrees == Spec => []FragmentMemoryAgrees
<1>1. AgreeInv => FragmentMemoryAgrees
  BY DEF AgreeInv, Agreement, Follows, FragmentMemoryAgrees
<1>2. QED
  BY <1>1, AgreeInvariant, PTL

(* After a comparison on an exact path the condition of a branch holds of  *)
(* just the inputs on which the flags of a processor let it be taken.      *)
THEOREM BranchesAgree == Spec => []FragmentBranchesAgree
<1>1. ASSUME AgreeInv PROVE FragmentBranchesAgree
  <2> SUFFICES ASSUME exact, compared,
                      NEW mn \in {"je", "jne", "jb", "ja", "jbe", "jae",
                                  "jl", "jle", "jg", "jge"}
               PROVE  branchCondition(data, mn)
                        = {i \in Assignments : Taken(machines[i], mn)}
    BY DEF FragmentBranchesAgree
  <2>1. ASSUME NEW i \in Assignments
        PROVE  i \in branchCondition(data, mn) <=> Taken(machines[i], mn)
    <3>1. Flagged(machines[i], data, i)
      BY <1>1 DEF AgreeInv, Agreement
    <3>2. QED
      BY <3>1, BranchesFollow
  <2>2. branchCondition(data, mn) \subseteq Assignments
    BY DEF branchCondition
  <2>3. QED
    BY <2>1, <2>2
<1>2. QED
  BY <1>1, AgreeInvariant, PTL

-----------------------------------------------------------------------------
(* The stack pointer, exact path or not.                                   *)

(* The processor c has the stack pointer the data d stand for.             *)
Tracks(c, d, i) ==
  /\ DOMAIN c = {"regs", "mem", "zf", "sf", "cf", "of"}
  /\ DOMAIN c.regs = DOMAIN CapNames
  /\ Word(d.regs["rsp"])[i] = c.regs["rsp"]

LEMMA RspNamed ==
  /\ Named("rsp") /\ Family("rsp") = "rsp" /\ capRegName("rsp") = "rsp"
  /\ "rsp" \in DOMAIN CapNames /\ "rsp" \in RegKeys
<1>1. "rsp" \in DOMAIN CapNames /\ "rsp" \in CapNames["rsp"]
  BY DEF CapNames
<1>2. \A n \in DOMAIN CapNames : "rsp" \in CapNames[n] => n = "rsp"
  BY DEF CapNames
<1>3. Family("rsp") = "rsp"
  BY <1>1, <1>2 DEF Family
<1>4. capRegName("rsp") = "rsp"
  BY <1>1, <1>2 DEF capRegName
<1>5. QED
  BY <1>1, <1>3, <1>4 DEF Named, RegKeys

LEMMA WrittenElsewhere ==
  ASSUME NEW d, Sound(d), NEW i, NEW c, Tracks(c, d, i),
         NEW o, Elsewhere(o), NEW v, NEW n
  PROVE  /\ Tracks(Put(c, o, n), d, i)
         /\ writeOperand(d, o, v).regs["rsp"] = d.regs["rsp"]
<1> DEFINE e == writeOperand(d, o, v)
           f == Put(c, o, n)
<1>1. CASE o.kind = "mem"
  <2>1. e.regs = d.regs
    BY <1>1 DEF writeOperand, Sound, Fields
  <2>2. DOMAIN f = DOMAIN c /\ f.regs = c.regs
    BY <1>1 DEF Put, Store, Tracks
  <2> HIDE DEF e, f
  <2>3. Tracks(f, d, i) /\ e.regs["rsp"] = d.regs["rsp"]
    BY <2>1, <2>2 DEF Tracks
  <2>4. QED
    BY <2>3 DEF e, f
<1>2. CASE o.kind = "reg" /\ Named(o.reg) /\ Family(o.reg) # "rsp"
  <2>1. capRegName(o.reg) # "rsp"
    BY <1>2, FamilyOfNamed
  <2>2. e.regs["rsp"] = d.regs["rsp"]
    BY <1>2, <2>1, RspNamed DEF writeOperand, setReg, Sound, Fields
  <2>3. PICK x : f = [c EXCEPT !.regs[Family(o.reg)] = x]
    BY <1>2 DEF Put
  <2>4. /\ DOMAIN f = DOMAIN c /\ DOMAIN f.regs = DOMAIN c.regs
        /\ f.regs["rsp"] = c.regs["rsp"]
    BY <1>2, <2>3 DEF Tracks
  <2> HIDE DEF e, f
  <2>5. Tracks(f, d, i)
    BY <2>4 DEF Tracks
  <2>6. QED
    BY <2>2, <2>5 DEF e, f
<1>3. QED
  BY <1>1, <1>2 DEF Elsewhere

(* The engine takes words from words where the processor takes numbers.    *)
LEMMA StackMovesAgree ==
  ASSUME NEW d, Formed(d), NEW i \in Assignments, NEW c, Tracks(c, d, i)
  PROVE  /\ Word(StackMoved(d, "sub"))[i] = Wrap(c.regs["rsp"] - WordBytes)
         /\ Word(StackMoved(d, "add"))[i] = Wrap(c.regs["rsp"] + WordBytes)
<1> DEFINE o == Reg("rsp", WordBytes)
           p == Imm(WordBytes)
<1>1. Readable(o) /\ Readable(p)
  BY SizesAssumption DEF Readable, Reg, Imm
<1>2. PICK a \in Int : a = c.regs["rsp"] /\ a = Word(readOperand(d, o))[i]
  <2>1. readOperand(d, o) = d.regs["rsp"]
    BY RspNamed DEF readOperand, getReg, Reg
  <2>2. Word(d.regs["rsp"])[i] \in Words
    BY RspNamed, WordOfTerm DEF Formed
  <2>3. QED
    BY <2>1, <2>2, PowersPositive DEF Tracks, Words
<1>3. PICK M \in Nat \ {0}, k \in Int : M = 2^WordBits /\ k = WordBytes
  BY PowersPositive, SizesAssumption
<1>4. Word(readOperand(d, p))[i] = k % M
  <2>1. readOperand(d, p).expr.val[i] = k % M
    BY <1>3 DEF readOperand, Imm, Concrete, Numeral
  <2>2. Word(readOperand(d, p))[i] = readOperand(d, p).expr.val[i]
    BY <1>1, ReadIsTerm, WordOfTerm
  <2>3. QED
    BY <2>1, <2>2
<1>5. ASSUME NEW mn \in {"sub", "add"}
      PROVE  Word(StackMoved(d, mn))[i] = Compute(mn, a, k % M)
  <2>1. /\ IsTerm(Combine(d, mn, o, p).expr, Widths)
        /\ Combine(d, mn, o, p).expr.val[i] = Compute(mn, a, k % M)
    BY <1>1, <1>2, <1>4, CombineIsTerm
  <2>2. StackMoved(d, mn) = Combine(d, mn, o, p)
    BY DEF StackMoved
  <2> HIDE DEF o, p
  <2>3. QED
    BY <2>1, <2>2, WordOfTerm
<1>6. PICK q \in Int, r \in 0 .. M - 1 : r = k % M /\ k = q * M + r
  BY DividesWithRest
<1>7. Wrap(a - r) = Wrap(a - k)
  <2>1. PICK x \in Int, y \in Int : x = a - k /\ y = q * M
    BY <1>3
  <2>2. a - r = x + q * M
    BY <1>6, <2>1
  <2>3. (x + q * M) % M = x % M
    BY MultiplesLeaveTheRest
  <2>4. QED
    BY <1>3, <2>1, <2>2, <2>3 DEF Wrap
<1>8. Wrap(a + r) = Wrap(a + k)
  <2>1. ((k % M) + a) % M = (k + a) % M
    BY <1>3, RestsAdd
  <2>2. (k % M) + a = a + r /\ k + a = a + k
    BY <1>6
  <2>3. QED
    BY <1>3, <2>1, <2>2 DEF Wrap
<1>9. Compute("sub", a, r) = Wrap(a - r) /\ Compute("add", a, r) = Wrap(a + r)
  BY DEF Compute
<1>10. QED
  BY <1>2, <1>3, <1>5, <1>6, <1>7, <1>8, <1>9

LEMMA RspSet ==
  ASSUME NEW d, DOMAIN d = Fields, DOMAIN d.regs = RegKeys, NEW v
  PROVE  setReg(d, "rsp", v).regs["rsp"] = v
BY RspNamed DEF setReg, Fields

LEMMA FlagsTrack ==
  ASSUME NEW d, NEW i, NEW c, Tracks(c, d, i), NEW n, NEW size, NEW carry,
         NEW overflow
  PROVE  Tracks(Flags(c, n, size, carry, overflow), d, i)
<1> DEFINE m == Flags(c, n, size, carry, overflow)
<1>1. DOMAIN m = DOMAIN c /\ m.regs = c.regs
  BY DEF Flags, Tracks
<1> HIDE DEF m
<1>2. Tracks(m, d, i)
  BY <1>1 DEF Tracks
<1>3. QED
  BY <1>2 DEF m

(* The stack pointer may move by the result of an operation on it.         *)
LEMMA StackArithmetic ==
  ASSUME NEW d, Sound(d), Formed(d), NEW i \in Assignments,
         NEW c, Tracks(c, d, i), NEW ins, NEW o, NEW p,
         o = ins.ops[1], p = ins.ops[2], Legal(o), Legal(p),
         ins.mn \in {"add", "sub", "xor", "and", "or"},
         o.kind = "reg", o.reg = "rsp", o.size = WordBytes, p.kind = "imm",
         NEW x, NEW y, x = Get(c, o), y = Low(Get(c, p), o.size),
         NEW f, Tracks(f, d, i)
  PROVE  Tracks(Put(f, o, Result(ins.mn, x, y)), Arithmetic(d, ins), i)
<1> DEFINE v == Combine(d, ins.mn, o, p)
<1>1. readOperand(d, o) = d.regs["rsp"]
  BY RspNamed DEF readOperand, getReg
<1>2. x = Word(readOperand(d, o))[i] /\ x \in Words
  <2>1. Word(d.regs["rsp"])[i] \in Words
    BY RspNamed, WordOfTerm DEF Formed
  <2>2. x = Low(c.regs["rsp"], WordBytes)
    BY RspNamed DEF Get
  <2>3. QED
    BY <1>1, <2>1, <2>2, LowOfWord DEF Tracks
<1>3. y = Word(readOperand(d, p))[i] /\ y \in Words
  <2>1. PICK n \in Words, m \in Nat \ {0} : n = p.imm /\ m = 2^WordBits
    BY PowersPositive DEF Legal
  <2>2. n % m = n
    BY <2>1, WordIsItself DEF Words
  <2>3. readOperand(d, p).expr.val[i] = n
    BY <2>1, <2>2 DEF readOperand, Concrete, Numeral
  <2>4. Word(readOperand(d, p))[i] = n
    BY <2>3, ReadIsTerm, LegalIsReadable, WordOfTerm
  <2>5. y = n
    BY <2>1, LowOfWord DEF Get
  <2>6. QED
    BY <2>4, <2>5
<1>4. /\ IsTerm(v.expr, Widths)
      /\ v.expr.val[i] = Compute(ins.mn, x, y)
  BY <1>2, <1>3, CombineIsTerm, LegalIsReadable
<1>5. PICK n \in Int : /\ n = Result(ins.mn, x, y)
                       /\ Wrap(n) = Compute(ins.mn, x, y)
  BY <1>2, <1>3, ResultWraps
<1>6. Arithmetic(d, ins) = setReg(d, "rsp", v)
  BY DEF Arithmetic, writeOperand
<1> HIDE DEF v
<1> DEFINE e == Arithmetic(d, ins)
           m == Put(f, o, n)
<1>7. e.regs["rsp"] = v
  BY <1>6, RspSet DEF Sound
<1>8. m = [f EXCEPT !.regs["rsp"] = Wrap(n)]
  BY RspNamed, LowOfWord DEF Put
<1>9. DOMAIN m = DOMAIN f /\ DOMAIN m.regs = DOMAIN f.regs
      /\ m.regs["rsp"] = Wrap(n)
  <2> HIDE DEF m
  <2>1. QED
    BY <1>8, RspNamed DEF Tracks
<1>10. Word(v)[i] = Wrap(n)
  BY <1>4, <1>5, WordOfTerm
<1> HIDE DEF e, m
<1>11. Tracks(m, e, i)
  BY <1>7, <1>9, <1>10 DEF Tracks
<1>12. QED
  BY <1>5, <1>11 DEF e, m

LEMMA StepTracks ==
  ASSUME NEW d, Sound(d), Formed(d), NEW i \in Assignments,
         NEW c, Tracks(c, d, i), NEW ins,
         Legal(ins.ops[1]), Legal(ins.ops[2]), StackByNumbers(ins)
  PROVE  Tracks(Perform(c, ins), executeNonBranch(d, ins), i)
<1> DEFINE o == ins.ops[1]
           p == ins.ops[2]
           x == Get(c, o)
           y == Low(Get(c, p), o.size)
           e == executeNonBranch(d, ins)
           f == Perform(c, ins)
<1>1. CASE ins.mn \in {"mov", "movzx", "movsxd", "lea"}
  <2>1. Elsewhere(o)
    BY <1>1 DEF StackByNumbers
  <2>2. PICK n : f = Put(c, o, n)
    BY <1>1 DEF Perform
  <2>3. \/ e = d
        \/ \E v : e = writeOperand(d, o, v)
    BY <1>1 DEF executeNonBranch, Move, LoadAddress
  <2> HIDE DEF o, e, f
  <2>4. e.regs["rsp"] = d.regs["rsp"] /\ Tracks(f, d, i)
    BY <2>1, <2>2, <2>3, WrittenElsewhere
  <2>5. Tracks(f, e, i)
    BY <2>4 DEF Tracks
  <2>6. QED
    BY <2>5 DEF e, f
<1>2. CASE ins.mn \in {"add", "sub", "xor", "and", "or"}
  <2>1. PICK g : f = Put(g, o, Result(ins.mn, x, y)) /\ Tracks(g, d, i)
    <3>1. CASE ins.mn = "add"
      <4>1. f = Put(AddFlags(c, x, y, o.size), o, Result(ins.mn, x, y))
        BY <3>1 DEF Perform
      <4>2. Tracks(AddFlags(c, x, y, o.size), d, i)
        BY FlagsTrack DEF AddFlags
      <4>3. QED
        BY <4>1, <4>2
    <3>2. CASE ins.mn = "sub"
      <4>1. f = Put(SubFlags(c, x, y, o.size), o, Result(ins.mn, x, y))
        BY <3>2 DEF Perform
      <4>2. Tracks(SubFlags(c, x, y, o.size), d, i)
        BY FlagsTrack DEF SubFlags
      <4>3. QED
        BY <4>1, <4>2
    <3>3. CASE ins.mn \in {"xor", "and", "or"}
      BY <3>3, FlagsTrack DEF Perform, LogicFlags
    <3>4. QED
      BY <1>2, <3>1, <3>2, <3>3
  <2>2. e = Arithmetic(d, ins)
    BY <1>2 DEF executeNonBranch
  <2>3. CASE Elsewhere(o)
    <3>1. Tracks(Put(g, o, Result(ins.mn, x, y)), d, i)
      BY <2>1, <2>3, WrittenElsewhere
    <3>2. PICK v : e = writeOperand(d, o, v)
      BY <2>2 DEF Arithmetic
    <3>3. e.regs["rsp"] = d.regs["rsp"]
      BY <2>1, <2>3, <3>2, WrittenElsewhere
    <3> HIDE DEF e, f
    <3>4. Tracks(f, e, i)
      BY <2>1, <3>1, <3>3 DEF Tracks
    <3>5. QED
      BY <3>4 DEF e, f
  <2>4. CASE ~Elsewhere(o)
    <3>1. /\ o.kind = "reg" /\ o.reg = "rsp" /\ o.size = WordBytes
          /\ p.kind = "imm"
      BY <1>2, <2>4 DEF StackByNumbers
    <3> HIDE DEF o, p, x, y, e, f
    <3>2. Tracks(Put(g, o, Result(ins.mn, x, y)), Arithmetic(d, ins), i)
      BY <1>2, <2>1, <3>1, StackArithmetic DEF o, p, x, y
    <3>3. QED
      BY <2>1, <2>2, <3>2 DEF e, f
  <2>5. QED
    BY <2>3, <2>4
<1>3. CASE ins.mn \in {"cmp", "test"}
  <2>1. Tracks(f, d, i)
    <3>1. CASE ins.mn = "cmp"
      BY <3>1, FlagsTrack DEF Perform, SubFlags
    <3>2. CASE ins.mn = "test"
      BY <3>2, FlagsTrack DEF Perform, LogicFlags
    <3>3. QED
      BY <1>3, <3>1, <3>2
  <2>2. e.regs = d.regs
    BY <1>3 DEF executeNonBranch, Compare, Test, Sound, Fields
  <2>3. QED
    BY <2>1, <2>2 DEF Tracks
<1>4. CASE ins.mn = "push"
  <2> DEFINE v == StackMoved(d, "sub")
  <2>1. e = setReg(d, "rsp", v)
    <3>1. v.is_concrete = FALSE
      BY CombineConstant DEF StackMoved
    <3>2. QED
      BY <1>4, <3>1 DEF executeNonBranch, Push
  <2>2. PICK s : f = [Store(c, Wrap(c.regs["rsp"] - WordBytes), s, WordBytes)
                        EXCEPT !.regs["rsp"] = Wrap(c.regs["rsp"] - WordBytes)]
    BY <1>4 DEF Perform
  <2>3. /\ DOMAIN f = DOMAIN c /\ DOMAIN f.regs = DOMAIN c.regs
        /\ f.regs["rsp"] = Wrap(c.regs["rsp"] - WordBytes)
    <3> HIDE DEF f
    <3>1. QED
      BY <2>2, RspNamed DEF Store, Tracks
  <2> HIDE DEF v, e, f
  <2>4. e.regs["rsp"] = v
    BY <2>1, RspSet DEF Sound
  <2>5. Tracks(f, e, i)
    BY <2>3, <2>4, StackMovesAgree DEF v, Tracks
  <2>6. QED
    BY <2>5 DEF e, f
<1>5. CASE ins.mn = "pop"
  <2> DEFINE v == StackMoved(d, "add")
             rsp == getReg(d, "rsp")
             u == IF rsp.is_concrete
                  THEN writeOperand(d, o, MemRead(d.mem, rsp.concrete, WordBytes))
                  ELSE d
             g == [c EXCEPT !.regs["rsp"] = Wrap(c.regs["rsp"] + WordBytes)]
             w == setReg(d, "rsp", v)
  <2>1. Elsewhere(o)
    BY <1>5 DEF StackByNumbers
  <2>2. e = setReg(u, "rsp", v)
    BY <1>5 DEF executeNonBranch, Pop
  <2>3. PICK n : f = Put(g, o, n)
    BY <1>5 DEF Perform
  <2>4. /\ DOMAIN g = DOMAIN c /\ DOMAIN g.regs = DOMAIN c.regs
        /\ g.regs["rsp"] = Wrap(c.regs["rsp"] + WordBytes)
    BY RspNamed DEF Tracks
  <2>5. Sound(u)
    <3>1. Constant(MemRead(d.mem, rsp.concrete, WordBytes))
      BY TermsAreSymbolic, SymbolicConstant DEF MemRead
    <3>2. QED
      BY <3>1, OperandSound
  <2>6. Constant(v)
    BY CombineConstant DEF StackMoved
  <2> HIDE DEF v, u, g
  <2>7. Sound(w) /\ w.regs["rsp"] = v
    BY <2>6, SetRegSound, RspSet DEF Sound
  <2> HIDE DEF w
  <2>8. Tracks(g, w, i)
    BY <2>4, <2>7, StackMovesAgree DEF v, Tracks
  <2>9. Tracks(Put(g, o, n), w, i)
    BY <2>1, <2>7, <2>8, WrittenElsewhere
  <2>10. e.regs["rsp"] = v
    BY <2>2, <2>5, RspSet DEF Sound
  <2> HIDE DEF e, f
  <2>11. Tracks(f, e, i)
    BY <2>3, <2>7, <2>9, <2>10 DEF Tracks
  <2>12. QED
    BY <2>11 DEF e, f
<1>6. QED
  BY <1>1, <1>2, <1>3, <1>4, <1>5 DEF StackByNumbers

StackInv ==
  /\ DOMAIN machines = Assignments
  /\ \A i \in Assignments : Tracks(machines[i], data, i)

(* If a path treats the stack pointer the way compilers do, it has on      *)
(* every input the value the processor has, whatever else is done: pushes  *)
(* and pops that store and load nothing still move it.                     *)
THEOREM StackPointerFollows ==
  ASSUME \A ins \in Instructions : StackByNumbers(ins)
  PROVE  Spec => []StackPointerAgrees
<1>1. Init => StackInv
  <2>1. ASSUME NEW i \in Assignments PROVE Tracks(PowerOn(i), InitialData, i)
    BY InitFollows, RspNamed DEF Follows, Tracks
  <2>2. QED
    BY <2>1 DEF Init, StackInv
<1>2. FormedInv /\ StackInv /\ [Next]_vars => StackInv'
  <2> SUFFICES ASSUME FormedInv, StackInv, [Next]_vars PROVE StackInv'
    OBVIOUS
  <2>1. ASSUME NEW ins \in Instructions, Execute(ins) PROVE StackInv'
    <3>1. DOMAIN machines' = Assignments
      BY <2>1 DEF Execute
    <3>2. ASSUME NEW i \in Assignments PROVE Tracks(machines'[i], data', i)
      <4>1. Sound(data) /\ Formed(data) /\ Tracks(machines[i], data, i)
        BY DEF FormedInv, DataInv, StackInv
      <4>2. /\ Legal(ins.ops[1]) /\ Legal(ins.ops[2]) /\ StackByNumbers(ins)
        BY InstructionsLegal
      <4>3. /\ machines'[i] = Perform(machines[i], ins)
            /\ data' = executeNonBranch(data, ins)
        BY <2>1 DEF Execute
      <4>4. QED
        BY <4>1, <4>2, <4>3, StepTracks
    <3>3. QED
      BY <3>1, <3>2 DEF StackInv
  <2>2. ASSUME NEW ins \in Instructions, Throw(ins) PROVE StackInv'
    BY <2>2 DEF Throw, StackInv
  <2>3. CASE UNCHANGED vars
    BY <2>3 DEF vars, StackInv
  <2>4. QED
    BY <2>1, <2>2, <2>3 DEF Next
<1>3. StackInv => StackPointerAgrees
  BY DEF StackInv, Tracks, StackPointerAgrees
<1>4. QED
  BY <1>1, <1>2, <1>3, FormedInvariant, PTL DEF Spec
=============================================================================
