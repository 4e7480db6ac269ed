------------------------------ MODULE LibMachine ------------------------------
(***************************************************************************)
(* A processor that runs the loaded program on one valuation: one set of   *)
(* registers, true flags, return addresses and pushed values on one stack. *)
(* The client writes the value of a symbolic constant where it marks one.  *)
(***************************************************************************)
EXTENDS LibExecutor

Wide(r) == IF r \in DOMAIN Alias THEN Alias[r] ELSE r

Started == [pc |-> Entry, reg |-> [r \in RegisterNames |-> 0],
            mem |-> [a \in Word |-> 0], stack |-> <<0>>]

Address(m, o) == Wrap((IF o.name = "" THEN 0 ELSE m.reg[Wide(o.name)]) + o.num)
Value(m, o) == CASE o.kind = "reg" -> m.reg[Wide(o.name)]
                 [] o.kind = "imm" -> o.num
                 [] o.kind = "mem" -> m.mem[Address(m, o)]
Put(m, o, n) == IF o.kind = "reg" THEN [m EXCEPT !.reg[Wide(o.name)] = n]
                ELSE [m EXCEPT !.mem[Address(m, o)] = n]

(* The flags of the result n of a and b, where c tells a carry and s is    *)
(* what it would be on signed numbers without end.                         *)
Flagged(m, n, c, s) ==
  [m EXCEPT !.reg = [@ EXCEPT !.zf = Bool(n = 0), !.sf = Bool(Negative(n)),
                              !.cf = Bool(c), !.of = Bool(s # Signed(n))]]
Added(m, a, b) ==
  Flagged(m, Wrap(a + b), a + b >= Size, Signed(a) + Signed(b))
Compared(m, a, b) == Flagged(m, Wrap(a - b), a < b, Signed(a) - Signed(b))
Logical(m, n) == Flagged(m, n, FALSE, Signed(n))

Taken(m, j) ==
  LET zero == m.reg.zf # 0
      carry == m.reg.cf # 0
      less == m.reg.sf # m.reg.of
  IN  CASE j = "je"  -> zero
        [] j = "jne" -> ~zero
        [] j = "jb"  -> carry
        [] j = "jae" -> ~carry
        [] j = "ja"  -> ~carry /\ ~zero
        [] j = "jbe" -> carry \/ zero
        [] j = "jl"  -> less
        [] j = "jge" -> ~less
        [] j = "jle" -> less \/ zero
        [] j = "jg"  -> ~less /\ ~zero

Executed(m, i) ==
  LET j == i.mnemonic
      o == i.operands
      next == [m EXCEPT !.pc = @ + i.size]
  IN  CASE j = "mov" -> Put(next, o[1], Value(m, o[2]))
        [] j = "lea" -> Put(next, o[1], Address(m, o[2]))
        [] j = "cmp" -> Compared(next, Value(m, o[1]), Value(m, o[2]))
        [] j \in Arithmetic ->
             LET a == Value(m, o[1])
                 b == Value(m, o[2])
                 n == Fold(Op[j], a, b)
                 put == Put(next, o[1], n)
             IN  CASE j = "add" -> Added(put, a, b)
                   [] j = "sub" -> Compared(put, a, b)
                   [] j \in {"and", "or", "xor"} -> Logical(put, n)
                   [] OTHER -> put
        [] j = "push" -> [next EXCEPT !.stack = Append(@, Value(m, o[1]))]
        [] j = "pop" -> [Put(next, o[1], Last(m.stack)) EXCEPT !.stack = Front(@)]
        [] j = "jmp" -> [m EXCEPT !.pc = o[1].num]
        [] isCall(i) -> [m EXCEPT !.stack = Append(@, next.pc), !.pc = o[1].num]
        [] isReturn(i) -> [m EXCEPT !.stack = Front(@), !.pc = Last(m.stack)]
        [] j \in Conditional -> IF Taken(m, j) THEN [m EXCEPT !.pc = o[1].num]
                                ELSE next
        [] OTHER -> next

Stepped(m, v) ==
  LET k == CHOOSE k \in client.marks : k.at = m.pc
      marked == IF \E j \in client.marks : j.at = m.pc
                THEN Put(m, k.to, v[k.name]) ELSE m
  IN  IF Decodes(m.pc) THEN Executed(marked, program[m.pc]) ELSE m

(* The processor after n instructions.                                     *)
After(v, n) ==
  LET Ran[k \in 0 .. n] == IF k = 0 THEN Started ELSE Stepped(Ran[k - 1], v)
  IN  Ran[n]
=============================================================================
