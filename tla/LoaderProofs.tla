----------------------------- MODULE LoaderProofs -----------------------------
(***************************************************************************)
(* The loader reads nothing outside the file unless a sum wraps or a name  *)
(* has no end, and finds the segments the library finds.                   *)
(***************************************************************************)
EXTENDS LibParser, NatRecursion

-----------------------------------------------------------------------------
(* What picking elements of a sequence makes, from one place to the next.  *)

Picking(seq, P, m, f) ==
  f = [k \in 0 .. m |-> IF k = 0 THEN <<>>
                        ELSE IF k \in P THEN Append(f[k - 1], seq[k])
                        ELSE f[k - 1]]

LEMMA PickingExists ==
  ASSUME NEW seq, NEW P, NEW n \in Nat PROVE \E f : Picking(seq, P, n, f)
<1> DEFINE S == {m \in Nat : \E f : Picking(seq, P, m, f)}
<1>1. 0 \in S
  <2> DEFINE f == [k \in 0 .. 0 |-> <<>>]
  <2>1. Picking(seq, P, 0, f)
    BY DEF Picking
  <2>2. QED
    BY <2>1
<1>2. ASSUME NEW m \in Nat, m \in S PROVE m + 1 \in S
  <2>1. PICK f : Picking(seq, P, m, f)
    BY <1>2
  <2> DEFINE last == IF m + 1 \in P THEN Append(f[m], seq[m + 1]) ELSE f[m]
             g == [k \in 0 .. m + 1 |-> IF k = m + 1 THEN last ELSE f[k]]
  <2>2. ASSUME NEW k \in 0 .. m + 1
        PROVE  g[k] = IF k = 0 THEN <<>>
                      ELSE IF k \in P THEN Append(g[k - 1], seq[k])
                      ELSE g[k - 1]
    <3>1. CASE k = m + 1
      <4>1. g[k] = last /\ g[k - 1] = f[m] /\ k # 0
        BY <3>1
      <4>2. QED
        BY <3>1, <4>1
    <3>2. CASE k # m + 1
      <4>1. k \in 0 .. m /\ (k # 0 => k - 1 \in 0 .. m)
        BY <3>2
      <4>2. f[k] = IF k = 0 THEN <<>>
                   ELSE IF k \in P THEN Append(f[k - 1], seq[k])
                   ELSE f[k - 1]
        BY <2>1, <4>1 DEF Picking
      <4>3. g[k] = f[k] /\ (k # 0 => g[k - 1] = f[k - 1])
        BY <3>2, <4>1
      <4>4. QED
        BY <4>2, <4>3
    <3>3. QED
      BY <3>1, <3>2
  <2>3. Picking(seq, P, m + 1, g)
    BY <2>2 DEF Picking
  <2> HIDE DEF g
  <2>4. QED
    BY <2>3
<1>3. \A m \in Nat : m \in S
  <2> HIDE DEF S
  <2>1. QED
    BY <1>1, <1>2, Induction
<1>4. QED
  BY <1>3

(* One step of it, without the function it is a value of.                  *)
Grows(seq, P, m, f) ==
  /\ f[0] = <<>>
  /\ \A k \in Nat : k + 1 <= m =>
       f[k + 1] = IF k + 1 \in P THEN Append(f[k], seq[k + 1]) ELSE f[k]

LEMMA PickedGrows ==
  ASSUME NEW T, NEW seq \in Seq(T), NEW P
  PROVE  \E f : Grows(seq, P, Len(seq), f) /\ Picked(seq, P) = f[Len(seq)]
<1>1. PICK m \in Nat : m = Len(seq)
  OBVIOUS
<1> DEFINE g == CHOOSE f : Picking(seq, P, m, f)
<1>2. Picking(seq, P, m, g)
  <2>1. \E f : Picking(seq, P, m, f)
    BY PickingExists
  <2>2. QED
    BY <2>1
<1>3. Picked(seq, P) = g[m]
  BY <1>1 DEF Picked, Picking
<1> HIDE DEF g
<1>4. g[0] = <<>>
  BY <1>2 DEF Picking
<1>5. ASSUME NEW k \in Nat, k + 1 <= m
      PROVE  g[k + 1] = IF k + 1 \in P THEN Append(g[k], seq[k + 1]) ELSE g[k]
  <2>1. k + 1 \in 0 .. m /\ k + 1 # 0 /\ (k + 1) - 1 = k
    BY <1>5
  <2>2. g[k + 1] = IF k + 1 \in P THEN Append(g[(k + 1) - 1], seq[k + 1])
                   ELSE g[(k + 1) - 1]
    BY <1>2, <2>1 DEF Picking
  <2>3. QED
    BY <2>1, <2>2
<1>6. Grows(seq, P, m, g)
  BY <1>4, <1>5 DEF Grows
<1>7. QED
  BY <1>1, <1>3, <1>6

(* Whatever is picked was at one of the places.                            *)
Among(s, T, seq, m, P) ==
  /\ s \in Seq(T)
  /\ \A i \in DOMAIN s : \E j \in 1 .. m : j \in P /\ s[i] = seq[j]

LEMMA PickedComesFrom ==
  ASSUME NEW T, NEW seq \in Seq(T), NEW P
  PROVE  Among(Picked(seq, P), T, seq, Len(seq), P)
<1>1. PICK m \in Nat : m = Len(seq)
  OBVIOUS
<1>2. PICK f : Grows(seq, P, m, f) /\ Picked(seq, P) = f[m]
  BY <1>1, PickedGrows
<1> DEFINE S == {k \in Nat : k <= m => Among(f[k], T, seq, m, P)}
<1>3. 0 \in S
  <2>1. f[0] = <<>> /\ <<>> \in Seq(T) /\ DOMAIN <<>> = {}
    BY <1>2 DEF Grows
  <2>2. QED
    BY <2>1 DEF Among
<1>4. ASSUME NEW k \in Nat, k \in S PROVE k + 1 \in S
  <2>1. SUFFICES ASSUME k + 1 <= m PROVE Among(f[k + 1], T, seq, m, P)
    OBVIOUS
  <2>2. Among(f[k], T, seq, m, P)
    BY <1>4, <2>1
  <2>3. f[k + 1] = IF k + 1 \in P THEN Append(f[k], seq[k + 1]) ELSE f[k]
    BY <1>2, <2>1 DEF Grows
  <2>4. CASE k + 1 \in P
    <3>1. k + 1 \in 1 .. m /\ seq[k + 1] \in T
      BY <1>1, <2>1
    <3>2. f[k + 1] = Append(f[k], seq[k + 1]) /\ f[k] \in Seq(T)
      BY <2>2, <2>3, <2>4 DEF Among
    <3>3. PICK n \in Nat : n = Len(f[k]) /\ DOMAIN f[k] = 1 .. n
      BY <3>2
    <3>4. /\ f[k + 1] \in Seq(T) /\ DOMAIN f[k + 1] = 1 .. n + 1
          /\ f[k + 1][n + 1] = seq[k + 1]
          /\ \A i \in 1 .. n : f[k + 1][i] = f[k][i]
      BY <3>1, <3>2, <3>3
    <3>5. ASSUME NEW i \in 1 .. n + 1
          PROVE  \E j \in 1 .. m : j \in P /\ f[k + 1][i] = seq[j]
      <4>1. CASE i = n + 1
        BY <2>4, <3>1, <3>4, <4>1
      <4>2. CASE i \in 1 .. n
        BY <2>2, <3>3, <3>4, <4>2 DEF Among
      <4>3. QED
        BY <4>1, <4>2
    <3>6. QED
      BY <3>4, <3>5 DEF Among
  <2>5. CASE k + 1 \notin P
    BY <2>2, <2>3, <2>5
  <2>6. QED
    BY <2>4, <2>5
<1>5. m \in S
  <2> HIDE DEF S
  <2>1. QED
    BY <1>3, <1>4, Induction
<1>6. QED
  BY <1>1, <1>2, <1>5

(* At all places, everything is picked.                                    *)
Same(s, T, seq, k) ==
  s \in Seq(T) /\ Len(s) = k /\ \A i \in 1 .. k : s[i] = seq[i]

LEMMA PickedWhole ==
  ASSUME NEW T, NEW seq \in Seq(T), NEW P, 1 .. Len(seq) \subseteq P
  PROVE  Picked(seq, P) = seq
<1>1. PICK m \in Nat : m = Len(seq)
  OBVIOUS
<1>2. PICK f : Grows(seq, P, m, f) /\ Picked(seq, P) = f[m]
  BY <1>1, PickedGrows
<1> DEFINE S == {k \in Nat : k <= m => Same(f[k], T, seq, k)}
<1>3. 0 \in S
  <2>1. f[0] = <<>> /\ <<>> \in Seq(T) /\ Len(<<>>) = 0
    BY <1>2 DEF Grows
  <2>2. \A i \in 1 .. 0 : <<>>[i] = seq[i]
    OBVIOUS
  <2>3. QED
    BY <2>1, <2>2 DEF Same
<1>4. ASSUME NEW k \in Nat, k \in S PROVE k + 1 \in S
  <2>1. SUFFICES ASSUME k + 1 <= m PROVE Same(f[k + 1], T, seq, k + 1)
    OBVIOUS
  <2>2. Same(f[k], T, seq, k)
    BY <1>4, <2>1
  <2>3. k + 1 \in 1 .. m /\ k + 1 \in P /\ seq[k + 1] \in T
    BY <1>1, <2>1
  <2>4. f[k + 1] = Append(f[k], seq[k + 1])
    BY <1>2, <2>1, <2>3 DEF Grows
  <2>5. f[k + 1] \in Seq(T) /\ Len(f[k + 1]) = k + 1
    BY <2>2, <2>3, <2>4 DEF Same
  <2>6. ASSUME NEW i \in 1 .. k + 1 PROVE f[k + 1][i] = seq[i]
    BY <2>2, <2>3, <2>4 DEF Same
  <2>7. QED
    BY <2>5, <2>6 DEF Same
<1>5. m \in S
  <2> HIDE DEF S
  <2>1. QED
    BY <1>3, <1>4, Induction
<1>6. Same(Picked(seq, P), T, seq, m)
  BY <1>2, <1>5
<1>7. QED
  BY <1>1, <1>6 DEF Same

(* From a sequence one starts with, at the same places, no less is picked, *)
(* and first the same.                                                     *)
Starts(s, t) == Len(s) <= Len(t) /\ \A i \in 1 .. Len(s) : s[i] = t[i]

LEMMA PickedStarts ==
  ASSUME NEW T, NEW seq \in Seq(T), NEW more \in Seq(T), Starts(seq, more),
         NEW P, NEW Q, \A k \in 1 .. Len(seq) : k \in P <=> k \in Q
  PROVE  Starts(Picked(seq, P), Picked(more, Q))
<1>1. PICK m \in Nat, n \in Nat : m = Len(seq) /\ n = Len(more) /\ m <= n
  BY DEF Starts
<1>2. PICK f : Grows(seq, P, m, f) /\ Picked(seq, P) = f[m]
  BY <1>1, PickedGrows
<1>3. PICK g : Grows(more, Q, n, g) /\ Picked(more, Q) = g[n]
  BY <1>1, PickedGrows
<1>4. f[m] \in Seq(T)
  BY <1>2, PickedComesFrom DEF Among
<1>5. f[m] = g[m]
  <2> DEFINE S == {k \in Nat : k <= m => f[k] = g[k]}
  <2>1. 0 \in S
    BY <1>2, <1>3 DEF Grows
  <2>2. ASSUME NEW k \in Nat, k \in S PROVE k + 1 \in S
    <3>1. SUFFICES ASSUME k + 1 <= m PROVE f[k + 1] = g[k + 1]
      OBVIOUS
    <3>2. f[k] = g[k]
      BY <2>2, <3>1
    <3>3. k + 1 \in 1 .. m /\ k + 1 <= n
      BY <1>1, <3>1
    <3>4. seq[k + 1] = more[k + 1] /\ (k + 1 \in P <=> k + 1 \in Q)
      BY <1>1, <3>3 DEF Starts
    <3>5. f[k + 1] = IF k + 1 \in P THEN Append(f[k], seq[k + 1]) ELSE f[k]
      BY <1>2, <3>1 DEF Grows
    <3>6. g[k + 1] = IF k + 1 \in Q THEN Append(g[k], more[k + 1]) ELSE g[k]
      BY <1>3, <3>3 DEF Grows
    <3>7. QED
      BY <3>2, <3>4, <3>5, <3>6
  <2>3. m \in S
    <3> HIDE DEF S
    <3>1. QED
      BY <2>1, <2>2, Induction
  <2>4. QED
    BY <2>3
<1> DEFINE R == {k \in Nat : m + k <= n =>
                    g[m + k] \in Seq(T) /\ Starts(f[m], g[m + k])}
<1>6. 0 \in R
  BY <1>4, <1>5 DEF Starts
<1>7. ASSUME NEW k \in Nat, k \in R PROVE k + 1 \in R
  <2>1. SUFFICES ASSUME m + (k + 1) <= n
                 PROVE  /\ g[m + (k + 1)] \in Seq(T)
                        /\ Starts(f[m], g[m + (k + 1)])
    OBVIOUS
  <2>2. PICK j \in Nat : j = m + k
    OBVIOUS
  <2>3. m + (k + 1) = j + 1 /\ j + 1 \in 1 .. n /\ j <= n
    BY <2>1, <2>2
  <2>4. g[j] \in Seq(T) /\ Starts(f[m], g[j])
    BY <1>7, <2>2, <2>3
  <2>5. g[j + 1] = IF j + 1 \in Q THEN Append(g[j], more[j + 1]) ELSE g[j]
    BY <1>3, <2>3 DEF Grows
  <2>6. more[j + 1] \in T
    BY <1>1, <2>3
  <2>7. CASE j + 1 \in Q
    <3>1. PICK x \in T : x = more[j + 1]
      BY <2>6
    <3>2. g[j + 1] = Append(g[j], x)
      BY <2>5, <2>7, <3>1
    <3>3. PICK a \in Nat, b \in Nat : a = Len(f[m]) /\ b = Len(g[j]) /\ a <= b
      BY <1>4, <2>4 DEF Starts
    <3>4. /\ g[j + 1] \in Seq(T) /\ Len(g[j + 1]) = b + 1
          /\ \A i \in 1 .. b : g[j + 1][i] = g[j][i]
      BY <2>4, <3>2, <3>3
    <3>5. \A i \in 1 .. a : f[m][i] = g[j + 1][i]
      BY <2>4, <3>3, <3>4 DEF Starts
    <3>6. QED
      BY <2>3, <3>3, <3>4, <3>5 DEF Starts
  <2>8. CASE j + 1 \notin Q
    BY <2>3, <2>4, <2>5, <2>8
  <2>9. QED
    BY <2>7, <2>8
<1>8. PICK k \in Nat : n = m + k
  <2>1. n - m \in Nat /\ n = m + (n - m)
    BY <1>1
  <2>2. QED
    BY <2>1
<1>9. k \in R
  <2> HIDE DEF R
  <2>1. QED
    BY <1>6, <1>7, Induction
<1>10. QED
  BY <1>2, <1>3, <1>8, <1>9

-----------------------------------------------------------------------------
(* The invariant.                                                          *)

(* The file is one of those given.                                         *)
Given == \E s \in Sessions : file = s.file

Numbers ==
  /\ {file.phoff, file.phnum, file.phentsize, file.shoff, file.shnum,
      file.shentsize, file.shstrndx} \subseteq Nat
  /\ file.size \in 0 .. Word64 - 1
  /\ \A p \in DOMAIN file.units :
       {file.units[p].offset, file.units[p].size, file.units[p].name}
         \subseteq Nat

LEMMA GivenNumbers == ASSUME Given PROVE Numbers
BY FilesAssumption DEF Given, Numbers

Place == [offset : Nat, size : Nat]

(* Past its header a file is one load accepts; the segments are those of   *)
(* its table; a 32-bit file has no code but what a segment gives.          *)
Begun == stage \in {"arguments", "load", "ended"} \/ Loadable

BinaryOK ==
  /\ bin = [segments |-> bin.segments, text_addr |-> bin.text_addr,
            text_bytes |-> bin.text_bytes]
  /\ bin.text_bytes \in Place
  /\ InFile(bin.text_bytes.offset, bin.text_bytes.size)

Parsed ==
  stage \in {"sections", "fallback", "disassembler"} => bin.segments = Segments

Bare ==
  /\ stage \in {"arguments", "load", "segments"} => bin.text_bytes = NoCode
  /\ stage = "fallback" /\ ~Wide => bin.text_bytes = NoCode
  /\ stage = "sections" => Wide

FromSegment ==
  stage = "disassembler" /\ ~Wide =>
    \E k \in DOMAIN bin.segments :
      LET s == bin.segments[k]
      IN  /\ s.filesz # 0 /\ Fits(s.offset, s.filesz)
          /\ bin.text_addr = s.vaddr
          /\ bin.text_bytes = [offset |-> s.offset, size |-> s.filesz]

Excused ==
  stage = "undefined" => file.class = 64 /\ (SumsWrap \/ NamesRunOn)

IInv == Given /\ Begun /\ BinaryOK /\ Parsed /\ Bare /\ FromSegment /\ Excused

LEMMA LoaderInit == ASSUME Init PROVE IInv
<1>1. Given
  BY DEF Init, Given
<1>2. BinaryOK
  <2>1. file.size \in Nat
    BY <1>1, GivenNumbers, WordsAssumption DEF Numbers
  <2>2. QED
    BY <2>1 DEF Init, BinaryOK, NoBinary, NoCode, Place, InFile
<1>3. Begun /\ Parsed /\ Bare /\ FromSegment /\ Excused
  BY DEF Init, Begun, Parsed, Bare, FromSegment, Excused, NoBinary
<1>4. QED
  BY <1>1, <1>2, <1>3 DEF IInv

-----------------------------------------------------------------------------
(* What is checked is in the file, or a sum wrapped.                       *)

LEMMA FitsOrWraps ==
  ASSUME Numbers, Wide \/ file.class = 32, NEW off \in Nat, NEW size \in Nat,
         Fits(off, size), ~InFile(off, size)
  PROVE  Wide /\ off + size >= Word64
<1>1. Wide
  BY DEF Fits, InFile
<1>2. (off + size) % Word64 <= file.size /\ ~(off + size <= file.size)
  BY <1>1 DEF Fits, InFile
<1>3. PICK n \in Nat, m \in Nat \ {0} : n = off + size /\ m = Word64
  BY WordsAssumption
<1>4. ASSUME n < m PROVE n % m = n
  BY <1>3, <1>4
<1>5. QED
  BY <1>1, <1>2, <1>3, <1>4

(* What an entry of a table says is zero or in one of the units.           *)
LEMMA EntryNumbers ==
  ASSUME Numbers, NEW p
  PROVE  LET e == At(file, p)
         IN  /\ e.offset \in Nat /\ e.size \in Nat /\ e.name \in Nat
             /\ e.offset + e.size >= Word64 => SumsWrap
<1>1. CASE p \in DOMAIN file.units
  BY <1>1 DEF Numbers, At, SumsWrap
<1>2. CASE p \notin DOMAIN file.units
  BY <1>2, WordsAssumption DEF At, Zero
<1>3. QED
  BY <1>1, <1>2

LEMMA EntryFits ==
  ASSUME Numbers, Wide \/ file.class = 32, NEW p,
         Fits(At(file, p).offset, At(file, p).size),
         ~InFile(At(file, p).offset, At(file, p).size)
  PROVE  Wide /\ SumsWrap
<1>1. PICK off \in Nat, size \in Nat :
        off = At(file, p).offset /\ size = At(file, p).size
  BY EntryNumbers
<1>2. Wide /\ off + size >= Word64
  BY <1>1, FitsOrWraps
<1>3. QED
  BY <1>1, <1>2, EntryNumbers

LEMMA WrapsDown ==
  ASSUME NEW n \in Nat, Wide
  PROVE  Wrap(n) \in Nat /\ Wrap(n) <= n /\ (n < Word64 => Wrap(n) = n)
<1>1. PICK m \in Nat \ {0} : m = Word64
  BY WordsAssumption
<1>2. n % m \in 0 .. m - 1 /\ (n < m => n % m = n)
  BY <1>1
<1>3. Wrap(n) = n % m
  BY <1>1 DEF Wrap
<1>4. QED
  BY <1>1, <1>2, <1>3

LEMMA WrapNumber == ASSUME NEW n \in Nat PROVE Wrap(n) \in Nat
<1>1. PICK m \in Nat \ {0} : m = IF Wide THEN Word64 ELSE Word32
  BY WordsAssumption
<1>2. n % m \in Nat
  OBVIOUS
<1>3. QED
  BY <1>1, <1>2 DEF Wrap

(* The entry number k of a table, counted from 1, if nothing wraps.        *)
LEMMA EntryPlace ==
  ASSUME NEW start \in Nat, NEW step \in Nat, NEW k \in Nat \ {0}
  PROVE  start + (k - 1) * step \in Nat
<1>1. PICK j \in Nat : j = k - 1
  OBVIOUS
<1>2. PICK n \in Nat : n = j * step
  OBVIOUS
<1>3. QED
  BY <1>1, <1>2

(* The offsets read are those of entries, and fit.                         *)
FromTable(offs, start, count, step) ==
  /\ offs \in Seq(Nat)
  /\ \A i \in DOMAIN offs :
       /\ Fits(offs[i], 1)
       /\ \E k \in 1 .. count : offs[i] = Wrap(start + (k - 1) * step)

LEMMA ReadFits ==
  ASSUME NEW start \in Nat, NEW count \in Nat, NEW step \in Nat
  PROVE  FromTable(Read(start, count, step), start, count, step)
<1> DEFINE all == Offsets(start, count, step)
           P == {k \in 1 .. count : Fits(all[k], 1)}
<1>1. all \in Seq(Nat) /\ Len(all) = count
  <2>1. ASSUME NEW k \in 1 .. count PROVE Wrap(start + (k - 1) * step) \in Nat
    BY EntryPlace, WrapNumber
  <2>2. QED
    BY <2>1 DEF Offsets
<1>2. \A k \in 1 .. count : all[k] = Wrap(start + (k - 1) * step)
  BY DEF Offsets
<1>3. Read(start, count, step) = Picked(all, P)
  BY DEF Read
<1>4. Among(Picked(all, P), Nat, all, Len(all), P)
  <2> HIDE DEF all, P
  <2>1. QED
    BY <1>1, PickedComesFrom
<1>5. Picked(all, P) \in Seq(Nat)
  BY <1>4 DEF Among
<1>6. ASSUME NEW i \in DOMAIN Picked(all, P)
      PROVE  /\ Fits(Picked(all, P)[i], 1)
             /\ \E k \in 1 .. count :
                  Picked(all, P)[i] = Wrap(start + (k - 1) * step)
  <2>1. PICK k \in 1 .. count : k \in P /\ Picked(all, P)[i] = all[k]
    <3> HIDE DEF all, P
    <3>1. QED
      BY <1>1, <1>4 DEF Among
  <2>2. Fits(all[k], 1)
    BY <2>1
  <2> HIDE DEF all, P
  <2>3. QED
    BY <1>2, <2>1, <2>2
<1> HIDE DEF all, P
<1>7. QED
  BY <1>3, <1>5, <1>6 DEF FromTable

(* One that is not in the file belongs to a sum that wraps.                *)
LEMMA ReadEscapes ==
  ASSUME Numbers, Wide \/ file.class = 32,
         NEW start \in Nat, NEW count \in Nat, NEW step \in Nat,
         NEW i \in DOMAIN Read(start, count, step),
         ~InFile(Read(start, count, step)[i], 1)
  PROVE  /\ Wide
         /\ \E k \in 1 .. count : start + (k - 1) * step + 1 >= Word64
<1> DEFINE offs == Read(start, count, step)
<1>0. FromTable(offs, start, count, step)
  BY ReadFits
<1>1. PICK off \in Nat : off = offs[i]
  BY <1>0 DEF FromTable
<1>2. Fits(off, 1) /\ ~InFile(off, 1)
  BY <1>0, <1>1 DEF FromTable
<1>3. Wide /\ off + 1 >= Word64
  BY <1>2, FitsOrWraps
<1>4. PICK k \in 1 .. count : off = Wrap(start + (k - 1) * step)
  BY <1>0, <1>1 DEF FromTable
<1>5. PICK n \in Nat : n = start + (k - 1) * step
  BY EntryPlace
<1>6. off <= n
  BY <1>3, <1>4, <1>5, WrapsDown
<1>7. n + 1 >= Word64
  BY <1>3, <1>6, WordsAssumption
<1>8. QED
  BY <1>3, <1>5, <1>7

LEMMA HeaderOffsetsFit ==
  ASSUME Numbers
  PROVE  /\ HeaderOffsets \in Seq(Nat)
         /\ \A i \in DOMAIN HeaderOffsets :
              Wide \/ file.class = 32 =>
                InFile(HeaderOffsets[i], 1) \/ (Wide /\ SumsWrap)
<1>1. CASE file.phoff = 0
  BY <1>1 DEF HeaderOffsets
<1>2. CASE file.phoff # 0
  <2> DEFINE offs == Read(file.phoff, file.phnum, file.phentsize)
  <2>1. file.phoff \in Nat /\ file.phnum \in Nat /\ file.phentsize \in Nat
    BY DEF Numbers
  <2>2. HeaderOffsets = offs
    BY <1>2 DEF HeaderOffsets
  <2>3. offs \in Seq(Nat)
    BY <2>1, ReadFits DEF FromTable
  <2>4. ASSUME NEW i \in DOMAIN offs, Wide \/ file.class = 32, ~InFile(offs[i], 1)
        PROVE  Wide /\ SumsWrap
    <3>1. /\ Wide
          /\ \E k \in 1 .. file.phnum :
               file.phoff + (k - 1) * file.phentsize + 1 >= Word64
      BY <2>1, <2>4, ReadEscapes
    <3>2. QED
      BY <3>1 DEF SumsWrap
  <2> HIDE DEF offs
  <2>5. QED
    BY <2>2, <2>3, <2>4
<1>3. QED
  BY <1>1, <1>2

(* A segment is what an entry says, wherever that was read.                *)
LEMMA SegmentsAreEntries ==
  ASSUME Numbers, NEW k \in DOMAIN Segments
  PROVE  \E p : Segments[k] = Segment(At(file, p))
<1> DEFINE offs == HeaderOffsets
           entries == [i \in DOMAIN offs |-> At(file, offs[i])]
           T == {At(file, p) : p \in Nat}
           P == {i \in DOMAIN entries : entries[i].type = "LOAD"}
<1>1. offs \in Seq(Nat)
  BY HeaderOffsetsFit
<1>2. entries \in Seq(T)
  <2>1. PICK n \in Nat : DOMAIN offs = 1 .. n
    BY <1>1
  <2>2. \A i \in 1 .. n : At(file, offs[i]) \in T
    BY <1>1, <2>1
  <2> HIDE DEF T, offs
  <2>3. QED
    BY <2>1, <2>2
<1>3. Segments = [i \in DOMAIN Picked(entries, P) |-> Segment(Picked(entries, P)[i])]
  BY DEF Segments, Loads
<1>4. Among(Picked(entries, P), T, entries, Len(entries), P)
  <2> HIDE DEF entries, T, P
  <2>1. QED
    BY <1>2, PickedComesFrom
<1> HIDE DEF entries, P
<1>5. k \in DOMAIN Picked(entries, P)
  BY <1>3
<1>6. Picked(entries, P)[k] \in T
  BY <1>4, <1>5 DEF Among
<1>7. PICK p : Picked(entries, P)[k] = At(file, p)
  BY <1>6
<1>8. Segments[k] = Segment(Picked(entries, P)[k])
  BY <1>3, <1>5
<1>9. QED
  BY <1>7, <1>8

-----------------------------------------------------------------------------
(* Every step keeps the invariant.                                         *)

LEMMA KnownClass ==
  ASSUME Begun, stage \notin {"arguments", "load", "ended"}
  PROVE  Wide \/ file.class = 32
BY DEF Begun, Loadable, Wide

(* The file is what it was, whatever else a step does.                     *)
LEMMA FileStays ==
  ASSUME IInv, file' = file
  PROVE  /\ Numbers /\ Given'
         /\ Loadable' = Loadable /\ Wide' = Wide /\ SumsWrap' = SumsWrap
         /\ NamesRunOn' = NamesRunOn /\ Segments' = Segments
         /\ \A off, size : /\ Fits(off, size)' = Fits(off, size)
                           /\ InFile(off, size)' = InFile(off, size)
<1>1. Numbers /\ Given'
  BY GivenNumbers DEF IInv, Given
<1>2. /\ Loadable' = Loadable /\ Wide' = Wide /\ SumsWrap' = SumsWrap
      /\ NamesRunOn' = NamesRunOn
  BY DEF Loadable, Wide, Wrap, SumsWrap, NamesRunOn
<1>3. Segments' = Segments
  BY DEF Segments, HeaderOffsets, Read, Offsets, Wrap, Fits, Wide
<1>4. QED
  BY <1>1, <1>2, <1>3 DEF Fits, InFile, Wide

(* Steps that leave the binary alone and read nothing.                     *)
LEMMA QuietStep ==
  ASSUME IInv, file' = file, bin' = bin,
         \/ stage = "arguments" /\ stage' \in {"load", "ended"}
         \/ stage = "load" /\ (stage' = "ended" \/ (stage' = "segments" /\ Loadable))
         \/ stage \notin {"arguments", "load", "segments", "sections", "fallback"}
            /\ stage' \notin {"arguments", "load", "segments", "sections",
                              "fallback", "disassembler", "undefined"}
            /\ (stage = "ended" => stage' = "ended")
         \/ stage' = stage
  PROVE  IInv'
<1>1. /\ Given' /\ Loadable' = Loadable /\ Wide' = Wide
      /\ SumsWrap' = SumsWrap /\ NamesRunOn' = NamesRunOn
      /\ Segments' = Segments
  BY FileStays
<1>2. Begun'
  BY <1>1 DEF IInv, Begun
<1>3. BinaryOK'
  BY DEF IInv, BinaryOK, InFile
<1>4. Parsed'
  BY <1>1 DEF IInv, Parsed
<1>5. Bare'
  BY <1>1 DEF IInv, Bare
<1>6. FromSegment'
  BY <1>1, FileStays DEF IInv, FromSegment
<1>7. Excused'
  BY <1>1 DEF IInv, Excused
<1>8. QED
  BY <1>1, <1>2, <1>3, <1>4, <1>5, <1>6, <1>7 DEF IInv

LEMMA SegmentsStep == ASSUME IInv, parseSegments PROVE IInv'
<1>1. stage = "segments" /\ file' = file
  BY DEF parseSegments, Undefined, given
<1>2. Numbers /\ (Wide \/ file.class = 32) /\ Loadable
  BY <1>1, FileStays, KnownClass DEF IInv, Begun
<1>3. /\ Given' /\ Loadable' = Loadable /\ Wide' = Wide
      /\ SumsWrap' = SumsWrap /\ NamesRunOn' = NamesRunOn
      /\ Segments' = Segments
  BY <1>1, FileStays
<1>4. CASE \A k \in DOMAIN HeaderOffsets : InFile(HeaderOffsets[k], 1)
  <2>1. /\ bin' = [bin EXCEPT !.segments = Segments]
        /\ stage' = IF Wide THEN "sections" ELSE "fallback"
    BY <1>4 DEF parseSegments
  <2>2. /\ bin' = [segments |-> Segments, text_addr |-> bin.text_addr,
                   text_bytes |-> bin.text_bytes]
        /\ bin.text_bytes = NoCode
    BY <1>1, <2>1 DEF IInv, BinaryOK, Bare
  <2>3. BinaryOK'
    BY <1>1, <2>2 DEF IInv, BinaryOK, InFile
  <2>4. Begun' /\ Parsed' /\ Bare' /\ FromSegment' /\ Excused'
    BY <1>2, <1>3, <2>1, <2>2 DEF Begun, Parsed, Bare, FromSegment, Excused
  <2>5. QED
    BY <1>3, <2>3, <2>4 DEF IInv
<1>5. CASE \E k \in DOMAIN HeaderOffsets : ~InFile(HeaderOffsets[k], 1)
  <2>1. stage' = "undefined" /\ bin' = bin
    BY <1>5 DEF parseSegments, Undefined
  <2>2. Wide /\ SumsWrap
    BY <1>2, <1>5, HeaderOffsetsFit
  <2>3. BinaryOK'
    BY <1>1, <2>1 DEF IInv, BinaryOK, InFile
  <2>4. Begun' /\ Parsed' /\ Bare' /\ FromSegment' /\ Excused'
    BY <1>2, <1>3, <2>1, <2>2
       DEF Begun, Parsed, Bare, FromSegment, Excused, Wide
  <2>5. QED
    BY <1>3, <2>3, <2>4 DEF IInv
<1>6. QED
  BY <1>4, <1>5

(* The first of some places in a sequence, and all before it, are there.   *)
LEMMA FirstIsThere ==
  ASSUME NEW n \in Nat, NEW P \in SUBSET (1 .. n), P # {}
  PROVE  /\ (CHOOSE k \in P : \A j \in P : k <= j) \in P
         /\ (CHOOSE k \in P : \A j \in P : k <= j) \in 1 .. n
<1>1. P \in SUBSET Nat
  OBVIOUS
<1>2. \E k \in P : \A j \in P : k <= j
  BY <1>1, LeastExists
<1>3. QED
  BY <1>2

LEMMA SectionsStep == ASSUME IInv, parseSections PROVE IInv'
<1> DEFINE shstr_off == Wrap(file.shoff + file.shstrndx * file.shentsize)
           shstr == At(file, shstr_off)
           offs == Read(file.shoff, file.shnum, file.shentsize)
           name(k) == At(file, offs[k]).name
           place(k) == shstr.offset + name(k)
           Text == {k \in DOMAIN offs :
                      name(k) < shstr.size /\ At(file, place(k)).text = ".text"}
           first == CHOOSE k \in Text : \A j \in Text : k <= j
           text == At(file, offs[first])
           seen == IF Text = {} THEN Len(offs) ELSE first
           skip == file.shoff = 0 \/ file.shnum = 0 \/ ~Fits(shstr_off, 1)
           named == ~skip /\ Fits(shstr.offset, shstr.size)
           found == named /\ Text # {} /\ Fits(text.offset, text.size)
           A == ~skip /\ ~InFile(shstr_off, 1)
           B1 == \E k \in 1 .. seen :
                   name(k) < shstr.size /\ ~Ends(file, place(k))
           B2 == \E k \in 1 .. seen : ~InFile(offs[k], 1)
           B3 == /\ Text # {} /\ Fits(text.offset, text.size)
                 /\ ~InFile(text.offset, text.size)
           B == named /\ InFile(shstr_off, 1) /\ (B1 \/ B2 \/ B3)
           code == [offset |-> text.offset, size |-> text.size]
<1>1. stage = "sections" /\ file' = file
  BY DEF parseSections, Undefined, given
<1>2. Numbers /\ (Wide \/ file.class = 32) /\ Loadable /\ Wide
  BY <1>1, FileStays, KnownClass DEF IInv, Begun, Bare
<1>3. /\ Given' /\ Loadable' = Loadable /\ Wide' = Wide
      /\ SumsWrap' = SumsWrap /\ NamesRunOn' = NamesRunOn
      /\ Segments' = Segments
  BY <1>1, FileStays
<1>4. /\ file.shoff \in Nat /\ file.shnum \in Nat /\ file.shentsize \in Nat
      /\ file.shstrndx \in Nat
  BY <1>2 DEF Numbers
<1>5. FromTable(offs, file.shoff, file.shnum, file.shentsize)
  BY <1>4, ReadFits
<1>6. PICK n \in Nat : n = Len(offs) /\ DOMAIN offs = 1 .. n
  BY <1>5 DEF FromTable
<1>7. Text # {} => first \in 1 .. n
  <2>1. Text \in SUBSET (1 .. n)
    BY <1>6
  <2> HIDE DEF Text
  <2>2. QED
    BY <2>1, FirstIsThere
<1>8. seen \in 0 .. n
  <2> HIDE DEF first, offs, Text
  <2>1. QED
    BY <1>6, <1>7
<1>9. \/ A /\ Undefined
      \/ B /\ Undefined
      \/ /\ ~A /\ ~B
         /\ bin' = IF found
                   THEN [bin EXCEPT !.text_addr = text.addr, !.text_bytes = code]
                   ELSE bin
         /\ stage' = "fallback"
  BY DEF parseSections
<1>10. CASE Undefined
  <2>1. ASSUME A PROVE SumsWrap
    <3>1. PICK m \in Nat : m = file.shoff + file.shstrndx * file.shentsize
      <4>1. PICK j \in Nat : j = file.shstrndx * file.shentsize
        BY <1>4
      <4>2. QED
        BY <1>4, <4>1
    <3>2. Wrap(m) \in Nat /\ Wrap(m) <= m
      BY <1>2, WrapsDown
    <3>3. Fits(Wrap(m), 1) /\ ~InFile(Wrap(m), 1)
      BY <2>1, <3>1
    <3>4. Wrap(m) + 1 >= Word64
      BY <1>2, <3>2, <3>3, FitsOrWraps
    <3>5. m + 1 >= Word64
      BY <3>2, <3>4, WordsAssumption
    <3>6. QED
      BY <3>1, <3>5 DEF SumsWrap
  <2>2. ASSUME B, B1 PROVE SumsWrap \/ NamesRunOn
    <3>1. PICK k \in 1 .. seen : name(k) < shstr.size /\ ~Ends(file, place(k))
      BY <2>2
    <3>2. Fits(shstr.offset, shstr.size)
      BY <2>2
    <3>3. CASE ~InFile(shstr.offset, shstr.size)
      <4> HIDE DEF shstr_off
      <4>1. QED
        BY <1>2, <3>2, <3>3, EntryFits
    <3>4. CASE InFile(shstr.offset, shstr.size)
      <4>1. PICK o \in Nat, z \in Nat, i \in Nat :
              o = shstr.offset /\ z = shstr.size /\ i = name(k)
        <5> HIDE DEF shstr_off, offs
        <5>1. QED
          BY <1>2, EntryNumbers
      <4>2. i < z /\ o + z <= file.size /\ file.size \in Nat /\ z > 0
        <5> HIDE DEF shstr, name
        <5>1. QED
          BY <1>2, <3>1, <3>4, <4>1, WordsAssumption DEF InFile, Numbers
      <4>3. \A q \in o + i .. file.size - 1 : At(file, q).text = Open
        BY <3>1, <4>1 DEF Ends
      <4>4. At(file, o + z - 1).text = Open /\ At(file, file.size - 1).text = Open
        <5>1. o + z - 1 \in o + i .. file.size - 1
          BY <4>2
        <5>2. file.size - 1 \in o + i .. file.size - 1
          BY <4>2
        <5>3. QED
          BY <4>3, <5>1, <5>2
      <4>5. QED
        BY <4>1, <4>2, <4>4 DEF NamesRunOn
    <3>5. QED
      BY <3>3, <3>4
  <2>3. ASSUME B, B2 PROVE SumsWrap
    <3>1. PICK k \in 1 .. seen : ~InFile(offs[k], 1)
      BY <2>3
    <3>2. k \in DOMAIN offs
      <4> HIDE DEF seen, offs
      <4>1. QED
        BY <1>6, <1>8, <3>1
    <3>3. PICK j \in 1 .. file.shnum :
            file.shoff + (j - 1) * file.shentsize + 1 >= Word64
      BY <1>2, <1>4, <3>1, <3>2, ReadEscapes
    <3>4. j - 1 \in 0 .. file.shnum
      BY <1>4
    <3>5. QED
      BY <3>3, <3>4 DEF SumsWrap
  <2>4. ASSUME B, B3 PROVE SumsWrap
    <3>1. Fits(text.offset, text.size) /\ ~InFile(text.offset, text.size)
      BY <2>4
    <3> HIDE DEF offs, first
    <3>2. QED
      BY <1>2, <3>1, EntryFits
  <2>5. SumsWrap \/ NamesRunOn
    BY <1>9, <1>10, <2>1, <2>2, <2>3, <2>4 DEF Undefined
  <2>6. stage' = "undefined" /\ bin' = bin
    BY <1>10 DEF Undefined
  <2>7. BinaryOK'
    BY <1>1, <2>6 DEF IInv, BinaryOK, InFile
  <2>8. Begun' /\ Parsed' /\ Bare' /\ FromSegment' /\ Excused'
    BY <1>2, <1>3, <2>5, <2>6
       DEF Begun, Parsed, Bare, FromSegment, Excused, Wide
  <2>9. QED
    BY <1>3, <2>7, <2>8 DEF IInv
<1>11. CASE ~Undefined
  <2>1. /\ ~A /\ ~B /\ stage' = "fallback"
        /\ bin' = IF found
                  THEN [bin EXCEPT !.text_addr = text.addr, !.text_bytes = code]
                  ELSE bin
    BY <1>9, <1>11
  <2>2. bin'.segments = bin.segments /\ BinaryOK'
    <3>1. CASE ~found
      <4>1. bin' = bin
        BY <2>1, <3>1
      <4>2. QED
        BY <1>1, <4>1 DEF IInv, BinaryOK, InFile
    <3>2. CASE found
      <4>1. bin' = [bin EXCEPT !.text_addr = text.addr, !.text_bytes = code]
        BY <2>1, <3>2
      <4>2. InFile(text.offset, text.size)
        BY <2>1, <3>2
      <4>3. code \in Place
        <5>1. text.offset \in Nat /\ text.size \in Nat
          <6> HIDE DEF offs, first
          <6>1. QED
            BY <1>2, EntryNumbers
        <5> HIDE DEF text
        <5>2. QED
          BY <5>1 DEF Place
      <4> HIDE DEF text, found, A, B
      <4>4. bin' = [segments |-> bin.segments, text_addr |-> text.addr,
                    text_bytes |-> code]
        BY <4>1 DEF IInv, BinaryOK
      <4>5. code.offset + code.size <= file.size
        BY <4>2 DEF InFile
      <4> HIDE DEF code
      <4>6. QED
        BY <1>1, <4>3, <4>4, <4>5 DEF BinaryOK, InFile
    <3>3. QED
      BY <3>1, <3>2
  <2>3. bin'.segments = Segments
    BY <1>1, <2>2 DEF IInv, Parsed
  <2>4. Begun' /\ Parsed' /\ Bare' /\ FromSegment' /\ Excused'
    BY <1>2, <1>3, <2>1, <2>3
       DEF Begun, Parsed, Bare, FromSegment, Excused
  <2>5. QED
    BY <1>3, <2>2, <2>4 DEF IInv
<1>12. QED
  BY <1>10, <1>11

LEMMA SegmentsIndexed ==
  ASSUME Numbers PROVE \E n \in Nat : DOMAIN Segments = 1 .. n
<1> DEFINE entries == [i \in DOMAIN HeaderOffsets |-> At(file, HeaderOffsets[i])]
           T == {At(file, p) : p \in Nat}
           P == {i \in DOMAIN entries : entries[i].type = "LOAD"}
<1>1. entries \in Seq(T)
  <2>1. HeaderOffsets \in Seq(Nat)
    BY HeaderOffsetsFit
  <2>2. PICK n \in Nat : DOMAIN HeaderOffsets = 1 .. n
    BY <2>1
  <2>3. \A i \in 1 .. n : At(file, HeaderOffsets[i]) \in T
    BY <2>1, <2>2
  <2> HIDE DEF T
  <2>4. QED
    BY <2>2, <2>3
<1>2. Segments = [i \in DOMAIN Picked(entries, P) |-> Segment(Picked(entries, P)[i])]
  BY DEF Segments, Loads
<1>3. Picked(entries, P) \in Seq(T)
  <2> HIDE DEF entries, T, P
  <2>1. QED
    BY <1>1, PickedComesFrom DEF Among
<1> HIDE DEF entries, T, P
<1>4. QED
  BY <1>2, <1>3

LEMMA FallbackStep == ASSUME IInv, fallback PROVE IInv'
<1> DEFINE Code == {k \in DOMAIN bin.segments :
                      LET s == bin.segments[k]
                      IN  s.x /\ s.filesz # 0 /\ Fits(s.offset, s.filesz)}
           first == CHOOSE k \in Code : \A j \in Code : k <= j
           s == bin.segments[first]
           code == [offset |-> s.offset, size |-> s.filesz]
<1>1. stage = "fallback" /\ file' = file
  BY DEF fallback, Undefined, Exit, given
<1>2. Numbers /\ (Wide \/ file.class = 32) /\ Loadable /\ bin.segments = Segments
  BY <1>1, FileStays, KnownClass DEF IInv, Begun, Parsed
<1>3. /\ Given' /\ Loadable' = Loadable /\ Wide' = Wide
      /\ SumsWrap' = SumsWrap /\ NamesRunOn' = NamesRunOn
      /\ Segments' = Segments
  BY <1>1, FileStays
<1>4. ASSUME Code # {}
      PROVE  /\ first \in DOMAIN bin.segments
             /\ s.filesz # 0 /\ Fits(s.offset, s.filesz)
             /\ code \in Place
             /\ ~InFile(s.offset, s.filesz) => Wide /\ SumsWrap
  <2>1. PICK n \in Nat : DOMAIN bin.segments = 1 .. n
    BY <1>2, SegmentsIndexed
  <2>2. first \in Code
    <3>1. Code \in SUBSET (1 .. n)
      BY <2>1
    <3> HIDE DEF Code
    <3>2. QED
      BY <1>4, <3>1, FirstIsThere
  <2> HIDE DEF first
  <2>3. first \in DOMAIN bin.segments /\ s.filesz # 0 /\ Fits(s.offset, s.filesz)
    BY <2>2
  <2>4. PICK p : s = Segment(At(file, p))
    BY <1>2, <2>3, SegmentsAreEntries
  <2>5. s.offset = At(file, p).offset /\ s.filesz = At(file, p).size
    <3> HIDE DEF s
    <3>1. QED
      BY <2>4 DEF Segment
  <2>6. code \in Place
    <3>1. s.offset \in Nat /\ s.filesz \in Nat
      BY <1>2, <2>5, EntryNumbers
    <3> HIDE DEF s
    <3>2. QED
      BY <3>1 DEF Place
  <2>7. ASSUME ~InFile(s.offset, s.filesz) PROVE Wide /\ SumsWrap
    BY <1>2, <2>3, <2>5, <2>7, EntryFits
  <2>8. QED
    BY <2>3, <2>6, <2>7
<1> HIDE DEF s, Code, first
<1>5. \/ /\ bin.text_bytes.size # 0
         /\ stage' = "disassembler" /\ bin' = bin
      \/ stage' = "ended" /\ bin' = bin
      \/ Code # {} /\ ~InFile(s.offset, s.filesz) /\ Undefined
      \/ /\ Code # {} /\ InFile(s.offset, s.filesz)
         /\ bin' = [bin EXCEPT !.text_addr = s.vaddr, !.text_bytes = code]
         /\ stage' = "disassembler"
  BY DEF fallback, Exit, s, Code, first
<1>6. CASE bin.text_bytes.size # 0 /\ stage' = "disassembler" /\ bin' = bin
  <2>1. Wide
    BY <1>1, <1>6 DEF IInv, Bare, NoCode
  <2>2. BinaryOK'
    BY <1>1, <1>6 DEF IInv, BinaryOK, InFile
  <2>3. Begun' /\ Parsed' /\ Bare' /\ FromSegment' /\ Excused'
    BY <1>2, <1>3, <1>6, <2>1 DEF Begun, Parsed, Bare, FromSegment, Excused
  <2>4. QED
    BY <1>3, <2>2, <2>3 DEF IInv
<1>7. CASE stage' = "ended" /\ bin' = bin
  <2>1. BinaryOK'
    BY <1>1, <1>7 DEF IInv, BinaryOK, InFile
  <2>2. Begun' /\ Parsed' /\ Bare' /\ FromSegment' /\ Excused'
    BY <1>7 DEF Begun, Parsed, Bare, FromSegment, Excused
  <2>3. QED
    BY <1>3, <2>1, <2>2 DEF IInv
<1>8. CASE Code # {} /\ ~InFile(s.offset, s.filesz) /\ Undefined
  <2>1. stage' = "undefined" /\ bin' = bin
    BY <1>8 DEF Undefined
  <2>2. Wide /\ SumsWrap
    BY <1>4, <1>8
  <2>3. BinaryOK'
    BY <1>1, <2>1 DEF IInv, BinaryOK, InFile
  <2>4. Begun' /\ Parsed' /\ Bare' /\ FromSegment' /\ Excused'
    BY <1>2, <1>3, <2>1, <2>2
       DEF Begun, Parsed, Bare, FromSegment, Excused, Wide
  <2>5. QED
    BY <1>3, <2>3, <2>4 DEF IInv
<1>9. CASE /\ Code # {} /\ InFile(s.offset, s.filesz)
           /\ bin' = [bin EXCEPT !.text_addr = s.vaddr, !.text_bytes = code]
           /\ stage' = "disassembler"
  <2>1. bin' = [segments |-> bin.segments, text_addr |-> s.vaddr,
                text_bytes |-> code]
    BY <1>9 DEF IInv, BinaryOK
  <2>2. s.offset + s.filesz <= file.size
    BY <1>9 DEF InFile
  <2>3. BinaryOK'
    <3>1. code \in Place /\ code.offset + code.size <= file.size
      BY <1>4, <1>9, <2>2
    <3> HIDE DEF code
    <3>2. QED
      BY <1>1, <2>1, <3>1 DEF BinaryOK, InFile
  <2>4. FromSegment'
    <3>1. /\ first \in DOMAIN bin.segments /\ s = bin.segments[first]
          /\ s.filesz # 0 /\ Fits(s.offset, s.filesz)
      BY <1>4, <1>9 DEF s
    <3>2. \A off, size : Fits(off, size) => Fits(off, size)'
      BY <1>1, FileStays
    <3>3. bin'.segments = bin.segments
      BY <2>1
    <3>4. QED
      BY <2>1, <3>1, <3>2, <3>3 DEF FromSegment
  <2>5. Begun' /\ Parsed' /\ Bare' /\ Excused'
    BY <1>2, <1>3, <1>9, <2>1 DEF Begun, Parsed, Bare, Excused
  <2>6. QED
    BY <1>3, <2>3, <2>4, <2>5 DEF IInv
<1>10. QED
  BY <1>5, <1>6, <1>7, <1>8, <1>9

LEMMA LoaderStep == ASSUME IInv, [Next]_vars PROVE IInv'
<1>1. CASE parseCli
  <2>1. /\ stage = "arguments" /\ file' = file /\ bin' = bin
        /\ stage' \in {"load", "ended"}
    BY <1>1 DEF parseCli, Exit, given
  <2>2. QED
    BY <2>1, QuietStep
<1>2. CASE load
  <2>1. /\ stage = "load" /\ file' = file /\ bin' = bin
        /\ stage' = "ended" \/ (stage' = "segments" /\ Loadable)
    BY <1>2 DEF load, Exit, given
  <2>2. QED
    BY <2>1, QuietStep
<1>3. CASE parseSegments
  BY <1>3, SegmentsStep
<1>4. CASE parseSections
  BY <1>4, SectionsStep
<1>5. CASE fallback
  BY <1>5, FallbackStep
<1>6. CASE \/ initDisassembler \/ disassemble \/ buildGraph \/ run
           \/ writeReports
  <2>1. /\ stage \in {"disassembler", "disassemble", "graph", "run", "reports"}
        /\ file' = file /\ bin' = bin
        /\ stage' \in {"disassemble", "graph", "run", "reports", "ended"}
    BY <1>6 DEF initDisassembler, disassemble, buildGraph, run, writeReports,
                Exit, given
  <2>2. QED
    BY <2>1, QuietStep
<1>7. CASE UNCHANGED vars
  BY <1>7, QuietStep DEF vars, given
<1>8. QED
  BY <1>1, <1>2, <1>3, <1>4, <1>5, <1>6, <1>7 DEF Next

LEMMA LoaderInvariant == Spec => []IInv
<1>1. Init => IInv
  BY LoaderInit
<1>2. IInv /\ [Next]_vars => IInv'
  BY LoaderStep
<1>3. QED
  BY <1>1, <1>2, PTL DEF Spec

(* Whatever the file, nothing is read or taken for code outside of it but  *)
(* in a 64-bit file where a sum wraps or neither the table of names nor    *)
(* the file ends in a NUL: what the checks of ElfLoader do.                *)
THEOREM OnlyFileIsRead == Spec => []ReadsInFile
<1>1. IInv => ReadsInFile
  BY DEF IInv, Excused, BinaryOK, ReadsInFile
<1>2. QED
  BY <1>1, LoaderInvariant, PTL

-----------------------------------------------------------------------------
(* The two loaders on a table of standard entries that is in the file.     *)

Table ==
  file.phentsize = 1 /\ file.phoff > 0 /\ InFile(file.phoff, file.phnum)

Headers == [k \in DOMAIN HeaderOffsets |-> At(file, HeaderOffsets[k])]
Entries == {At(file, p) : p \in Nat}

(* Nothing wraps in such a table, for either loader.                       *)
LEMMA NothingWraps ==
  ASSUME ShortFiles, Given, Wide \/ file.class = 32, Table,
         NEW k \in 1 .. file.phnum
  PROVE  LET n == file.phoff + k - 1
         IN  n \in Nat /\ Wrap(n) = n /\ n % Word64 = n /\ Fits(n, 1)
<1>1. Numbers
  BY GivenNumbers
<1>2. PICK n \in Nat : n = file.phoff + k - 1 /\ n + 1 <= file.size
  BY <1>1 DEF Numbers, Table, InFile
<1>3. PICK m \in Nat \ {0} : m = Word64 /\ n + 1 < m
  BY <1>1, <1>2, WordsAssumption DEF Numbers
<1>4. n % m = n /\ (n + 1) % m = n + 1
  BY <1>3
<1>5. CASE Wide
  BY <1>2, <1>3, <1>4, <1>5 DEF Wrap, Fits
<1>6. CASE ~Wide
  <2>1. PICK c \in Nat \ {0} : c = Word32 /\ n < c
    <3>1. file.class = 32 /\ file.size <= Word32
      BY <1>6 DEF ShortFiles, Given, Wide
    <3>2. QED
      BY <1>1, <1>2, <3>1, WordsAssumption DEF Numbers
  <2>2. n % c = n
    BY <2>1
  <2>3. QED
    BY <1>2, <1>3, <1>4, <1>6, <2>1, <2>2 DEF Wrap, Fits
<1>7. QED
  BY <1>5, <1>6

(* The tool reads every entry of it.                                       *)
LEMMA ToolReadsAll ==
  ASSUME ShortFiles, Given, Wide \/ file.class = 32, Table
  PROVE  /\ Headers \in Seq(Entries) /\ Len(Headers) = file.phnum
         /\ \A k \in 1 .. file.phnum :
              Headers[k] = At(file, file.phoff + k - 1)
<1> DEFINE offs == Offsets(file.phoff, file.phnum, file.phentsize)
           P == {k \in 1 .. file.phnum : Fits(offs[k], 1)}
<1>1. PICK n \in Nat : n = file.phnum
  BY GivenNumbers DEF Numbers
<1>2. ASSUME NEW k \in 1 .. n
      PROVE  offs[k] = file.phoff + k - 1 /\ offs[k] \in Nat /\ k \in P
  <2>1. (k - 1) * 1 = k - 1 /\ file.phoff + (k - 1) = file.phoff + k - 1
    BY GivenNumbers DEF Numbers
  <2>2. offs[k] = Wrap(file.phoff + k - 1)
    BY <1>1, <2>1 DEF Offsets, Table
  <2>3. QED
    BY <1>1, <2>2, NothingWraps
<1>3. offs \in Seq(Nat) /\ Len(offs) = n
  <2>1. offs = [k \in 1 .. n |-> offs[k]]
    BY <1>1 DEF Offsets
  <2> HIDE DEF offs
  <2>2. QED
    BY <1>2, <2>1
<1>4. HeaderOffsets = Picked(offs, P)
  BY GivenNumbers DEF HeaderOffsets, Read, Table, Numbers
<1> HIDE DEF offs, P
<1>5. Picked(offs, P) = offs
  BY <1>2, <1>3, PickedWhole
<1>6. HeaderOffsets = offs /\ DOMAIN offs = 1 .. n
  BY <1>3, <1>4, <1>5
<1>7. Headers = [k \in 1 .. n |-> At(file, offs[k])]
  BY <1>6 DEF Headers
<1>8. \A k \in 1 .. n : At(file, offs[k]) \in Entries
  BY <1>2 DEF Entries
<1>9. QED
  BY <1>1, <1>2, <1>7, <1>8

(* The library reads these, and perhaps more.                              *)
LEMMA LibraryReadsMore ==
  ASSUME ShortFiles, Given, Loadable, Table
  PROVE  /\ programHeaders(file) \in Seq(Entries)
         /\ Len(programHeaders(file)) = programHeaderCount(file)
         /\ Starts(Headers, programHeaders(file))
         /\ programHeaderCount(file) = file.phnum => Headers = programHeaders(file)
<1>0. Wide \/ file.class = 32
  BY DEF Loadable, Wide
<1>1. PICK n \in Nat : n = file.phnum
  BY GivenNumbers DEF Numbers
<1>2. PICK c \in Nat : c = programHeaderCount(file) /\ n <= c
  <2>1. PICK m \in Nat : m = Half * file.shentsize
    BY GivenNumbers, WordsAssumption DEF Numbers
  <2>2. QED
    BY <1>1, <2>1 DEF programHeaderCount
<1>3. programHeaders(file) =
        [k \in 1 .. c |-> At(file, (file.phoff + k - 1) % Word64)]
  BY <1>2, GivenNumbers DEF programHeaders, Loadable, Table, Numbers, Header
<1>4. ASSUME NEW k \in 1 .. c
      PROVE  At(file, (file.phoff + k - 1) % Word64) \in Entries
  <2>1. PICK m \in Nat \ {0}, i \in Nat : m = Word64 /\ i = file.phoff + k - 1
    BY GivenNumbers, WordsAssumption DEF Numbers
  <2>2. i % m \in Nat
    OBVIOUS
  <2>3. QED
    BY <2>1, <2>2 DEF Entries
<1>5. programHeaders(file) \in Seq(Entries) /\ Len(programHeaders(file)) = c
  BY <1>3, <1>4
<1>6. ASSUME NEW k \in 1 .. n PROVE Headers[k] = programHeaders(file)[k]
  <2>1. (file.phoff + k - 1) % Word64 = file.phoff + k - 1
    BY <1>0, <1>1, NothingWraps
  <2>2. k \in 1 .. c
    BY <1>2
  <2>3. QED
    BY <1>0, <1>1, <1>3, <2>1, <2>2, ToolReadsAll
<1>7. Headers \in Seq(Entries) /\ Len(Headers) = n
  BY <1>0, <1>1, ToolReadsAll
<1>8. Starts(Headers, programHeaders(file))
  BY <1>2, <1>5, <1>6, <1>7 DEF Starts
<1>9. ASSUME c = n PROVE Headers = programHeaders(file)
  BY <1>5, <1>6, <1>7, <1>9
<1>10. QED
  BY <1>1, <1>2, <1>5, <1>8, <1>9

(* So what the tool loads starts what the library loads.                   *)
LEMMA LoadsStart ==
  ASSUME ShortFiles, Given, Loadable, Table
  PROVE  /\ Loads(Headers) \in Seq(Entries)
         /\ Loads(programHeaders(file)) \in Seq(Entries)
         /\ Starts(Loads(Headers), Loads(programHeaders(file)))
         /\ programHeaderCount(file) = file.phnum =>
              Loads(Headers) = Loads(programHeaders(file))
<1> DEFINE more == programHeaders(file)
           P == {k \in DOMAIN Headers : Headers[k].type = "LOAD"}
           Q == {k \in DOMAIN more : more[k].type = "LOAD"}
<1>1. /\ Headers \in Seq(Entries) /\ more \in Seq(Entries)
      /\ Starts(Headers, more)
      /\ programHeaderCount(file) = file.phnum => Headers = more
  BY ToolReadsAll, LibraryReadsMore DEF Loadable, Wide
<1>2. Loads(Headers) = Picked(Headers, P) /\ Loads(more) = Picked(more, Q)
  BY DEF Loads
<1>3. \A k \in 1 .. Len(Headers) : k \in P <=> k \in Q
  <2>1. PICK n \in Nat, c \in Nat : /\ n = Len(Headers) /\ DOMAIN Headers = 1 .. n
                                    /\ c = Len(more) /\ DOMAIN more = 1 .. c
    <3> HIDE DEF more
    <3>1. QED
      BY <1>1
  <2>2. n <= c /\ \A k \in 1 .. n : Headers[k] = more[k]
    <3> HIDE DEF more
    <3>1. QED
      BY <1>1, <2>1 DEF Starts
  <2> HIDE DEF more
  <2>3. QED
    BY <2>1, <2>2
<1> HIDE DEF more, P, Q
<1>4. Picked(Headers, P) \in Seq(Entries) /\ Picked(more, Q) \in Seq(Entries)
  BY <1>1, PickedComesFrom DEF Among
<1>5. Starts(Picked(Headers, P), Picked(more, Q))
  BY <1>1, <1>3, PickedStarts
<1>6. ASSUME Headers = more PROVE Loads(Headers) = Loads(more)
  BY <1>6
<1>7. QED
  BY <1>1, <1>2, <1>4, <1>5, <1>6 DEF more

LEMMA Agreement == ASSUME ShortFiles, IInv PROVE LoadersAgree
<1> DEFINE loads == Loads(Headers)
           all == Loads(programHeaders(file))
           lib == loadSegments(file)
           tool == bin.segments
<1>1. SUFFICES
        ASSUME stage \in {"sections", "fallback", "disassembler"}, Table
        PROVE  /\ Len(tool) <= Len(lib)
               /\ \A k \in DOMAIN tool :
                    /\ lib[k].vaddr = tool[k].vaddr
                    /\ lib[k].executable = tool[k].x
               /\ programHeaderCount(file) = file.phnum => Len(tool) = Len(lib)
               /\ stage = "disassembler" /\ ~Wide =>
                    \E k \in DOMAIN lib : /\ lib[k].vaddr = bin.text_addr
                                          /\ lib[k].data = bin.text_bytes
  BY DEF LoadersAgree, Table
<1>2. Given /\ Numbers /\ Loadable /\ tool = Segments
  BY <1>1, GivenNumbers DEF IInv, Begun, Parsed
<1>3. /\ loads \in Seq(Entries) /\ all \in Seq(Entries) /\ Starts(loads, all)
      /\ programHeaderCount(file) = file.phnum => loads = all
  BY <1>1, <1>2, LoadsStart
<1>4. tool = [k \in DOMAIN loads |-> Segment(loads[k])]
  BY <1>2 DEF Segments, Headers
<1>5. PICK n \in Nat, c \in Nat :
        /\ n = Len(loads) /\ DOMAIN loads = 1 .. n
        /\ c = Len(all) /\ DOMAIN all = 1 .. c
        /\ n <= c /\ \A k \in 1 .. n : loads[k] = all[k]
        /\ programHeaderCount(file) = file.phnum => n = c
  <2> HIDE DEF loads, all
  <2>1. QED
    BY <1>3 DEF Starts
<1> DEFINE has(e) == e.size > 0 /\ (e.offset + e.size) % Word64 <= file.size
           data(e) == IF has(e) THEN [offset |-> e.offset, size |-> e.size]
                      ELSE NoCode
<1>6. lib = [k \in DOMAIN all |->
               [vaddr |-> all[k].addr, executable |-> all[k].x,
                data |-> data(all[k])]]
  BY DEF loadSegments
<1> HIDE DEF loads, all, lib
<1>7. DOMAIN tool = 1 .. n /\ DOMAIN lib = 1 .. c /\ Len(tool) = n /\ Len(lib) = c
  BY <1>4, <1>5, <1>6
<1>8. ASSUME NEW k \in 1 .. n
      PROVE  /\ lib[k].vaddr = tool[k].vaddr /\ lib[k].executable = tool[k].x
             /\ lib[k].data = data(loads[k]) /\ tool[k] = Segment(loads[k])
  <2>1. k \in 1 .. c /\ loads[k] = all[k]
    BY <1>5
  <2> HIDE DEF data
  <2>2. /\ tool[k] = Segment(loads[k])
        /\ lib[k] = [vaddr |-> loads[k].addr, executable |-> loads[k].x,
                     data |-> data(loads[k])]
    BY <1>4, <1>5, <1>6, <2>1
  <2>3. QED
    BY <2>2 DEF Segment
<1>9. ASSUME stage = "disassembler", ~Wide
      PROVE  \E k \in DOMAIN lib : /\ lib[k].vaddr = bin.text_addr
                                   /\ lib[k].data = bin.text_bytes
  <2>1. PICK k \in 1 .. n :
          LET s == tool[k]
          IN  /\ s.filesz # 0 /\ Fits(s.offset, s.filesz)
              /\ bin.text_addr = s.vaddr
              /\ bin.text_bytes = [offset |-> s.offset, size |-> s.filesz]
    BY <1>7, <1>9 DEF IInv, FromSegment
  <2>2. loads[k] \in Entries
    BY <1>3, <1>5
  <2>3. loads[k].offset \in Nat /\ loads[k].size \in Nat
    BY <1>2, <2>2, EntryNumbers DEF Entries
  <2>4. tool[k].offset = loads[k].offset /\ tool[k].filesz = loads[k].size
    <3>1. tool[k] = Segment(loads[k])
      BY <1>8
    <3> HIDE DEF tool, has, data
    <3>2. QED
      BY <3>1 DEF Segment
  <2>5. has(loads[k])
    <3>1. PICK o \in Nat, z \in Nat, m \in Nat \ {0} :
            o = loads[k].offset /\ z = loads[k].size /\ m = Word64
      BY <2>3, WordsAssumption
    <3>2. z > 0 /\ o + z <= file.size /\ file.size < m /\ file.size \in Nat
      BY <1>2, <1>9, <2>1, <2>4, <3>1 DEF Fits, Numbers
    <3>3. (o + z) % m = o + z
      BY <3>1, <3>2
    <3>4. QED
      BY <3>1, <3>2, <3>3
  <2>6. data(loads[k]) = bin.text_bytes
    BY <2>1, <2>4, <2>5
  <2>7. k \in DOMAIN lib /\ lib[k].vaddr = bin.text_addr
    <3>1. k \in DOMAIN lib
      BY <1>5, <1>7
    <3>2. lib[k].vaddr = tool[k].vaddr
      BY <1>8
    <3>3. tool[k].vaddr = bin.text_addr
      BY <2>1
    <3>4. QED
      BY <3>1, <3>2, <3>3
  <2>8. QED
    BY <1>8, <2>6, <2>7
<1>10. QED
  BY <1>5, <1>7, <1>8, <1>9

(* The loader of src/main.cpp and the parser of the library find the same  *)
(* segments of a table both can read, and the code of a 32-bit file is     *)
(* what the library has at its address; files of the length their offsets  *)
(* can express.                                                            *)
THEOREM SegmentsAgree == ASSUME ShortFiles PROVE Spec => []LoadersAgree
<1>1. IInv => LoadersAgree
  BY Agreement
<1>2. QED
  BY <1>1, LoaderInvariant, PTL
=============================================================================
