------------------------------- MODULE MCLoader -------------------------------
(***************************************************************************)
(* Files of five units and every kind of unit in the last three; headers   *)
(* with tables in the file, across its end, beyond it and near the end of  *)
(* a word.                                                                 *)
(***************************************************************************)
EXTENDS LibParser

Load(a, o, s, x) ==
  [Zero EXCEPT !.type = "LOAD", !.addr = a, !.offset = o, !.size = s, !.x = x]
Section(n, o, s) ==
  [Zero EXCEPT !.addr = 3, !.name = n, !.offset = o, !.size = s]

Units ==
  {Load(1, 2, 2, TRUE), Load(2, 4, 1, FALSE), Load(3, 7, 1, TRUE),
   Load(4, 3, 7, TRUE), Load(5, 4, 1, TRUE), Load(6, 2, 0, TRUE)}
Units64 ==
  {Load(1, 2, 2, TRUE), Load(2, 5, 2, TRUE), Section(1, 4, 1), Section(0, 15, 3),
   [Zero EXCEPT !.type = "STRTAB", !.offset = 3, !.size = 2, !.text = Open],
   [Zero EXCEPT !.text = ".text"], [Zero EXCEPT !.text = Open], Zero}

Plain ==
  [readable |-> TRUE, magic |-> TRUE, littleEndian |-> TRUE, class |-> 32,
   knownType |-> TRUE, x86 |-> TRUE, size |-> 5, phoff |-> 2, phnum |-> 2,
   phentsize |-> 1, shoff |-> 0, shnum |-> 0, shentsize |-> 0, shstrndx |-> 0,
   units |-> <<>>]

Placed(f, U) ==
  {[f EXCEPT !.units = [p \in 0 .. 4 |-> IF p < 2 THEN Zero ELSE u[p]]] :
     u \in [2 .. 4 -> U]}

Small ==
  UNION {Placed([Plain EXCEPT !.phoff = o, !.phnum = n, !.phentsize = s], Units) :
           o \in {2, 3, 7}, n \in {1, 3}, s \in {1, 2}}
Large ==
  UNION {Placed([Plain EXCEPT !.class = 64, !.phoff = h[1], !.phnum = h[2],
                   !.phentsize = h[3], !.shoff = h[4], !.shnum = h[5],
                   !.shentsize = IF h[5] = 0 THEN 0 ELSE 1, !.shstrndx = h[6]],
                Units64) :
           h \in {<<2, 1, 1, 3, 2, 1>>, <<2, 2, 1, 2, 3, 2>>, <<2, 3, 1, 0, 0, 0>>,
                  <<0, 1, 1, 2, 2, 2>>, <<15, 2, 1, 0, 0, 0>>, <<3, 2, 2, 14, 3, 4>>,
                  <<2, 1, 2, 15, 2, 0>>, <<4, 3, 1, 3, 1, 9>>}}

Good == [Plain EXCEPT !.units = [p \in 0 .. 4 |-> Load(1, 2, 2, TRUE)]]
Refused ==
  {[Good EXCEPT !.readable = FALSE], [Good EXCEPT !.size = 0],
   [Good EXCEPT !.size = 1], [Good EXCEPT !.magic = FALSE],
   [Good EXCEPT !.littleEndian = FALSE], [Good EXCEPT !.class = 16],
   [Good EXCEPT !.x86 = FALSE], [Good EXCEPT !.knownType = FALSE]}

Command(rest) == <<"file">> \o rest
Words == {"--out", "--no-cfg", "--sym-mem", "--max-depth", "--help", "12", "12:8"}
Commands ==
  {Command(<<>>), <<>>} \cup {Command(<<a>>) : a \in Words}
    \cup {Command(<<a, b>>) : a, b \in Words}
    \cup {Command(<<"--out", a, b>>) : a, b \in Words}

MCSessions ==
  {[argv |-> Command(<<>>), file |-> f] : f \in Small \cup Large \cup Refused}
    \cup {[argv |-> a, file |-> Good] : a \in Commands}
ASSUME ShortFiles
=============================================================================
