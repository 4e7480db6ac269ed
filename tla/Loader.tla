-------------------------------- MODULE Loader --------------------------------
(***************************************************************************)
(* main of src/main.cpp from the arguments to the reports: parseCli,       *)
(* ElfLoader, and the stages that follow, each of which may end the run.   *)
(* The graph and the search are modules of their own; here they succeed,   *)
(* or the search throws.                                                   *)
(*                                                                         *)
(* The loader compares sums with the size of the file.  In a 64-bit file   *)
(* the sums wrap, so a read may leave the file although it was checked,    *)
(* and the name of a section is read to its NUL, wherever that is; what    *)
(* happens outside the file is undefined and the model stops.              *)
(***************************************************************************)
EXTENDS ElfFile

CONSTANT Sessions   \* pairs of arguments and file

(* What a file says of places and sizes is unsigned, and its own size is   *)
(* that of a vector.                                                       *)
ASSUME FilesAssumption ==
  \A s \in Sessions :
    /\ {s.file.phoff, s.file.phnum, s.file.phentsize, s.file.shoff,
        s.file.shnum, s.file.shentsize, s.file.shstrndx} \subseteq Nat
    /\ s.file.size \in 0 .. Word64 - 1
    /\ \A p \in DOMAIN s.file.units :
         {s.file.units[p].offset, s.file.units[p].size,
          s.file.units[p].name} \subseteq Nat

VARIABLES
  argv, file,
  stage,
  cli,        \* the options accepted, with their values
  bin,        \* ElfBinary; the code is a place of the file
  exit,       \* the code main returned, or "none"
  written     \* the files writeFile was called for

given == <<argv, file>>
vars == <<given, stage, cli, bin, exit, written>>

NoCode == [offset |-> 0, size |-> 0]
NoBinary == [segments |-> <<>>, text_addr |-> 0, text_bytes |-> NoCode]

Init ==
  /\ \E s \in Sessions : argv = s.argv /\ file = s.file
  /\ stage = "arguments" /\ cli = <<>> /\ bin = NoBinary
  /\ exit = "none" /\ written = {}

Exit(code) == exit' = code /\ stage' = "ended"

-----------------------------------------------------------------------------
(* parseCli.  The value of an option is the next word, whatever it is.     *)
Numeric == {"--max-depth", "--max-steps", "--max-states"}
WithValue == Numeric \cup {"--sym-reg", "--sym-mem", "--out"}

Accepts(option, value) ==
  CASE option \in Numeric -> value \in {"12", "12:8"}
    [] option = "--sym-mem" -> value = "12:8"
    [] OTHER -> TRUE

parseCli ==
  /\ stage = "arguments"
  /\ LET Parsed[i \in 1 .. Len(argv) + 1] ==
           IF i > Len(argv) THEN [ok |-> TRUE, options |-> <<>>]
           ELSE LET takes == argv[i] \in WithValue
                    known == takes \/ argv[i] = "--no-cfg"
                    ok == /\ known
                          /\ takes => /\ i < Len(argv)
                                      /\ Accepts(argv[i], argv[i + 1])
                    value == IF takes THEN argv[i + 1] ELSE ""
                IN  IF ~ok THEN [ok |-> FALSE, options |-> <<>>]
                    ELSE LET rest == Parsed[i + 1 + (IF takes THEN 1 ELSE 0)]
                         IN  [rest EXCEPT !.options =
                                <<<<argv[i], value>>>> \o @]
         all == Parsed[2]
     IN  IF argv # <<>> /\ all.ok
         THEN cli' = all.options /\ stage' = "load" /\ UNCHANGED exit
         ELSE Exit(1) /\ UNCHANGED cli
  /\ UNCHANGED <<given, bin, written>>

-----------------------------------------------------------------------------
(* ElfLoader.  Sums as the code computes them.                             *)
Wide == file.class = 64
Wrap(n) == n % (IF Wide THEN Word64 ELSE Word32)

\* the size of what is read is forgotten
MutFits(off, size) == off <= file.size

Fits(off, size) ==
  IF Wide THEN (off + size) % Word64 <= file.size ELSE off + size <= file.size

InFile(off, size) == off + size <= file.size

\* the table starts after its first entry
MutOffsets(start, count, step) ==
  [k \in 1 .. count |-> Wrap(start + k * step)]

(* Where the entries of a table are read.                                  *)
Offsets(start, count, step) ==
  [k \in 1 .. count |-> Wrap(start + (k - 1) * step)]
Read(start, count, step) ==
  LET offs == Offsets(start, count, step)
  IN  Picked(offs, {k \in 1 .. count : Fits(offs[k], 1)})

Segment(e) == [vaddr |-> e.addr, filesz |-> e.size, offset |-> e.offset, x |-> e.x]

Undefined == stage' = "undefined" /\ UNCHANGED <<given, cli, bin, exit, written>>

(* load: what is no complete little-endian ELF header is refused.          *)
Loadable ==
  /\ file.readable /\ file.size >= Header /\ file.magic
  /\ file.littleEndian /\ file.class \in {32, 64}

load ==
  /\ stage = "load"
  /\ IF Loadable THEN stage' = "segments" /\ UNCHANGED exit ELSE Exit(2)
  /\ UNCHANGED <<given, cli, bin, written>>

HeaderOffsets ==
  IF file.phoff = 0 THEN <<>> ELSE Read(file.phoff, file.phnum, file.phentsize)
Segments ==
  LET loads == Loads([k \in DOMAIN HeaderOffsets |-> At(file, HeaderOffsets[k])])
  IN  [k \in DOMAIN loads |-> Segment(loads[k])]

parseSegments ==
  /\ stage = "segments"
  /\ LET offs == HeaderOffsets
     IN  IF \A k \in DOMAIN offs : InFile(offs[k], 1)
         THEN /\ bin' = [bin EXCEPT !.segments = Segments]
              /\ stage' = IF Wide THEN "sections" ELSE "fallback"
              /\ UNCHANGED <<given, cli, exit, written>>
         ELSE Undefined

(* The sections of a 64-bit file: the first one named .text, when the      *)
(* table of names is where it should be.  A name has to start in the       *)
(* table; where it ends is up to the file.                                 *)
parseSections ==
  /\ stage = "sections"
  /\ LET shstr_off == Wrap(file.shoff + file.shstrndx * file.shentsize)
         shstr == At(file, shstr_off)
         offs == Read(file.shoff, file.shnum, file.shentsize)
         named(k) == At(file, offs[k]).name < shstr.size
         place(k) == shstr.offset + At(file, offs[k]).name
         Text == {k \in DOMAIN offs :
                    named(k) /\ At(file, place(k)).text = ".text"}
         first == CHOOSE k \in Text : \A j \in Text : k <= j
         text == At(file, offs[first])
         seen == IF Text = {} THEN Len(offs) ELSE first
         skip == file.shoff = 0 \/ file.shnum = 0 \/ ~Fits(shstr_off, 1)
     IN  CASE ~skip /\ ~InFile(shstr_off, 1) -> Undefined
           [] ~skip /\ InFile(shstr_off, 1) /\ Fits(shstr.offset, shstr.size)
                /\ \/ \E k \in 1 .. seen :
                         ~InFile(offs[k], 1) \/ (named(k) /\ ~Ends(file, place(k)))
                   \/ /\ Text # {} /\ Fits(text.offset, text.size)
                      /\ ~InFile(text.offset, text.size) -> Undefined
           [] OTHER ->
                /\ bin' = IF /\ ~skip /\ Fits(shstr.offset, shstr.size)
                             /\ Text # {} /\ Fits(text.offset, text.size)
                          THEN [bin EXCEPT !.text_addr = text.addr,
                                  !.text_bytes = [offset |-> text.offset,
                                                  size |-> text.size]]
                          ELSE bin
                /\ stage' = "fallback"
                /\ UNCHANGED <<given, cli, exit, written>>

(* Without code so far, that of the first executable segment in the file.  *)
(* An entry point that is elsewhere is not noticed.                        *)
fallback ==
  /\ stage = "fallback"
  /\ LET Code == {k \in DOMAIN bin.segments :
                    LET s == bin.segments[k]
                    IN  s.x /\ s.filesz # 0 /\ Fits(s.offset, s.filesz)}
         s == bin.segments[CHOOSE k \in Code : \A j \in Code : k <= j]
     IN  CASE bin.text_bytes.size # 0 ->
                /\ stage' = "disassembler"
                /\ UNCHANGED <<given, cli, bin, exit, written>>
           [] bin.text_bytes.size = 0 /\ Code = {} ->
                Exit(2) /\ UNCHANGED <<given, cli, bin, written>>
           [] bin.text_bytes.size = 0 /\ Code # {}
                /\ ~InFile(s.offset, s.filesz) -> Undefined
           [] OTHER ->
                /\ bin' = [bin EXCEPT !.text_addr = s.vaddr,
                             !.text_bytes = [offset |-> s.offset,
                                             size |-> s.filesz]]
                /\ stage' = "disassembler"
                /\ UNCHANGED <<given, cli, exit, written>>

-----------------------------------------------------------------------------
(* The rest of main.  Capstone may find no instruction in the code.        *)
initDisassembler ==
  /\ stage = "disassembler"
  /\ \/ file.x86 /\ stage' = "disassemble" /\ UNCHANGED exit
     \/ Exit(3)   \* another machine, or no handle
  /\ UNCHANGED <<given, cli, bin, written>>

disassemble ==
  /\ stage = "disassemble"
  /\ \/ stage' = "graph" /\ UNCHANGED exit
     \/ Exit(4)
  /\ UNCHANGED <<given, cli, bin, written>>

dumpCfg == \A k \in DOMAIN cli : cli[k][1] # "--no-cfg"

buildGraph ==
  /\ stage = "graph"
  /\ written' = IF dumpCfg THEN {"cfg.dot"} ELSE {}
  /\ stage' = "run"
  /\ UNCHANGED <<given, cli, bin, exit>>

(* What run throws nobody catches.                                         *)
run ==
  /\ stage = "run"
  /\ \/ stage' = "reports" /\ UNCHANGED exit
     \/ Exit("aborted")
  /\ UNCHANGED <<given, cli, bin, written>>

(* writeFile does not look whether the file could be written.              *)
writeReports ==
  /\ stage = "reports"
  /\ written' = written \cup {"testcases.txt", "stats.json"}
  /\ Exit(0)
  /\ UNCHANGED <<given, cli, bin>>

Next ==
  \/ parseCli \/ load \/ parseSegments \/ parseSections \/ fallback
  \/ initDisassembler \/ disassemble \/ buildGraph \/ run \/ writeReports

Spec == Init /\ [][Next]_vars
=============================================================================
