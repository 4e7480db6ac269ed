------------------------------ MODULE LibParser ------------------------------
(***************************************************************************)
(* src/ELFParser.cpp of the library, as a function of the file, and how it *)
(* compares with the loader of src/main.cpp on the same file.              *)
(***************************************************************************)
EXTENDS Loader

(* parseBuffer and parseELFHeader refuse less, and other things, than the  *)
(* loader; either order of bytes will do.                                  *)
isValid(f) ==
  /\ f.readable /\ f.size >= Ident /\ f.magic
  /\ f.class \in {32, 64} /\ f.knownType

(* In a 64-bit file the number of program headers is read as 32 bits from  *)
(* a field of 16, so the size of a section header is in it.                *)
programHeaderCount(f) ==
  IF f.class = 64 THEN f.phnum + Half * f.shentsize ELSE f.phnum

(* The entries have the standard size; what is not in the file reads as 0. *)
programHeaders(f) ==
  IF f.phoff = 0 \/ f.size < Header THEN <<>>
  ELSE [k \in 1 .. programHeaderCount(f) |-> At(f, (f.phoff + k - 1) % Word64)]

(* loadSegments; data that is not in the file is left out.                 *)
loadSegments(f) ==
  LET loads == Loads(programHeaders(f))
  IN  [k \in DOMAIN loads |->
         LET e == loads[k]
             has == e.size > 0 /\ (e.offset + e.size) % Word64 <= f.size
         IN  [vaddr |-> e.addr, executable |-> e.x,
              data |-> IF has THEN [offset |-> e.offset, size |-> e.size]
                       ELSE NoCode]]

-----------------------------------------------------------------------------
(* Sums of two fields of the header or of an entry that do not fit a word. *)
SumsWrap ==
  \/ \E k \in 1 .. file.phnum : file.phoff + (k - 1) * file.phentsize + 1 >= Word64
  \/ \E k \in 0 .. file.shnum : file.shoff + k * file.shentsize + 1 >= Word64
  \/ file.shoff + file.shstrndx * file.shentsize + 1 >= Word64
  \/ \E p \in DOMAIN file.units :
       file.units[p].offset + file.units[p].size >= Word64

(* Neither the table of names of a 64-bit file nor the file ends in a NUL; *)
(* ELF wants one at the end of the table.                                  *)
NamesRunOn ==
  LET table == At(file, Wrap(file.shoff + file.shstrndx * file.shentsize))
  IN  /\ table.size > 0 /\ At(file, table.offset + table.size - 1).text = Open
      /\ At(file, file.size - 1).text = Open

(* The loader reads nothing outside the file, and takes no code from       *)
(* there, but in a 64-bit file where a sum of an offset and a size wraps   *)
(* or a name runs on past the table of names to the end of the file.       *)
ReadsInFile ==
  /\ stage = "undefined" => file.class = 64 /\ (SumsWrap \/ NamesRunOn)
  /\ InFile(bin.text_bytes.offset, bin.text_bytes.size)

(* The two loaders of the repository agree on a file with a table of       *)
(* entries of the standard size that is in the file: the segments of the   *)
(* library begin with those of the tool, end with them where the library   *)
(* counts the headers right, and the code the tool takes from a segment is *)
(* what the library has loaded at that address.                            *)
LoadersAgree ==
  LET table == /\ file.phentsize = 1 /\ file.phoff > 0
               /\ InFile(file.phoff, file.phnum)
      lib == loadSegments(file)
      tool == bin.segments
  IN  stage \in {"sections", "fallback", "disassembler"} /\ table /\ isValid(file) =>
        /\ Len(tool) <= Len(lib)
        /\ \A k \in DOMAIN tool :
             lib[k].vaddr = tool[k].vaddr /\ lib[k].executable = tool[k].x
        /\ programHeaderCount(file) = file.phnum => Len(tool) = Len(lib)
        /\ stage = "disassembler" /\ ~Wide =>
             \E k \in DOMAIN lib :
               lib[k].vaddr = bin.text_addr /\ lib[k].data = bin.text_bytes

(* The bytes of a 32-bit file have numbers its offsets can hold.           *)
ShortFiles == \A s \in Sessions : s.file.class = 32 => s.file.size <= Word32
=============================================================================
