------------------------------- MODULE ElfFile -------------------------------
(***************************************************************************)
(* An ELF file as the loaders of src/main.cpp and src/ELFParser.cpp see    *)
(* it, in units: the identification, the rest of the header, one entry of  *)
(* a table and one piece of code are a unit each.  A unit that is read as  *)
(* a table entry is a record, whatever the file means it to be.            *)
(***************************************************************************)
EXTENDS Integers, Sequences

CONSTANTS
  Word32, Word64,   \* 2^32 and 2^64
  Half              \* 2^16

ASSUME WordsAssumption ==
  Word64 \in Nat /\ Word32 \in 1 .. Word64 /\ Half \in 1 .. Word32

(* A program header and a section header share a record; name is where the *)
(* name of a section is in the table of names, and text the characters of  *)
(* a unit up to its first NUL, or Open if it has none.  This is what a     *)
(* unit that holds no entry and begins with a NUL reads as.                *)
Zero == [type |-> "NULL", addr |-> 0, offset |-> 0, size |-> 0, x |-> FALSE,
         name |-> 0, text |-> ""]
Open == "no NUL"

At(f, p) == IF p \in DOMAIN f.units THEN f.units[p] ELSE Zero

(* A string that starts at p ends in the file.                             *)
Ends(f, p) == \E q \in p .. f.size - 1 : At(f, q).text # Open

(* The elements of a sequence at some places, in order: what a loop has    *)
(* made that appends an element if something holds of it.                  *)
Picked(seq, Places) ==
  LET Made[k \in 0 .. Len(seq)] ==
        IF k = 0 THEN <<>>
        ELSE IF k \in Places THEN Append(Made[k - 1], seq[k]) ELSE Made[k - 1]
  IN  Made[Len(seq)]

Loads(entries) ==
  Picked(entries, {k \in DOMAIN entries : entries[k].type = "LOAD"})

Ident == 1    \* the size of the identification
Header == 2   \* of the whole header
=============================================================================
