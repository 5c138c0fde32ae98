------------------------------- MODULE Sstrip -------------------------------
(***************************************************************************)
(* sstrip: cuts off what an executable does not need at run time, in place *)
(* (tools/sstrip/src/sstrip.c).  A file is its size, the offsets of its    *)
(* bytes that are not zero, the program header table that follows the ELF  *)
(* header, and e_shoff.  A write takes place whole or not at all.          *)
(***************************************************************************)
EXTENDS Naturals, Sequences, FiniteSetsExt

CONSTANTS EhdrSize, PhdrSize,  \* sizes of the ELF header and of a table entry
          Chunk,               \* sizeof contents
          Sizes,               \* sizes of files
          Segments             \* [null, offset, filesz, memsz]: table entries

ASSUME SstripAssumption ==
  /\ EhdrSize \in Nat /\ PhdrSize \in Nat /\ Chunk \in Nat \ {0} /\ Sizes \subseteq Nat
  /\ Segments \subseteq [null : BOOLEAN, offset : Nat, filesz : Nat, memsz : Nat]

VARIABLE strip   \* file, first: the file and as it was built; good: it is one
                 \* to strip; ehdr, phdrs: what was read; newsize; pc

TableEnd(phdrs) == EhdrSize + Len(phdrs) * PhdrSize

Inside(seg, size) == seg.offset + seg.filesz <= size

(* The header has its magic and its sizes; linkers put the table behind it. *)
Given(file, good) ==
  [file |-> file, first |-> file, good |-> good, ehdr |-> 0, phdrs |-> <<>>, newsize |-> 0,
   pc |-> "read"]

StripInit ==
  \E size \in Sizes, n \in 1..2, good \in BOOLEAN :
  \E phdrs \in [1..n -> Segments], shoff \in {0, size - 1} :
  \E nonzero \in SUBSET (EhdrSize..(size - 1)) :
    /\ TableEnd(phdrs) <= size /\ \A i \in 1..n : Inside(phdrs[i], size)
    /\ strip = Given([size |-> size, nonzero |-> nonzero \cup (0..(EhdrSize - 1)),
                      phdrs |-> phdrs, shoff |-> shoff], good)

(* readelfheaderident(), readelfheader() and readphdrtable(). *)
ReadHeaders ==
  /\ strip.pc = "read"
  /\ strip' = IF strip.good
              THEN [strip EXCEPT !.ehdr = strip.file.shoff, !.phdrs = strip.file.phdrs, !.pc = "size"]
              ELSE [strip EXCEPT !.pc = "failed"]

(* Mutant: only the end of the last entry counts. *)
MemorySizeLast(phdrs) ==
  LET seg == phdrs[Len(phdrs)] IN Max({TableEnd(phdrs), seg.offset + seg.filesz})
MemorySize(phdrs) ==
  Max({TableEnd(phdrs)} \cup {phdrs[i].offset + phdrs[i].filesz : i \in
                                {k \in DOMAIN phdrs : ~phdrs[k].null}})

GetMemorySize ==
  /\ strip.pc = "size"
  /\ strip' = [strip EXCEPT !.newsize = MemorySize(strip.phdrs), !.pc = "zeros"]

(* truncatezeros(): a buffer from the end of what is left.  The loop goes  *)
(* on while it stopped at the first byte of the buffer.                    *)
TruncateZeros ==
  /\ strip.pc = "zeros"
  /\ LET size == strip.newsize
         low  == IF size > Chunk THEN size - Chunk ELSE 0
         left == {i \in strip.file.nonzero : i >= low /\ i < size}
     IN  strip' = IF left = {} \/ Max(left) = low
                  THEN [strip EXCEPT !.newsize = IF left = {} THEN low ELSE low + 1]
                  ELSE [strip EXCEPT !.newsize = Max(left) + 1, !.pc = "modify"]

Modified(seg, size) ==
  IF seg.offset >= size THEN [seg EXCEPT !.offset = size, !.filesz = 0]
  ELSE IF seg.offset + seg.filesz > size THEN [seg EXCEPT !.filesz = size - seg.offset]
  ELSE seg

ModifyHeaders ==
  /\ strip.pc = "modify"
  /\ strip' = [strip EXCEPT
       !.ehdr = IF @ >= strip.newsize THEN 0 ELSE @,
       !.phdrs = [i \in DOMAIN @ |-> Modified(@[i], strip.newsize)], !.pc = "ehdr"]

(* commitchanges(): each of the three may fail. *)
WriteEhdr ==
  /\ strip.pc = "ehdr"
  /\ \/ strip' = [strip EXCEPT !.file.shoff = strip.ehdr, !.pc = "phdrs"]
     \/ strip' = [strip EXCEPT !.pc = "failed"]

WritePhdrs ==
  /\ strip.pc = "phdrs"
  /\ \/ strip' = [strip EXCEPT !.file.phdrs = strip.phdrs, !.pc = "truncate"]
     \/ strip' = [strip EXCEPT !.pc = "warned"]

(* The eleventh-hour check keeps the table. *)
Truncate ==
  /\ strip.pc = "truncate"
  /\ LET size == Max({strip.newsize, TableEnd(strip.phdrs)})
     IN  \/ strip' = [strip EXCEPT !.file.size = size, !.pc = "ok",
                                   !.file.nonzero = {i \in @ : i < size}]
         \/ strip' = [strip EXCEPT !.pc = "warned"]

StripNext == ReadHeaders \/ GetMemorySize \/ TruncateZeros \/ ModifyHeaders
             \/ WriteEhdr \/ WritePhdrs \/ Truncate

StripSpec == StripInit /\ [][StripNext]_strip

-----------------------------------------------------------------------------
(* The bytes of a segment that are not zero in memory; the table may change. *)
Image(file, seg) ==
  {i \in 0..(seg.filesz - 1) : seg.offset + i \in file.nonzero
                               /\ seg.offset + i \notin EhdrSize..(TableEnd(file.phdrs) - 1)}

(* Whichever write fails, or if the tool is killed between two of them, the*)
(* program is loaded as before: each segment has the same bytes, zeros past*)
(* the end of what is left of it, and lies inside the file with the table  *)
(* (sstrip.c:142-307); after a failure that is not warned of the file is as*)
(* it was.                                                                 *)
SameImage ==
  LET file == strip.file
      first == strip.first
  IN  /\ TableEnd(file.phdrs) <= file.size
      /\ \A i \in DOMAIN first.phdrs :
           first.phdrs[i].null \/
           /\ Image(file, file.phdrs[i]) = Image(first, first.phdrs[i])
           /\ Inside(file.phdrs[i], file.size) /\ file.phdrs[i].memsz = first.phdrs[i].memsz
      /\ strip.pc = "failed" => file = first
=============================================================================
