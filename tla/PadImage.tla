------------------------------ MODULE PadImage ------------------------------
(***************************************************************************)
(* padjffs2: appends the end-of-filesystem mark of JFFS2 to an image, at   *)
(* every block boundary that one of the flash layouts it is meant for may  *)
(* have (tools/padjffs2/src/padjffs2.c).  The image is written in place.   *)
(***************************************************************************)
EXTENDS Naturals, FiniteSetsExt

CONSTANTS Lengths,     \* sizes of the image
          Blocks,      \* the sizes 1UL << i that pad_mask can ask for
          Mark,        \* sizeof(eof_mark)
          BufSize      \* BUF_SIZE

(* Powers of two, from 1 << 10, so that each divides the larger ones.      *)
ASSUME PadAssumption ==
  /\ Lengths \subseteq Nat /\ Mark \in Nat \ {0} /\ BufSize \in Nat \ {0}
  /\ Blocks \subseteq {b \in Nat : b > Mark}
  /\ \A b, c \in Blocks : b <= c => c % b = 0

VARIABLE pad   \* len0, asked: the arguments; in, out: in_len and out_len;
               \* todo: pad_mask; marks: where the file has marks; pc

Align(x, b) == ((x + b - 1) \div b) * b

Asked(len, asked) ==
  [len0 |-> len, asked |-> asked, in |-> len, out |-> len, todo |-> asked, marks |-> {},
   pc |-> "next"]

PadInit == \E len \in Lengths, asked \in (SUBSET Blocks) \ {{}} : pad = Asked(len, asked)

(* Mutant: the largest block size comes first. *)
NextBlockLargest ==
  /\ pad.pc = "next" /\ pad.todo # {}
  /\ LET in == Align(pad.in, Max(pad.todo))
     IN  pad' = [pad EXCEPT !.in = in, !.todo = {b \in @ : in % b # 0}, !.pc = "fill"]
(* The next boundary, which stands for all the block sizes it is aligned to. *)
NextBlock ==
  /\ pad.pc = "next" /\ pad.todo # {}
  /\ LET in == Align(pad.in, Min(pad.todo))
     IN  pad' = [pad EXCEPT !.in = in, !.todo = {b \in @ : in % b # 0}, !.pc = "fill"]

(* The file is filled up to it, a buffer at a time. *)
Fill ==
  /\ pad.pc = "fill" /\ pad.out < pad.in
  /\ pad' = [pad EXCEPT !.out = @ + Min({pad.in - pad.out, BufSize})]

WriteMark ==
  /\ pad.pc = "fill" /\ pad.out >= pad.in
  /\ pad' = [pad EXCEPT !.marks = @ \cup {pad.out}, !.out = @ + Mark, !.pc = "next"]

(* A write that fails ends it. *)
WriteFails == pad.pc = "fill" /\ pad' = [pad EXCEPT !.pc = "failed"]

PadDone == pad.pc = "next" /\ pad.todo = {} /\ pad' = [pad EXCEPT !.pc = "ok"]

PadNext == NextBlock \/ Fill \/ WriteMark \/ WriteFails \/ PadDone

PadSpec == PadInit /\ [][PadNext]_pad

-----------------------------------------------------------------------------
(* When it ends well, a file system with any of the block sizes asked for  *)
(* finds the mark at its first block boundary behind the image, although   *)
(* each mark but the last is followed by more padding (padjffs2.c:66-111). *)
MarkAtBoundary == pad.pc = "ok" => \A b \in pad.asked : Align(pad.len0, b) \in pad.marks
=============================================================================
