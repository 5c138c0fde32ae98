---------------------------- MODULE ToolsProofs -----------------------------
(***************************************************************************)
(* The image tools for files and images of every size: sstrip leaves the   *)
(* program as it was wherever it is stopped, padjffs2 marks every boundary *)
(* asked for, patch-cmdline stays in its room, zyimage signs with the      *)
(* checksum of the format however often it runs, the range decoder of the  *)
(* boot loader stays inside its range, the loader writes out what the      *)
(* packets mean, and mdeps.pl puts modules after what they depend on.      *)
(***************************************************************************)
EXTENDS PadImage, Sstrip, PatchCmdline, ZyImage, LzmaDecode, TLAPS,
        FiniteSetTheorems, WellFoundedInduction

-----------------------------------------------------------------------------
(* The range decoder.                                                      *)

(* A part of a range, in whole numbers, as bound is of Range. *)
LEMMA PartOf ==
  ASSUME NEW r \in Nat, NEW p \in Nat, Total <= r, p \in 1..(Total - 1)
  PROVE  /\ (r \div Total) * p \in 1..(r - 1)
         /\ r \div Total \in Nat
<1> DEFINE q == r \div Total
<1>1. q \in Nat /\ Total * q <= r /\ 1 <= q
  BY RangeAssumption, Z3
<1> HIDE DEF q
<1>2. q * p \in Nat /\ q <= q * p /\ q * p <= q * (Total - 1)
  BY <1>1, RangeAssumption, Z3
<1>3. q * (Total - 1) = Total * q - q
  BY <1>1, RangeAssumption, Z3
<1>q. QED
  BY <1>1, <1>2, <1>3, RangeAssumption DEF q

(* What a probability is moved by is less than what it is moved from. *)
LEMMA MoveLess ==
  ASSUME NEW x \in Nat \ {0}
  PROVE  x \div Move \in Nat /\ x \div Move < x
  BY RangeAssumption, Z3

Prob == 1..(Total - 1)

RangeInv ==
  /\ rc \in [Code : Nat, Range : Nat, p : [Probs -> Prob], wrong : BOOLEAN]
  /\ 1 <= rc.Range /\ rc.Range < Word
  /\ rc.wrong \/ rc.Code < rc.Range

(* Whatever bytes the flash holds and whichever bits are asked for, the    *)
(* code stays inside the range, with every probability inside (0, 1) and   *)
(* both values of a bit possible, for bytes, words and probabilities of    *)
(* any size (LzmaDecode.c:56-64).                                          *)
THEOREM RangeIsSound == RangeSpec => []RangeSound
<1>1. RangeInit => RangeInv
  <2> SUFFICES ASSUME NEW code \in 0..(Word - 1), rc = Started(code) PROVE RangeInv
    BY DEF RangeInit
  <2>1. Word \in Nat /\ 4 <= Word
    BY RangeAssumption, Z3 DEF Word
  <2> DEFINE t == Total \div 2
  <2>2. t \in Prob
    BY RangeAssumption, Z3 DEF Prob
  <2> DEFINE wrong == code >= Word - 1
             p == [c \in Probs |-> t]
  <2>3. rc = [Code |-> code, Range |-> Word - 1, p |-> p, wrong |-> wrong]
    BY DEF Started
  <2> HIDE DEF t
  <2>4. p \in [Probs -> Prob]
    BY <2>2
  <2>5. wrong \in BOOLEAN /\ (wrong \/ code < Word - 1)
    BY <2>1
  <2> HIDE DEF wrong, p
  <2>q. QED
    BY <2>1, <2>3, <2>4, <2>5 DEF RangeInv
<1>2. RangeInv /\ [RangeNext]_rc => RangeInv'
  <2> SUFFICES ASSUME RangeInv, [RangeNext]_rc PROVE RangeInv'
    OBVIOUS
  <2> USE RangeAssumption DEF RangeInv
  <2>0. Word \in Nat /\ Word' = Word
    BY Z3 DEF Word
  <2>1. ASSUME NEW b \in 0..(Base - 1), Normalize(b) PROVE RangeInv'
    <3>1. rc.Range + 1 <= Top
      BY <2>1 DEF Normalize
    <3>2. (rc.Range + 1) * Base <= Word
      BY <3>1, Z3 DEF Word
    <3>3. (rc.Range + 1) * Base = rc.Range * Base + Base /\ Base <= rc.Range * Base
      BY Z3
    <3>4. rc.Range * Base < Word /\ rc.Range * Base \in Nat /\ 1 <= rc.Range * Base
      BY <3>2, <3>3, Z3 DEF Word
    <3>5. (rc.Range * Base) % Word = rc.Range * Base
      BY ONLY <2>0, <3>4, Z3
    <3>6. rc.wrong \/ (rc.Code + 1) * Base <= rc.Range * Base
      BY Z3
    <3>7. rc.wrong \/ (rc.Code * Base + b < rc.Range * Base /\ rc.Code * Base + b \in Nat)
      BY <3>6, Z3
    <3>8. rc.wrong \/ (rc.Code * Base + b) % Word = rc.Code * Base + b
      BY ONLY <2>0, <3>7, <3>4, Z3
    <3>9. (rc.Code * Base + b) % Word \in Nat
      BY Z3 DEF Word
    <3>q. QED
      BY <2>1, <3>4, <3>5, <3>7, <3>8, <3>9 DEF Normalize
  <2>2. ASSUME NEW c \in Probs, Bit0(c) PROVE RangeInv'
    <3> DEFINE bound == Bound(c)
               q == rc.p[c] + ((Total - rc.p[c]) \div Move)
               p == [rc.p EXCEPT ![c] = q]
    <3>1. bound \in Nat /\ 1 <= bound /\ bound < rc.Range
      BY <2>2, PartOf DEF Bit0, Bound, Prob
    <3>2. q \in Prob
      BY MoveLess DEF Prob
    <3>3. rc.Code < bound /\ rc' = [rc EXCEPT !.Range = bound, !.p = p]
      BY <2>2 DEF Bit0
    <3> HIDE DEF bound, q
    <3>4. p \in [Probs -> Prob]
      BY <3>2
    <3> HIDE DEF p
    <3>5. /\ rc'.Range = bound /\ rc'.Code = rc.Code /\ rc'.wrong = rc.wrong
          /\ rc' \in [Code : Nat, Range : Nat, p : [Probs -> Prob], wrong : BOOLEAN]
      BY <3>1, <3>3, <3>4
    <3>q. QED
      BY <2>0, <3>1, <3>3, <3>5
  <2>3. ASSUME NEW c \in Probs, Bit1(c) PROVE RangeInv'
    <3> DEFINE bound == Bound(c)
               q == rc.p[c] - (rc.p[c] \div Move)
               p == [rc.p EXCEPT ![c] = q]
    <3>1. bound \in Nat /\ 1 <= bound /\ bound < rc.Range
      BY <2>3, PartOf DEF Bit1, Bound, Prob
    <3>2. q \in Prob
      BY MoveLess DEF Prob
    <3>3. /\ rc.Code - bound \in Nat /\ rc.Range - bound \in Nat
          /\ rc' = [rc EXCEPT !.Range = rc.Range - bound, !.Code = rc.Code - bound, !.p = p]
      BY <2>3, <3>1 DEF Bit1
    <3> HIDE DEF bound, q
    <3>4. p \in [Probs -> Prob]
      BY <3>2
    <3> HIDE DEF p
    <3>5. /\ rc'.Range = rc.Range - bound /\ rc'.Code = rc.Code - bound /\ rc'.wrong = rc.wrong
          /\ rc' \in [Code : Nat, Range : Nat, p : [Probs -> Prob], wrong : BOOLEAN]
      BY <3>1, <3>3, <3>4
    <3>q. QED
      BY <2>0, <3>1, <3>3, <3>5
  <2>4. CASE Direct
    <3> DEFINE half == rc.Range \div 2
               code == IF rc.Code >= half THEN rc.Code - half ELSE rc.Code
               wrong == rc.wrong \/ rc.Code >= 2 * half
    <3>1. half \in Nat /\ 1 <= half /\ half < rc.Range /\ rc.Range - 2 * half \in 0..1
      BY <2>4, Z3 DEF Direct
    <3>2. rc' = [rc EXCEPT !.Range = half, !.Code = code, !.wrong = wrong]
      BY <2>4 DEF Direct
    <3> HIDE DEF half
    <3>3. code \in Nat /\ (wrong \/ code < half) /\ wrong \in BOOLEAN
      BY <3>1
    <3> HIDE DEF code, wrong
    <3>4. /\ rc'.Range = half /\ rc'.Code = code /\ rc'.wrong = wrong
          /\ rc' \in [Code : Nat, Range : Nat, p : [Probs -> Prob], wrong : BOOLEAN]
      BY <3>1, <3>2, <3>3
    <3>q. QED
      BY <2>0, <3>1, <3>3, <3>4
  <2>5. CASE UNCHANGED rc
    BY <2>5
  <2>q. QED
    BY <2>1, <2>2, <2>3, <2>4, <2>5 DEF RangeNext
<1>3. RangeInv => RangeSound
  <2>1. ASSUME RangeInv, rc.Range >= Top, NEW c \in Probs PROVE Bound(c) \in 1..(rc.Range - 1)
    <3>1. rc.Range \in Nat /\ rc.p[c] \in Nat /\ rc.p[c] \in 1..(Total - 1) /\ Total <= rc.Range
      BY <2>1, RangeAssumption DEF RangeInv, Prob
    <3>q. QED
      BY <3>1, PartOf DEF Bound
  <2>q. QED
    BY <2>1 DEF RangeSound, RangeInv, Prob
<1>q. QED
  BY <1>1, <1>2, <1>3, PTL DEF RangeSpec

-----------------------------------------------------------------------------
(* patch-cmdline.                                                          *)

CmdlineInv ==
  /\ image.at \in {Size} \cup (Marker..(Size - CmdlineMax))
  /\ image.arg \in Seq(Char) /\ image.fits \in BOOLEAN
  /\ image = [at |-> image.at, file |-> image.file, first |-> image.first, arg |-> image.arg,
              runs |-> image.runs, ret |-> image.ret, fits |-> image.fits]
  /\ DOMAIN image.file = 0..(Size - 1)
  /\ image.fits /\ image.at < Size => Len(image.arg) < CmdlineMax - Marker
  /\ LineInRoom

(* However often the tool is run, and whatever was there before, the room  *)
(* of an image of any size holds the last line and zeros, and the rest is  *)
(* as it was built, while the lines fit into the room                      *)
(* (patch-cmdline.c:46-82).                                                *)
THEOREM CmdlineStaysInRoom == CmdlineSpec => []LineInRoom
<1> USE CmdlineAssumption
<1>1. CmdlineInit => CmdlineInv
  <2> SUFFICES ASSUME NEW at \in {Size} \cup (Marker..(Size - CmdlineMax)), image = Linked(at)
               PROVE  CmdlineInv
    BY DEF CmdlineInit
  <2>q. QED
    BY DEF Linked, CmdlineInv, LineInRoom, Room
<1>2. CmdlineInv /\ [CmdlineNext]_image => CmdlineInv'
  <2>1. ASSUME CmdlineInv, NEW arg \in Seq(Char), Patch(arg) PROVE CmdlineInv'
    <3>1. CASE Len(arg) > CmdlineMax - 1 \/ image.at = Size
      <4>1. image' = [image EXCEPT !.runs = @ + 1, !.ret = 1]
        BY <2>1, <3>1 DEF Patch
      <4>q. QED
        BY <2>1, <4>1 DEF CmdlineInv, LineInRoom
    <3>2. CASE ~(Len(arg) > CmdlineMax - 1 \/ image.at = Size)
      <4> DEFINE file == Written(image.file, image.at, arg)
                 fits == image.fits /\ Len(arg) < CmdlineMax - Marker
      <4>1. image' = [image EXCEPT !.runs = @ + 1, !.ret = 0, !.arg = arg, !.file = file, !.fits = fits]
        BY <2>1, <3>2 DEF Patch
      <4>2. /\ DOMAIN file = 0..(Size - 1) /\ fits \in BOOLEAN
            /\ image.at \in Nat /\ image.at + CmdlineMax <= Size
        BY <2>1, <3>2 DEF CmdlineInv, Written
      <4>3. ASSUME fits, NEW i \in Room(image.at)
            PROVE  file[i] = IF i - image.at < Len(arg) THEN arg[i - image.at + 1] ELSE "0"
        <5>1. i \in 0..(Size - 1) /\ i \in Int
          BY <4>2, <4>3 DEF Room
        <5>2. CASE i - image.at < Len(arg)
          BY <5>1, <5>2, <4>2, <4>3, <2>1, SMTT(30) DEF Room, Written, CmdlineInv
        <5>3. CASE i - image.at = Len(arg)
          <6>1. arg \in Seq(Char) /\ Len(arg) \in Nat /\ i - image.at + 1 = Len(arg) + 1
            BY <2>1, <5>3
          <6>2. (arg \o <<"0">>)[Len(arg) + 1] = "0"
            BY ONLY <6>1
          <6>3. file[i] = (arg \o <<"0">>)[i - image.at + 1]
            <7>1. i \in DOMAIN image.file /\ i \in image.at..(image.at + Len(arg))
              BY <2>1, <5>1, <5>3, <6>1, <4>2, SMTT(30) DEF CmdlineInv
            <7>q. QED
              BY <7>1 DEF Written
          <6>q. QED
            BY ONLY <6>1, <6>2, <6>3, <5>3
        <5>4. CASE i - image.at > Len(arg)
          BY <5>1, <5>4, <4>2, <4>3, <2>1 DEF Room, Written, CmdlineInv
        <5>q. QED
          BY <5>1, <5>2, <5>3, <5>4, <4>2
      <4>4. ASSUME fits, NEW i \in (DOMAIN file) \ Room(image.at)
            PROVE  file[i] = image.first[i]
        <5>1. i \in (DOMAIN image.file) \ Room(image.at)
          BY <4>2, <4>4, <2>1 DEF CmdlineInv
        <5>2. i \notin image.at..(image.at + Len(arg))
          BY <4>2, <4>4, <5>1, <2>1 DEF CmdlineInv, Room
        <5>3. file[i] = image.file[i]
          BY <5>1, <5>2 DEF Written
        <5>q. QED
          BY <5>1, <5>3, <4>2, <4>4, <2>1 DEF CmdlineInv, LineInRoom
      <4> HIDE DEF file, fits
      <4>5. /\ image'.at = image.at /\ image'.arg = arg /\ image'.file = file /\ image'.fits = fits
            /\ image'.first = image.first
            /\ image' = [at |-> image'.at, file |-> image'.file, first |-> image'.first, arg |-> image'.arg,
                         runs |-> image'.runs, ret |-> image'.ret, fits |-> image'.fits]
        BY <2>1, <4>1 DEF CmdlineInv
      <4>6. fits => Len(arg) < CmdlineMax - Marker
        BY DEF fits
      <4>q. QED
        BY <2>1, <4>2, <4>3, <4>4, <4>5, <4>6 DEF CmdlineInv, LineInRoom
    <3>q. QED
      BY <3>1, <3>2
  <2>2. ASSUME CmdlineInv, UNCHANGED image PROVE CmdlineInv'
    BY <2>2 DEF CmdlineInv, LineInRoom
  <2>q. QED
    BY <2>1, <2>2 DEF CmdlineNext
<1>3. CmdlineInv => LineInRoom
  BY DEF CmdlineInv
<1>q. QED
  BY <1>1, <1>2, <1>3, PTL DEF CmdlineSpec

-----------------------------------------------------------------------------
(* padjffs2.                                                               *)

(* Min() finds the smallest member of a set of numbers. *)
LEMMA MinIn ==
  ASSUME NEW S \in SUBSET Nat, S # {}
  PROVE  Min(S) \in S /\ \A x \in S : Min(S) <= x
<1>1. PICK i \in S : \A j \in S : ~(<<j, i>> \in OpToRel(<, Nat))
  BY NatLessThanWellFounded, WFMin
<1>2. \A j \in S : ~(j < i)
  BY <1>1 DEF OpToRel
<1>3. \A j \in S : i <= j
  BY <1>2
<1>q. QED
  BY <1>3 DEF Min

(* A size that a block size divides is a number of blocks. *)
LEMMA Whole ==
  ASSUME NEW m \in Nat, NEW b \in Nat \ {0}
  PROVE  m % b = 0 <=> \E k \in Nat : m = k * b
<1>1. m \div b \in Nat
  BY Z3
<1>2. ASSUME m % b = 0 PROVE m = (m \div b) * b
  BY <1>2, Z3
<1>3. ASSUME NEW k \in Nat, m = k * b PROVE m % b = 0
  BY <1>3, Z3
<1>q. QED
  BY <1>1, <1>2, <1>3

(* Two boundaries are a block apart. *)
LEMMA Apart ==
  ASSUME NEW b \in Nat \ {0}, NEW m \in Nat, NEW n \in Nat, m % b = 0, n % b = 0, m < n
  PROVE  m + b <= n
<1>1. PICK k \in Nat : m = k * b
  BY Whole
<1>2. PICK l \in Nat : n = l * b
  BY Whole
<1>3. k < l
  <2>1. ASSUME l <= k PROVE l * b <= k * b
    BY <2>1, Z3
  <2>q. QED
    BY <1>1, <1>2, <2>1
<1>4. (k + 1) * b <= l * b /\ (k + 1) * b = k * b + b
  BY <1>3, Z3
<1>q. QED
  BY <1>1, <1>2, <1>4

(* A boundary of large blocks is one of the blocks that divide them. *)
LEMMA Nested ==
  ASSUME NEW b \in Nat \ {0}, NEW c \in Nat \ {0}, NEW m \in Nat, c % b = 0, m % c = 0
  PROVE  m % b = 0
<1>1. PICK k \in Nat : c = k * b
  BY Whole
<1>2. PICK l \in Nat : m = l * c
  BY Whole
<1>3. m = (l * k) * b /\ l * k \in Nat
  BY <1>1, <1>2, Z3
<1>q. QED
  BY <1>3, Whole

(* ALIGN() finds the first boundary that is not before x. *)
LEMMA AlignNext ==
  ASSUME NEW x \in Nat, NEW b \in Nat \ {0}
  PROVE  /\ Align(x, b) \in Nat /\ Align(x, b) % b = 0
         /\ x <= Align(x, b) /\ Align(x, b) < x + b
         /\ \A m \in Nat : m % b = 0 /\ x <= m => Align(x, b) <= m
<1> DEFINE q == (x + b - 1) \div b
           a == q * b
<1>1. q \in Nat /\ a \in Nat /\ a <= x + b - 1 /\ x + b - 1 < a + b
  BY Z3
<1>2. a = Align(x, b)
  BY DEF Align
<1> HIDE DEF q
<1>3. a % b = 0
  BY <1>1, Whole
<1> HIDE DEF a
<1>4. ASSUME NEW m \in Nat, m % b = 0, x <= m PROVE a <= m
  <2>1. ASSUME m < a PROVE FALSE
    <3>1. m + b <= a
      BY <2>1, <1>1, <1>3, <1>4, Apart
    <3>q. QED
      BY <3>1, <1>1, <1>4
  <2>q. QED
    BY <2>1, <1>1
<1>q. QED
  BY <1>1, <1>2, <1>3, <1>4

(* A boundary was reached, and those that are left are farther apart. *)
Reached(in, todo) == \E c \in Blocks : in % c = 0 /\ \A b \in todo : c <= b /\ in % b # 0

PadInv ==
  /\ pad \in [len0 : Nat, asked : SUBSET Blocks, in : Nat, out : Nat, todo : SUBSET Blocks,
              marks : SUBSET Nat, pc : {"next", "fill", "failed", "ok"}]
  /\ pad.todo \subseteq pad.asked /\ pad.len0 <= pad.in
  /\ \A b \in pad.todo : pad.in <= Align(pad.len0, b)
  /\ \A b \in pad.asked \ pad.todo :
       Align(pad.len0, b) \in pad.marks \/ (pad.pc # "ok" /\ pad.pc # "next" /\ Align(pad.len0, b) = pad.in)
  /\ pad.pc = "next" => pad.in = pad.out \/ (pad.out = pad.in + Mark /\ Reached(pad.in, pad.todo))
  /\ pad.pc = "fill" => pad.out <= pad.in /\ Reached(pad.in, pad.todo)
  /\ pad.pc = "ok" => pad.todo = {}

(* With any image, block sizes and mark, a file system with one of the     *)
(* block sizes asked for finds the mark at its first boundary behind the   *)
(* image: no mark and no padding before it reaches past one that is left   *)
(* (padjffs2.c:66-111).                                                    *)
THEOREM MarksAreFound == PadSpec => []MarkAtBoundary
<1> USE PadAssumption
<1>0. Blocks \subseteq Nat \ {0}
  OBVIOUS
<1>1. PadInit => PadInv
  <2> SUFFICES ASSUME NEW len \in Lengths, NEW asked \in (SUBSET Blocks) \ {{}},
                      pad = Asked(len, asked)
               PROVE  PadInv
    BY DEF PadInit
  <2>1. \A b \in asked : len <= Align(len, b)
    BY <1>0, AlignNext
  <2>q. QED
    BY <2>1 DEF Asked, PadInv
<1>2. PadInv /\ [PadNext]_pad => PadInv'
  <2> SUFFICES ASSUME PadInv, [PadNext]_pad PROVE PadInv'
    OBVIOUS
  <2>1. CASE NextBlock
    <3> DEFINE b0 == Min(pad.todo)
               in == Align(pad.in, b0)
               todo == {b \in pad.todo : in % b # 0}
    <3>1. b0 \in pad.todo /\ \A b \in pad.todo : b0 <= b
      BY <2>1, <1>0, MinIn DEF NextBlock, PadInv
    <3>2. pad.pc = "next" /\ pad' = [pad EXCEPT !.in = in, !.todo = todo, !.pc = "fill"]
      BY <2>1 DEF NextBlock
    <3> HIDE DEF b0
    <3>3. b0 \in Blocks /\ b0 \in Nat \ {0}
      BY <3>1, <1>0 DEF PadInv
    <3>4. in \in Nat /\ in % b0 = 0 /\ pad.in <= in
      BY <3>3, AlignNext DEF PadInv
    <3>5. ASSUME NEW b \in pad.todo PROVE in <= Align(pad.len0, b)
      <4>1. b \in Nat \ {0} /\ b % b0 = 0
        BY <3>1, <3>3, <1>0 DEF PadInv
      <4>2. Align(pad.len0, b) \in Nat /\ Align(pad.len0, b) % b = 0 /\ pad.in <= Align(pad.len0, b)
        BY <4>1, AlignNext DEF PadInv
      <4>3. Align(pad.len0, b) % b0 = 0
        BY <4>1, <4>2, <3>3, Nested
      <4>q. QED
        BY <4>2, <4>3, <3>3, AlignNext DEF PadInv
    <3>6. ASSUME NEW b \in pad.todo, in % b = 0 PROVE in = Align(pad.len0, b)
      <4>1. b \in Nat \ {0} /\ pad.len0 \in Nat /\ pad.len0 <= in
        BY <3>4, <1>0 DEF PadInv
      <4>2. Align(pad.len0, b) <= in /\ Align(pad.len0, b) \in Nat
        BY <4>1, <3>4, <3>6, AlignNext
      <4>q. QED
        BY <4>2, <3>5, <3>4
    <3>7. pad.out <= in
      <4>1. CASE pad.in = pad.out
        BY <4>1, <3>4
      <4>2. CASE pad.out = pad.in + Mark /\ Reached(pad.in, pad.todo)
        <5>1. PICK c \in Blocks : pad.in % c = 0 /\ \A b \in pad.todo : c <= b /\ pad.in % b # 0
          BY <4>2 DEF Reached
        <5>2. b0 % c = 0 /\ c \in Nat \ {0} /\ Mark < c /\ pad.in % b0 # 0
          BY <5>1, <3>1, <3>3
        <5>3. in % c = 0
          BY <5>2, <3>3, <3>4, Nested
        <5>4. pad.in < in
          BY <5>2, <3>4 DEF PadInv
        <5>5. pad.in + c <= in
          BY <5>1, <5>2, <5>3, <5>4, <3>4, Apart DEF PadInv
        <5>q. QED
          BY <4>2, <5>2, <5>5, <3>4 DEF PadInv
      <4>q. QED
        BY <4>1, <4>2, <3>2 DEF PadInv
    <3>8. Reached(in, todo)
      BY <3>1, <3>3, <3>4 DEF Reached
    <3> HIDE DEF in
    <3>9. /\ pad'.len0 = pad.len0 /\ pad'.asked = pad.asked /\ pad'.marks = pad.marks
          /\ pad'.in = in /\ pad'.out = pad.out /\ pad'.todo = todo /\ pad'.pc = "fill"
          /\ pad' \in [len0 : Nat, asked : SUBSET Blocks, in : Nat, out : Nat, todo : SUBSET Blocks,
                       marks : SUBSET Nat, pc : {"next", "fill", "failed", "ok"}]
      BY <3>2, <3>4 DEF PadInv
    <3> HIDE DEF todo
    <3>10. /\ pad'.todo \subseteq pad'.asked /\ pad'.len0 <= pad'.in
           /\ pad'.out <= pad'.in /\ Reached(pad'.in, pad'.todo)
      BY <3>4, <3>7, <3>8, <3>9 DEF PadInv, todo
    <3>11. \A b \in pad'.todo : pad'.in <= Align(pad'.len0, b)
      BY <3>5, <3>9 DEF todo
    <3>12. \A b \in pad'.asked \ pad'.todo : Align(pad'.len0, b) \in pad'.marks \/ Align(pad'.len0, b) = pad'.in
      BY <3>2, <3>6, <3>9 DEF PadInv, todo
    <3>q. QED
      BY <3>9, <3>10, <3>11, <3>12 DEF PadInv
  <2>2. CASE Fill
    <3> DEFINE n == Min({pad.in - pad.out, BufSize})
    <3>1. n \in Nat /\ n <= pad.in - pad.out
      <4>1. pad.in - pad.out \in Nat
        BY <2>2 DEF Fill, PadInv
      <4>q. QED
        BY <4>1, MinIn
    <3>2. pad.pc = "fill" /\ pad' = [pad EXCEPT !.out = pad.out + n]
      BY <2>2 DEF Fill
    <3> HIDE DEF n
    <3>q. QED
      BY <3>1, <3>2 DEF PadInv
  <2>3. CASE WriteMark
    <3> DEFINE out == pad.out + Mark
               marks == pad.marks \cup {pad.out}
    <3>1. pad.pc = "fill" /\ pad.out = pad.in
      BY <2>3 DEF WriteMark, PadInv
    <3>2. pad' = [pad EXCEPT !.marks = marks, !.out = out, !.pc = "next"]
      BY <2>3 DEF WriteMark
    <3>3. out \in Nat /\ out = pad.in + Mark
      BY <3>1 DEF PadInv
    <3>4. marks \in SUBSET Nat /\ pad.in \in marks /\ pad.marks \subseteq marks
      BY <3>1 DEF PadInv
    <3> HIDE DEF out, marks
    <3>5. /\ pad'.len0 = pad.len0 /\ pad'.asked = pad.asked /\ pad'.marks = marks
          /\ pad'.in = pad.in /\ pad'.out = out /\ pad'.todo = pad.todo /\ pad'.pc = "next"
          /\ pad' \in [len0 : Nat, asked : SUBSET Blocks, in : Nat, out : Nat, todo : SUBSET Blocks,
                       marks : SUBSET Nat, pc : {"next", "fill", "failed", "ok"}]
      BY <3>2, <3>3, <3>4 DEF PadInv
    <3>q. QED
      BY <3>1, <3>3, <3>4, <3>5 DEF PadInv
  <2>4. CASE WriteFails
    BY <2>4 DEF WriteFails, PadInv
  <2>5. CASE PadDone
    BY <2>5 DEF PadDone, PadInv
  <2>6. CASE UNCHANGED pad
    BY <2>6 DEF PadInv
  <2>q. QED
    BY <2>1, <2>2, <2>3, <2>4, <2>5, <2>6 DEF PadNext
<1>3. PadInv => MarkAtBoundary
  BY DEF PadInv, MarkAtBoundary
<1>q. QED
  BY <1>1, <1>2, <1>3, PTL DEF PadSpec

-----------------------------------------------------------------------------
(* sstrip.                                                                 *)

(* Max() finds the largest member of a set of numbers that has a bound. *)
LEMMA MaxIn ==
  ASSUME NEW N \in Nat, NEW S \in SUBSET (0..N), S # {}
  PROVE  Max(S) \in S /\ \A x \in S : x <= Max(S)
<1> DEFINE T == {N - x : x \in S}
<1>1. T \in SUBSET Nat /\ T # {}
  <2>1. \A x \in S : N - x \in Nat
    OBVIOUS
  <2>q. QED
    BY <2>1
<1> HIDE DEF T
<1>2. Min(T) \in T /\ \A t \in T : Min(T) <= t
  BY <1>1, MinIn
<1>3. PICK m \in S : Min(T) = N - m
  BY <1>2 DEF T
<1>4. \A x \in S : N - m <= N - x
  BY <1>2, <1>3 DEF T
<1>5. \A x \in S : x <= m
  BY <1>4
<1>q. QED
  BY <1>5 DEF Max

Entry == [null : BOOLEAN, offset : Nat, filesz : Nat, memsz : Nat]

(* The bytes of a segment at places that count. *)
Bytes(seg, places) == {i \in 0..(seg.filesz - 1) : seg.offset + i \in places}

(* No segment that is loaded has a byte that counts from this size on. *)
PastSize(phdrs, places, size) ==
  \A i \in DOMAIN phdrs : ~phdrs[i].null =>
    \A x \in places : x >= size => ~(phdrs[i].offset <= x /\ x < phdrs[i].offset + phdrs[i].filesz)

ModifiedAll(phdrs, size) == [i \in DOMAIN phdrs |-> Modified(phdrs[i], size)]

(* modifyheaders() keeps what a segment loads when nothing that counts is  *)
(* cut off, and leaves it inside the new size.                             *)
LEMMA ModifiedLoads ==
  ASSUME NEW seg \in Entry, NEW size \in Nat, NEW places \in SUBSET Nat,
         \A x \in places : x >= size => ~(seg.offset <= x /\ x < seg.offset + seg.filesz)
  PROVE  /\ Modified(seg, size) \in Entry /\ Modified(seg, size).memsz = seg.memsz
         /\ Modified(seg, size).null = seg.null
         /\ Modified(seg, size).offset + Modified(seg, size).filesz <= size
         /\ Bytes(Modified(seg, size), places) = Bytes(seg, places)
<1>1. CASE seg.offset >= size
  <2>1. Modified(seg, size)
          = [null |-> seg.null, offset |-> size, filesz |-> 0, memsz |-> seg.memsz]
    BY <1>1 DEF Modified, Entry
  <2>2. \A i \in 0..(seg.filesz - 1) : seg.offset + i \notin places
    BY <1>1 DEF Entry
  <2>3. /\ Modified(seg, size).filesz = 0 /\ Modified(seg, size).offset = size
        /\ Modified(seg, size).memsz = seg.memsz /\ Modified(seg, size).null = seg.null
        /\ Modified(seg, size) \in Entry
    BY <2>1 DEF Entry
  <2>4. Bytes(seg, places) = {} /\ Bytes(Modified(seg, size), places) = {}
    BY <2>2, <2>3 DEF Bytes
  <2>q. QED
    BY <2>3, <2>4
<1>2. CASE seg.offset < size /\ seg.offset + seg.filesz > size
  <2> DEFINE left == size - seg.offset
  <2>1. left \in Nat /\ left < seg.filesz
    BY <1>2 DEF Entry
  <2>2. Modified(seg, size) = [seg EXCEPT !.filesz = left]
    BY <1>2 DEF Modified, Entry
  <2>3. \A i \in 0..(seg.filesz - 1) : seg.offset + i \in places => i < left
    BY <1>2 DEF Entry
  <2> HIDE DEF left
  <2>4. /\ Modified(seg, size).filesz = left /\ Modified(seg, size).offset = seg.offset
        /\ Modified(seg, size).memsz = seg.memsz /\ Modified(seg, size).null = seg.null
        /\ Modified(seg, size) \in Entry
    BY <2>1, <2>2 DEF Entry
  <2>5. Bytes(Modified(seg, size), places) = Bytes(seg, places)
    BY <2>1, <2>3, <2>4 DEF Bytes, Entry
  <2>q. QED
    BY <2>1, <2>4, <2>5 DEF left, Entry
<1>3. CASE seg.offset < size /\ seg.offset + seg.filesz <= size
  <2>1. Modified(seg, size) = seg
    BY <1>3 DEF Modified, Entry
  <2>q. QED
    BY <1>3, <2>1
<1>q. QED
  BY <1>1, <1>2, <1>3 DEF Entry

(* The bytes that count: not zero, and not in the table. *)
Places(file) == file.nonzero \ (EhdrSize..(TableEnd(file.phdrs) - 1))

LEMMA ImageIsBytes ==
  ASSUME NEW file, NEW seg
  PROVE  Image(file, seg) = Bytes(seg, Places(file))
BY DEF Image, Bytes, Places

File == [size : Nat, nonzero : SUBSET Nat, phdrs : Seq(Entry), shoff : Int]

(* What was read is the program as it was built; nothing that counts is    *)
(* past the new size; and the file is still as built but for the headers   *)
(* that were written.                                                      *)
StripInv ==
  /\ strip \in [file : File, first : File, good : BOOLEAN, ehdr : Int, phdrs : Seq(Entry),
                newsize : Nat, pc : {"read", "size", "zeros", "modify", "ehdr", "phdrs", "truncate",
                                     "ok", "warned", "failed"}]
  /\ TableEnd(strip.first.phdrs) <= strip.first.size
  /\ \A i \in DOMAIN strip.first.phdrs : Inside(strip.first.phdrs[i], strip.first.size)
  /\ strip.pc \in {"size", "zeros", "modify"} => strip.phdrs = strip.first.phdrs
  /\ strip.pc \in {"zeros", "modify", "ehdr", "phdrs", "truncate"} =>
       /\ strip.newsize <= strip.first.size
       /\ PastSize(strip.first.phdrs, Places(strip.first), strip.newsize)
  /\ strip.pc \in {"read", "size", "zeros", "modify", "ehdr", "failed"} => strip.file = strip.first
  /\ strip.pc \in {"ehdr", "phdrs", "truncate"} =>
       strip.phdrs = ModifiedAll(strip.first.phdrs, strip.newsize)
  /\ strip.pc \in {"phdrs", "truncate"} =>
       /\ strip.file.size = strip.first.size /\ strip.file.nonzero = strip.first.nonzero
       /\ strip.pc = "phdrs" => strip.file.phdrs = strip.first.phdrs
       /\ strip.pc = "truncate" => strip.file.phdrs = strip.phdrs
  /\ SameImage

(* The program is loaded as it was built: the first part of SameImage. *)
Loads(file, first) ==
  /\ TableEnd(file.phdrs) <= file.size
  /\ \A i \in DOMAIN first.phdrs :
       first.phdrs[i].null \/
       /\ Bytes(file.phdrs[i], Places(file)) = Bytes(first.phdrs[i], Places(first))
       /\ Inside(file.phdrs[i], file.size) /\ file.phdrs[i].memsz = first.phdrs[i].memsz

LEMMA LoadsIs ==
  ASSUME NEW file, NEW first
  PROVE  Loads(file, first) <=>
           /\ TableEnd(file.phdrs) <= file.size
           /\ \A i \in DOMAIN first.phdrs :
                first.phdrs[i].null \/
                /\ Image(file, file.phdrs[i]) = Image(first, first.phdrs[i])
                /\ Inside(file.phdrs[i], file.size) /\ file.phdrs[i].memsz = first.phdrs[i].memsz
BY ImageIsBytes DEF Loads

(* The end of the table is a number; it moves with the number of entries.  *)
LEMMA TableEndIn ==
  ASSUME NEW phdrs \in Seq(Entry)
  PROVE  TableEnd(phdrs) \in Nat
<1>1. Len(phdrs) \in Nat
  OBVIOUS
<1>2. Len(phdrs) * PhdrSize \in Nat
  BY <1>1, SstripAssumption
<1>q. QED
  BY <1>2, SstripAssumption DEF TableEnd

LEMMA ModifiedAllIn ==
  ASSUME NEW phdrs \in Seq(Entry), NEW size \in Nat
  PROVE  /\ ModifiedAll(phdrs, size) \in Seq(Entry)
         /\ TableEnd(ModifiedAll(phdrs, size)) = TableEnd(phdrs)
         /\ DOMAIN ModifiedAll(phdrs, size) = DOMAIN phdrs
<1>1. \A seg \in Entry : Modified(seg, size) \in Entry
  <2>1. TAKE seg \in Entry
  <2>2. Modified(seg, size) \in Entry
    BY ModifiedLoads, {} \in SUBSET Nat
  <2>q. QED
    BY <2>2
<1>2. phdrs \in [1..Len(phdrs) -> Entry] /\ Len(phdrs) \in Nat
  OBVIOUS
<1>3. ModifiedAll(phdrs, size) \in [1..Len(phdrs) -> Entry]
  BY <1>1, <1>2 DEF ModifiedAll
<1>4. ModifiedAll(phdrs, size) \in Seq(Entry) /\ Len(ModifiedAll(phdrs, size)) = Len(phdrs)
  BY <1>2, <1>3
<1>q. QED
  BY <1>2, <1>3, <1>4 DEF TableEnd

(* The headers may be written before the end is cut off. *)
LEMMA HeadersLoad ==
  ASSUME NEW first \in File, NEW size \in Nat, size <= first.size,
         TableEnd(first.phdrs) <= first.size,
         PastSize(first.phdrs, Places(first), size),
         NEW file \in File, file.size = first.size, file.nonzero = first.nonzero,
         file.phdrs = ModifiedAll(first.phdrs, size)
  PROVE  Loads(file, first)
<1>1. /\ TableEnd(file.phdrs) = TableEnd(first.phdrs) /\ Places(file) = Places(first)
      /\ Places(first) \in SUBSET Nat
  BY ModifiedAllIn DEF File, Places
<1>2. ASSUME NEW i \in DOMAIN first.phdrs, ~first.phdrs[i].null
      PROVE  /\ Bytes(file.phdrs[i], Places(file)) = Bytes(first.phdrs[i], Places(first))
             /\ Inside(file.phdrs[i], file.size) /\ file.phdrs[i].memsz = first.phdrs[i].memsz
  <2> DEFINE seg == first.phdrs[i]
  <2>1. seg \in Entry
    BY DEF File
  <2>2. \A x \in Places(first) : x >= size => ~(seg.offset <= x /\ x < seg.offset + seg.filesz)
    BY <1>2 DEF PastSize
  <2>3. file.phdrs[i] = Modified(seg, size)
    BY DEF ModifiedAll
  <2> HIDE DEF seg
  <2>4. /\ Modified(seg, size) \in Entry /\ Modified(seg, size).memsz = seg.memsz
        /\ Modified(seg, size).offset + Modified(seg, size).filesz <= size
        /\ Bytes(Modified(seg, size), Places(first)) = Bytes(seg, Places(first))
    BY <1>1, <2>1, <2>2, ModifiedLoads
  <2>5. Inside(Modified(seg, size), file.size)
    BY <2>4 DEF Inside, Entry, File
  <2>q. QED
    BY <1>1, <2>3, <2>4, <2>5 DEF seg
<1>q. QED
  BY <1>1, <1>2 DEF Loads

(* Then what is past the end of them all may go. *)
LEMMA CutLoads ==
  ASSUME NEW first \in File, NEW size \in Nat,
         PastSize(first.phdrs, Places(first), size),
         NEW file \in File, Loads(file, first), file.phdrs = ModifiedAll(first.phdrs, size),
         NEW cut \in File, NEW end \in Nat, cut.size = end, size <= end, TableEnd(cut.phdrs) <= end,
         cut.nonzero = {i \in file.nonzero : i < end}, cut.phdrs = file.phdrs
  PROVE  Loads(cut, first)
<1>1. Places(first) \in SUBSET Nat /\ file.nonzero \in SUBSET Nat
  BY DEF File, Places
<1>2. ASSUME NEW i \in DOMAIN first.phdrs, ~first.phdrs[i].null
      PROVE  /\ Bytes(cut.phdrs[i], Places(cut)) = Bytes(first.phdrs[i], Places(first))
             /\ Inside(cut.phdrs[i], cut.size) /\ cut.phdrs[i].memsz = first.phdrs[i].memsz
  <2> DEFINE seg == first.phdrs[i]
             new == Modified(seg, size)
  <2>1. seg \in Entry /\ cut.phdrs[i] = new /\ file.phdrs[i] = new
    BY DEF File, ModifiedAll
  <2>2. \A x \in Places(first) : x >= size => ~(seg.offset <= x /\ x < seg.offset + seg.filesz)
    BY <1>2 DEF PastSize
  <2>3. new \in Entry /\ new.memsz = seg.memsz /\ new.offset + new.filesz <= size
    BY <1>1, <2>1, <2>2, ModifiedLoads
  <2>4. Bytes(new, Places(file)) = Bytes(seg, Places(first))
    BY <1>2, <2>1 DEF Loads
  <2> HIDE DEF seg, new
  <2>5. \A j \in 0..(new.filesz - 1) : new.offset + j < end
    BY <2>3 DEF Entry
  <2>6. \A j \in 0..(new.filesz - 1) : new.offset + j \in Places(cut) <=> new.offset + j \in Places(file)
    BY <2>5 DEF Places
  <2>7. Bytes(new, Places(cut)) = Bytes(new, Places(file))
    BY <2>6 DEF Bytes
  <2>8. Inside(new, cut.size)
    BY <2>3 DEF Inside, Entry
  <2>q. QED
    BY <2>1, <2>3, <2>4, <2>7, <2>8 DEF seg
<1>q. QED
  BY <1>2 DEF Loads

(* The new size is at least what the segments and the table need. *)
LEMMA MemorySizeFits ==
  ASSUME NEW first \in File, TableEnd(first.phdrs) <= first.size,
         \A i \in DOMAIN first.phdrs : Inside(first.phdrs[i], first.size)
  PROVE  /\ MemorySize(first.phdrs) \in Nat /\ MemorySize(first.phdrs) <= first.size
         /\ PastSize(first.phdrs, Places(first), MemorySize(first.phdrs))
<1> DEFINE ends == {first.phdrs[i].offset + first.phdrs[i].filesz : i \in
                      {k \in DOMAIN first.phdrs : ~first.phdrs[k].null}}
           S == {TableEnd(first.phdrs)} \cup ends
<1>1. \A i \in DOMAIN first.phdrs : first.phdrs[i] \in Entry
  BY DEF File
<1>2. first.size \in Nat /\ TableEnd(first.phdrs) \in 0..first.size
  BY TableEndIn DEF File
<1>3. \A i \in DOMAIN first.phdrs :
        first.phdrs[i].offset + first.phdrs[i].filesz \in 0..first.size
  BY <1>1, <1>2 DEF Entry, Inside
<1>4. S \in SUBSET (0..first.size) /\ S # {}
  BY <1>2, <1>3
<1>5. MemorySize(first.phdrs) = Max(S)
  BY DEF MemorySize
<1>6. \A i \in DOMAIN first.phdrs : ~first.phdrs[i].null =>
        first.phdrs[i].offset + first.phdrs[i].filesz \in S
  OBVIOUS
<1> HIDE DEF ends, S
<1>7. Max(S) \in S /\ \A x \in S : x <= Max(S)
  BY <1>2, <1>4, MaxIn
<1>8. Max(S) \in Nat /\ Max(S) <= first.size
  <2>1. Max(S) \in 0..first.size
    BY <1>4, <1>7
  <2>q. QED
    BY <1>2, <2>1
<1>9. PastSize(first.phdrs, Places(first), Max(S))
  <2> SUFFICES ASSUME NEW i \in DOMAIN first.phdrs, ~first.phdrs[i].null,
                      NEW x \in Places(first), x >= Max(S)
               PROVE  ~(x < first.phdrs[i].offset + first.phdrs[i].filesz)
    BY DEF PastSize
  <2>1. first.phdrs[i].offset + first.phdrs[i].filesz <= Max(S)
    BY <1>6, <1>7
  <2>2. x \in Nat /\ first.phdrs[i].offset + first.phdrs[i].filesz \in Nat
    BY <1>1, SMTT(30) DEF Entry, Places, File
  <2>q. QED
    BY <1>8, <2>1, <2>2
<1>q. QED
  BY <1>5, <1>8, <1>9

(* Zeros at the end may go: nothing that counts is past the shorter size.  *)
LEMMA ZerosGo ==
  ASSUME NEW first \in File, NEW size \in Nat, NEW low \in Nat, low <= size,
         PastSize(first.phdrs, Places(first), size),
         NEW new \in Nat, \A x \in first.nonzero : x >= new => x < low \/ x >= size,
         low <= new
  PROVE  PastSize(first.phdrs, Places(first), new)
<1> SUFFICES ASSUME NEW i \in DOMAIN first.phdrs, ~first.phdrs[i].null,
                    NEW x \in Places(first), x >= new
             PROVE  ~(first.phdrs[i].offset <= x /\ x < first.phdrs[i].offset + first.phdrs[i].filesz)
  BY DEF PastSize
<1>1. x \in first.nonzero /\ x \in Nat
  BY DEF Places, File
<1>2. x >= size
  BY <1>1
<1>q. QED
  BY <1>2 DEF PastSize

(* However large the program, its table and its buffer are, whichever      *)
(* write fails and wherever sstrip is killed, the program is loaded as it  *)
(* was built (sstrip.c:142-307).                                           *)
THEOREM ProgramIsLoaded == StripSpec => []SameImage
<1> USE SstripAssumption
<1>1. StripInit => StripInv
  <2> SUFFICES ASSUME NEW size \in Sizes, NEW n \in 1..2, NEW good \in BOOLEAN,
                      NEW phdrs \in [1..n -> Segments], NEW shoff \in {0, size - 1},
                      NEW nonzero \in SUBSET (EhdrSize..(size - 1)),
                      TableEnd(phdrs) <= size, \A i \in 1..n : Inside(phdrs[i], size),
                      strip = Given([size |-> size, nonzero |-> nonzero \cup (0..(EhdrSize - 1)),
                                     phdrs |-> phdrs, shoff |-> shoff], good)
               PROVE  StripInv
    BY ZenonT(40) DEF StripInit
  <2> DEFINE file == [size |-> size, nonzero |-> nonzero \cup (0..(EhdrSize - 1)),
                      phdrs |-> phdrs, shoff |-> shoff]
  <2>1. phdrs \in [1..n -> Entry] /\ n \in Nat
    BY DEF Entry
  <2>2. phdrs \in Seq(Entry) /\ DOMAIN phdrs = 1..n
    BY <2>1
  <2>3. shoff \in Int /\ size \in Nat /\ nonzero \cup (0..(EhdrSize - 1)) \in SUBSET Nat
    OBVIOUS
  <2>4. file \in File /\ file.phdrs = phdrs /\ file.size = size
    BY <2>2, <2>3 DEF File
  <2> HIDE DEF file
  <2>5. /\ strip.file = file /\ strip.first = file /\ strip.pc = "read"
        /\ strip \in [file : File, first : File, good : BOOLEAN, ehdr : Int, phdrs : Seq(Entry),
                      newsize : Nat, pc : {"read", "size", "zeros", "modify", "ehdr", "phdrs",
                                           "truncate", "ok", "warned", "failed"}]
    BY <2>4 DEF Given, file
  <2>6. SameImage
    BY <2>2, <2>4, <2>5, ZenonT(40) DEF SameImage
  <2>q. QED
    BY <2>2, <2>4, <2>5, <2>6 DEF StripInv
<1>2. StripInv /\ [StripNext]_strip => StripInv'
  <2> SUFFICES ASSUME StripInv, [StripNext]_strip PROVE StripInv'
    OBVIOUS
  <2> DEFINE file == strip.file
             first == strip.first
  <2>0. /\ file \in File /\ first \in File /\ strip.newsize \in Nat
        /\ TableEnd(first.phdrs) <= first.size
        /\ \A i \in DOMAIN first.phdrs : Inside(first.phdrs[i], first.size)
    BY DEF StripInv
  <2>1. CASE ReadHeaders
    <3>1. CASE strip.good
      <4>1. strip.pc = "read" /\ strip.file = strip.first
            /\ strip' = [strip EXCEPT !.ehdr = file.shoff, !.phdrs = file.phdrs, !.pc = "size"]
        BY <2>1, <3>1 DEF ReadHeaders, StripInv
      <4>2. file.shoff \in Int /\ file.phdrs \in Seq(Entry)
        BY <2>0 DEF File
      <4>q. QED
        BY <4>1, <4>2 DEF StripInv, SameImage
    <3>2. CASE ~strip.good
      <4>1. strip.pc = "read" /\ strip.file = strip.first /\ strip' = [strip EXCEPT !.pc = "failed"]
        BY <2>1, <3>2 DEF ReadHeaders, StripInv
      <4>q. QED
        BY <4>1 DEF StripInv, SameImage
    <3>q. QED
      BY <3>1, <3>2
  <2>2. CASE GetMemorySize
    <3> DEFINE size == MemorySize(first.phdrs)
    <3>1. strip.pc = "size" /\ strip' = [strip EXCEPT !.newsize = size, !.pc = "zeros"]
      BY <2>2 DEF GetMemorySize, StripInv
    <3>2. size \in Nat /\ size <= first.size /\ PastSize(first.phdrs, Places(first), size)
      BY <2>0, MemorySizeFits
    <3> HIDE DEF size
    <3>q. QED
      BY <3>1, <3>2 DEF StripInv, SameImage
  <2>3. CASE TruncateZeros
    <3> DEFINE size == strip.newsize
               low == IF size > Chunk THEN size - Chunk ELSE 0
               left == {i \in file.nonzero : i >= low /\ i < size}
               new == IF left = {} THEN low ELSE Max(left) + 1
    <3>1. /\ strip.pc = "zeros" /\ file = first /\ size <= first.size
          /\ PastSize(first.phdrs, Places(first), size)
      BY <2>3 DEF TruncateZeros, StripInv
    <3>2. low \in Nat /\ low <= size /\ size \in Nat
      BY <2>0
    <3>3. PICK pc \in {"zeros", "modify"} : strip' = [strip EXCEPT !.newsize = new, !.pc = pc]
      <4>1. CASE left = {} \/ Max(left) = low
        <5>1. strip' = [strip EXCEPT !.newsize = IF left = {} THEN low ELSE low + 1]
          BY <2>3, <4>1 DEF TruncateZeros
        <5>2. (IF left = {} THEN low ELSE low + 1) = new
          BY <4>1
        <5> HIDE DEF left, new, low
        <5>3. strip' = [strip EXCEPT !.newsize = new, !.pc = "zeros"]
          BY <3>1, <5>1, <5>2 DEF StripInv
        <5>q. QED
          BY <5>3
      <4>2. CASE ~(left = {} \/ Max(left) = low)
        <5>1. strip' = [strip EXCEPT !.newsize = Max(left) + 1, !.pc = "modify"]
          BY <2>3, <4>2 DEF TruncateZeros
        <5>2. Max(left) + 1 = new
          BY <4>2
        <5> HIDE DEF left, new, low
        <5>q. QED
          BY <5>1, <5>2
      <4>q. QED
        BY <4>1, <4>2
    <3>4. ASSUME left # {} PROVE Max(left) \in left /\ \A x \in left : x <= Max(left)
      <4>1. left \in SUBSET (0..size)
        BY <3>2, <2>0 DEF File
      <4>q. QED
        BY <3>4, <4>1, <3>2, MaxIn
    <3>5. new \in Nat /\ low <= new /\ new <= size
      <4>1. CASE left = {}
        BY <4>1, <3>2
      <4>2. CASE left # {}
        <5>1. Max(left) \in Nat /\ low <= Max(left) /\ Max(left) < size
          BY <3>4, <4>2, <2>0 DEF File
        <5> HIDE DEF left
        <5>q. QED
          BY <4>2, <5>1, <3>2
      <4>q. QED
        BY <4>1, <4>2
    <3>6. \A x \in first.nonzero : x >= new => x < low \/ x >= size
      <4>1. first.nonzero \in SUBSET Nat
        BY <2>0 DEF File
      <4>2. ASSUME NEW x \in first.nonzero, x >= new, x >= low, x < size PROVE FALSE
        <5>1. x \in left
          BY <3>1, <4>2
        <5>2. x <= Max(left) /\ Max(left) \in Nat /\ x \in Nat /\ left # {}
          BY <3>4, <5>1, <2>0, <4>1 DEF File
        <5> HIDE DEF left
        <5>q. QED
          BY <4>2, <5>2
      <4> HIDE DEF new, low, left
      <4>q. QED
        BY <4>1, <4>2, <3>2, <3>5
    <3>7. PastSize(first.phdrs, Places(first), new)
      BY <2>0, <3>1, <3>2, <3>5, <3>6, ZerosGo
    <3>8. new <= first.size
      BY <2>0, <3>1, <3>2, <3>5 DEF File
    <3> HIDE DEF new, low, left
    <3>q. QED
      BY <3>1, <3>3, <3>5, <3>7, <3>8 DEF StripInv, SameImage
  <2>4. CASE ModifyHeaders
    <3> DEFINE ehdr == IF strip.ehdr >= strip.newsize THEN 0 ELSE strip.ehdr
               phdrs == ModifiedAll(first.phdrs, strip.newsize)
    <3>1. strip.pc = "modify" /\ strip' = [strip EXCEPT !.ehdr = ehdr, !.phdrs = phdrs, !.pc = "ehdr"]
      BY <2>4 DEF ModifyHeaders, ModifiedAll, StripInv
    <3>2. ehdr \in Int /\ phdrs \in Seq(Entry)
      BY <2>0, ModifiedAllIn DEF StripInv, File
    <3> HIDE DEF ehdr, phdrs
    <3>q. QED
      BY <3>1, <3>2 DEF StripInv, SameImage, phdrs
  <2>5. CASE WriteEhdr
    <3>1. CASE strip' = [strip EXCEPT !.file.shoff = strip.ehdr, !.pc = "phdrs"]
      <4> DEFINE new == [file EXCEPT !.shoff = strip.ehdr]
      <4>1. strip.pc = "ehdr" /\ strip' = [strip EXCEPT !.file = new, !.pc = "phdrs"]
        BY <2>5, <3>1 DEF WriteEhdr
      <4>2. /\ new \in File /\ new.size = file.size /\ new.nonzero = file.nonzero
            /\ new.phdrs = file.phdrs
        BY <2>0 DEF File, StripInv
      <4> HIDE DEF new
      <4>3. strip'.file = new /\ strip'.first = first /\ strip'.pc = "phdrs"
        BY <4>1 DEF StripInv
      <4>4. SameImage'
        BY <4>2, <4>3 DEF StripInv, SameImage, Image
      <4>q. QED
        BY <4>1, <4>2, <4>4 DEF StripInv
    <3>2. CASE strip' = [strip EXCEPT !.pc = "failed"]
      BY <2>5, <3>2 DEF WriteEhdr, StripInv, SameImage
    <3>q. QED
      BY <2>5, <3>1, <3>2 DEF WriteEhdr
  <2>6. CASE WritePhdrs
    <3>1. CASE strip' = [strip EXCEPT !.file.phdrs = strip.phdrs, !.pc = "truncate"]
      <4> DEFINE new == [file EXCEPT !.phdrs = strip.phdrs]
      <4>1. strip.pc = "phdrs" /\ strip' = [strip EXCEPT !.file = new, !.pc = "truncate"]
        BY <2>6, <3>1 DEF WritePhdrs
      <4>2. /\ new \in File /\ new.size = file.size /\ new.nonzero = file.nonzero
            /\ new.phdrs = strip.phdrs
        BY <2>0 DEF File, StripInv
      <4> HIDE DEF new
      <4>3. strip'.file = new /\ strip'.first = first /\ strip'.pc = "truncate"
        BY <4>1 DEF StripInv
      <4>4. Loads(new, first)
        BY <2>0, <4>1, <4>2, HeadersLoad DEF StripInv
      <4>5. SameImage'
        BY <4>3, <4>4, LoadsIs DEF SameImage
      <4>q. QED
        BY <4>1, <4>2, <4>5 DEF StripInv
    <3>2. CASE strip' = [strip EXCEPT !.pc = "warned"]
      BY <2>6, <3>2 DEF WritePhdrs, StripInv, SameImage
    <3>q. QED
      BY <2>6, <3>1, <3>2 DEF WritePhdrs
  <2>7. CASE Truncate
    <3> DEFINE size == Max({strip.newsize, TableEnd(strip.phdrs)})
    <3>1. CASE strip' = [strip EXCEPT !.file.size = size, !.pc = "ok",
                                      !.file.nonzero = {i \in @ : i < size}]
      <4> DEFINE new == [file EXCEPT !.size = size, !.nonzero = {i \in file.nonzero : i < size}]
      <4>1. strip.pc = "truncate" /\ strip' = [strip EXCEPT !.file = new, !.pc = "ok"]
        BY <2>7, <3>1 DEF Truncate, StripInv
      <4>2. size \in Nat /\ strip.newsize <= size /\ TableEnd(strip.phdrs) <= size
        <5>1. strip.newsize \in Nat /\ TableEnd(strip.phdrs) \in Nat
          BY TableEndIn DEF StripInv
        <5>2. {strip.newsize, TableEnd(strip.phdrs)} \in
                SUBSET (0..(strip.newsize + TableEnd(strip.phdrs)))
          BY <5>1
        <5>3. strip.newsize + TableEnd(strip.phdrs) \in Nat
          BY <5>1
        <5>4. /\ size \in {strip.newsize, TableEnd(strip.phdrs)}
              /\ \A x \in {strip.newsize, TableEnd(strip.phdrs)} : x <= size
          BY <5>2, <5>3, MaxIn
        <5>q. QED
          BY <5>1, <5>4
      <4> HIDE DEF size
      <4>3. /\ new \in File /\ new.size = size /\ new.nonzero = {i \in file.nonzero : i < size}
            /\ new.phdrs = file.phdrs
        BY <2>0, <4>2 DEF File
      <4> HIDE DEF new
      <4>4. strip'.file = new /\ strip'.first = first /\ strip'.pc = "ok"
        BY <4>1 DEF StripInv
      <4>5. Loads(file, first) /\ file.phdrs = strip.phdrs
            /\ file.phdrs = ModifiedAll(first.phdrs, strip.newsize)
            /\ PastSize(first.phdrs, Places(first), strip.newsize)
        BY <4>1, LoadsIs DEF StripInv, SameImage
      <4>6. Loads(new, first)
        BY <2>0, <4>2, <4>3, <4>5, CutLoads
      <4>7. SameImage'
        BY <4>4, <4>6, LoadsIs DEF SameImage
      <4>q. QED
        BY <4>1, <4>3, <4>7 DEF StripInv
    <3>2. CASE strip' = [strip EXCEPT !.pc = "warned"]
      BY <2>7, <3>2 DEF Truncate, StripInv, SameImage
    <3>q. QED
      BY <2>7, <3>1, <3>2 DEF Truncate
  <2>8. CASE UNCHANGED strip
    BY <2>8 DEF StripInv, SameImage
  <2>q. QED
    BY <2>1, <2>2, <2>3, <2>4, <2>5, <2>6, <2>7, <2>8 DEF StripNext
<1>3. StripInv => SameImage
  BY DEF StripInv
<1>q. QED
  BY <1>1, <1>2, <1>3, PTL DEF StripSpec

-----------------------------------------------------------------------------
(* Recursive functions on 0..n.                                            *)

(* What holds of 0, and of each number up to n if of the one before.       *)
LEMMA UpTo ==
  ASSUME NEW n \in Nat, NEW P, 0 \in P, \A i \in 1..n : i - 1 \in P => i \in P
  PROVE  \A i \in 0..n : i \in P
<1> DEFINE Wrong == {i \in 0..n : i \notin P}
<1>1. SUFFICES ASSUME Wrong # {} PROVE FALSE
  OBVIOUS
<1>2. Wrong \in SUBSET Nat
  OBVIOUS
<1>3. PICK m \in Wrong : \A x \in Wrong : m <= x
  <2> HIDE DEF Wrong
  <2>q. QED
    BY <1>1, <1>2, MinIn
<1>4. m \in 1..n /\ m - 1 \in 0..n /\ m - 1 \notin Wrong
  BY <1>3
<1>q. QED
  BY <1>3, <1>4

(* A step that stays in S can be taken n times.                            *)
LEMMA Iterates ==
  ASSUME NEW S, NEW x \in S, NEW n \in Nat, NEW g \in [1..n -> [S -> S]]
  PROVE  \E f \in [0..n -> S] : f[0] = x /\ \A i \in 1..n : f[i] = g[i][f[i - 1]]
<1> DEFINE Run(k, f) == /\ f \in [0..k -> S] /\ f[0] = x
                        /\ \A i \in 1..k : f[i] = g[i][f[i - 1]]
           P == {k \in 0..n : \E f : Run(k, f)}
<1>1. 0 \in P
  <2>1. Run(0, [i \in 0..0 |-> x])
    OBVIOUS
  <2>q. QED
    <3> HIDE DEF Run
    <3>q. QED
      BY <2>1
<1>2. ASSUME NEW k \in 1..n, k - 1 \in P PROVE k \in P
  <2>1. PICK f : Run(k - 1, f)
    BY <1>2
  <2>2. f \in [0..(k - 1) -> S] /\ f[0] = x /\ \A i \in 1..(k - 1) : f[i] = g[i][f[i - 1]]
    BY <2>1
  <2>3. PICK y \in S : y = g[k][f[k - 1]]
    BY <2>2
  <2> DEFINE h == [i \in 0..k |-> IF i = k THEN y ELSE f[i]]
  <2>4. /\ h \in [0..k -> S] /\ h[0] = x /\ h[k] = y
        /\ \A i \in 0..(k - 1) : h[i] = f[i]
    BY <2>2, <2>3
  <2> HIDE DEF h
  <2>5. ASSUME NEW i \in 1..k PROVE h[i] = g[i][h[i - 1]]
    <3>1. h[i - 1] = f[i - 1]
      BY <2>4
    <3>2. CASE i = k
      BY <2>3, <2>4, <3>1, <3>2
    <3>3. CASE i # k
      <4>1. i \in 1..(k - 1) /\ i \in 0..(k - 1)
        BY <3>3
      <4>q. QED
        BY <2>2, <2>4, <3>1, <4>1
    <3>q. QED
      BY <3>2, <3>3
  <2>6. Run(k, h)
    BY <2>4, <2>5
  <2> HIDE DEF Run
  <2>q. QED
    BY <2>6
<1>3. \A i \in 0..n : i \in P
  <2> HIDE DEF P
  <2>q. QED
    BY <1>1, <1>2, UpTo
<1>4. n \in 0..n
  OBVIOUS
<1>q. QED
  BY <1>3, <1>4

-----------------------------------------------------------------------------
(* zyimage.                                                                *)

Words == SUBSET Ones

LEMMA XorIs ==
  ASSUME NEW a, NEW b, NEW c
  PROVE  /\ SymDiff(a, b) = SymDiff(b, a) /\ SymDiff(a, {}) = a
         /\ SymDiff(a, SymDiff(b, c)) = SymDiff(SymDiff(a, b), c)
BY DEF SymDiff

LEMMA WordsRun ==
  ASSUME NEW x \in Words, NEW n \in Nat, NEW g \in [1..n -> [Words -> Words]]
  PROVE  \E f \in [0..n -> Words] : f[0] = x /\ \A i \in 1..n : f[i] = g[i][f[i - 1]]
BY Iterates

LEMMA NoMove == ASSUME NEW a \in Words PROVE Right(a, 0) = a
<1>1. \A i \in Ones : i + 0 = i
  BY ZyAssumption DEF Ones
<1>q. QED
  BY <1>1 DEF Right, Words

LEMMA XorStays == ASSUME NEW a \in Words, NEW b \in Words PROVE SymDiff(a, b) \in Words
BY DEF Words, SymDiff

LEMMA ShiftStays == ASSUME NEW a \in Words PROVE Shift(a) \in Words
BY ZyAssumption DEF Words, SymDiff, Right, Shift, Ones

(* Shifting is linear, which is what makes a table possible.               *)
LEMMA ShiftXor ==
  ASSUME NEW a \in Words, NEW b \in Words
  PROVE  Shift(SymDiff(a, b)) = SymDiff(Shift(a), Shift(b))
<1>1. Right(SymDiff(a, b), 1) = SymDiff(Right(a, 1), Right(b, 1))
  BY DEF Right, SymDiff
<1>2. 0 \in SymDiff(a, b) <=> ~(0 \in a <=> 0 \in b)
  BY DEF SymDiff
<1>q. QED
  BY <1>1, <1>2 DEF Shift, SymDiff

(* The word w after each turn of the loop on j. *)
Turned(w) == CHOOSE f : f = [j \in 0..ByteBits |-> IF j = 0 THEN w ELSE Shift(f[j - 1])]

LEMMA TurnedIs ==
  ASSUME NEW w \in Words
  PROVE  /\ Turned(w) \in [0..ByteBits -> Words] /\ Turned(w)[0] = w
         /\ \A j \in 1..ByteBits : Turned(w)[j] = Shift(Turned(w)[j - 1])
<1> DEFINE g == [j \in 1..ByteBits |-> [v \in Words |-> Shift(v)]]
           Is(f) == f = [j \in 0..ByteBits |-> IF j = 0 THEN w ELSE Shift(f[j - 1])]
<1>1. g \in [1..ByteBits -> [Words -> Words]]
  BY ShiftStays
<1>2. ByteBits \in Nat
  BY ZyAssumption
<1>3. PICK f \in [0..ByteBits -> Words] :
        f[0] = w /\ \A j \in 1..ByteBits : f[j] = g[j][f[j - 1]]
  <2> HIDE DEF g
  <2>q. QED
    BY <1>1, <1>2, Iterates
<1>4. ASSUME NEW j \in 1..ByteBits PROVE f[j - 1] \in Words /\ f[j] = Shift(f[j - 1])
  <2>1. j - 1 \in 0..ByteBits
    BY <1>2
  <2>2. f[j - 1] \in Words /\ g[j][f[j - 1]] = Shift(f[j - 1])
    BY <1>3, <2>1
  <2>q. QED
    BY <1>3, <2>2
<1>5. Is(f)
  BY <1>2, <1>3, <1>4
<1>6. Is(Turned(w))
  <2>1. Turned(w) = CHOOSE h : Is(h)
    BY DEF Turned
  <2> HIDE DEF Is
  <2>q. QED
    BY <1>5, <2>1
<1> DEFINE t == Turned(w)
<1>7. t = [j \in 0..ByteBits |-> IF j = 0 THEN w ELSE Shift(t[j - 1])]
  BY <1>6
<1> HIDE DEF t
<1>8. t[0] = w /\ \A j \in 1..ByteBits : t[j] = Shift(t[j - 1])
  BY <1>2, <1>7
<1>9. \A j \in 0..ByteBits : t[j] \in Words
  <2> DEFINE P == {j \in 0..ByteBits : t[j] \in Words}
  <2>1. 0 \in P
    BY <1>2, <1>8
  <2>2. ASSUME NEW j \in 1..ByteBits, j - 1 \in P PROVE j \in P
    BY <1>2, <1>8, <2>2, ShiftStays
  <2>3. \A j \in 0..ByteBits : j \in P
    <3> HIDE DEF P
    <3>q. QED
      BY <1>2, <2>1, <2>2, UpTo
  <2>q. QED
    BY <2>3
<1>q. QED
  BY <1>7, <1>8, <1>9 DEF t

LEMMA TurnedXor ==
  ASSUME NEW a \in Words, NEW b \in Words
  PROVE  \A j \in 0..ByteBits : Turned(SymDiff(a, b))[j] = SymDiff(Turned(a)[j], Turned(b)[j])
<1> DEFINE P == {j \in 0..ByteBits : Turned(SymDiff(a, b))[j] = SymDiff(Turned(a)[j], Turned(b)[j])}
<1>1. ByteBits \in Nat /\ SymDiff(a, b) \in Words
  BY ZyAssumption, XorStays
<1>2. 0 \in P
  BY <1>1, TurnedIs
<1>3. ASSUME NEW j \in 1..ByteBits, j - 1 \in P PROVE j \in P
  <2>0. j - 1 \in 0..ByteBits /\ j \in 0..ByteBits
    BY <1>1
  <2>1. Turned(a)[j - 1] \in Words /\ Turned(b)[j - 1] \in Words
    BY <2>0, TurnedIs
  <2>2. Turned(a)[j] = Shift(Turned(a)[j - 1]) /\ Turned(b)[j] = Shift(Turned(b)[j - 1])
    BY TurnedIs
  <2>3. Turned(SymDiff(a, b))[j] = Shift(Turned(SymDiff(a, b))[j - 1])
    BY <1>1, TurnedIs
  <2>4. Turned(SymDiff(a, b))[j] = Shift(SymDiff(Turned(a)[j - 1], Turned(b)[j - 1]))
    BY <1>3, <2>3
  <2>q. QED
    BY <2>0, <2>1, <2>2, <2>4, ShiftXor
<1>q. QED
  <2> HIDE DEF P
  <2>1. \A j \in 0..ByteBits : j \in P
    BY <1>1, <1>2, <1>3, UpTo
  <2>q. QED
    BY <2>1 DEF P

(* Bits above the byte only move down. *)
LEMMA TurnedHigh ==
  ASSUME NEW a \in Words, a \cap (0..(ByteBits - 1)) = {}
  PROVE  \A j \in 0..ByteBits : Turned(a)[j] = Right(a, j)
<1> DEFINE P == {j \in 0..ByteBits : Turned(a)[j] = Right(a, j)}
<1>1. ByteBits \in Nat
  BY ZyAssumption
<1>2. 0 \in P
  <2>1. Right(a, 0) = a
    BY NoMove
  <2>q. QED
    BY <1>1, <2>1, TurnedIs
<1>3. ASSUME NEW j \in 1..ByteBits, j - 1 \in P PROVE j \in P
  <2>0. Turned(a)[j] = Shift(Turned(a)[j - 1])
    BY TurnedIs
  <2>1. Turned(a)[j] = Shift(Right(a, j - 1))
    BY <1>3, <2>0
  <2>2. 0 \notin Right(a, j - 1)
    BY <1>1 DEF Right
  <2>3. Right(Right(a, j - 1), 1) = Right(a, j)
    BY <1>1, ZyAssumption DEF Right, Words, Ones
  <2>q. QED
    BY <2>1, <2>2, <2>3 DEF Shift
<1>q. QED
  <2> HIDE DEF P
  <2>1. \A j \in 0..ByteBits : j \in P
    BY <1>1, <1>2, <1>3, UpTo
  <2>q. QED
    BY <2>1 DEF P

LEMMA ByteIsWord == Byte \subseteq Words
BY ZyAssumption DEF Byte, Words, Ones

LEMMA TabIs == ASSUME NEW i \in Byte PROVE crc_tab[i] = Turned(i)[ByteBits]
BY DEF crc_tab, Turned

(* The table does ByteBits turns at once. *)
LEMMA ByteAtOnce ==
  ASSUME NEW crc \in Words, NEW b \in Byte
  PROVE  ChksumByte(crc, b) = Turned(SymDiff(crc, b))[ByteBits]
<1> DEFINE all == SymDiff(crc, b)
           low == all \cap (0..(ByteBits - 1))
           high == all \ low
<1>1. ByteBits \in Nat /\ all \in Words /\ low \in Byte /\ high \in Words
  <2>1. all \in Words
    BY XorStays, ByteIsWord
  <2>q. QED
    BY <2>1, ZyAssumption DEF Byte, Words
<1>2. SymDiff(low, high) = all /\ high \cap (0..(ByteBits - 1)) = {}
  BY DEF SymDiff
<1>3. Right(high, ByteBits) = Right(crc, ByteBits)
  BY <1>1 DEF SymDiff, Right, Byte, Ones
<1>4. ChksumByte(crc, b) = SymDiff(Right(crc, ByteBits), crc_tab[low])
  BY DEF ChksumByte
<1> HIDE DEF all, low, high
<1>5. Turned(all)[ByteBits] = SymDiff(Turned(low)[ByteBits], Turned(high)[ByteBits])
  BY <1>1, <1>2, TurnedXor, ByteIsWord
<1>6. Turned(high)[ByteBits] = Right(high, ByteBits)
  BY <1>1, <1>2, TurnedHigh
<1>7. crc_tab[low] = Turned(low)[ByteBits]
  BY <1>1, TabIs
<1>q. QED
  BY <1>3, <1>4, <1>5, <1>6, <1>7, XorIs DEF all

LEMMA BitsTakenIs ==
  ASSUME NEW crc \in Words, NEW b \in Byte
  PROVE  BitsTaken(crc, b) = Turned(SymDiff(crc, b))[ByteBits]
<1> DEFINE Bit(j) == IF j - 1 \in b THEN {0} ELSE {}
           g == [j \in 1..ByteBits |-> [v \in Words |-> Shift(SymDiff(v, Bit(j)))]]
           Is(f) == f = [j \in 0..ByteBits |-> IF j = 0 THEN crc ELSE Shift(SymDiff(f[j - 1], Bit(j)))]
           rem == CHOOSE f : Is(f)
           all == Turned(SymDiff(crc, b))
<1>0. BitsTaken(crc, b) = rem[ByteBits]
  BY DEF BitsTaken
<1>1. ByteBits \in Nat /\ SymDiff(crc, b) \in Words
  BY ZyAssumption, XorStays, ByteIsWord
<1>2. \A j \in 1..ByteBits : Bit(j) \in Words
  BY ZyAssumption DEF Words, Ones
<1> HIDE DEF Bit
<1>3. g \in [1..ByteBits -> [Words -> Words]]
  BY <1>2, XorStays, ShiftStays
<1>4. PICK f \in [0..ByteBits -> Words] :
        f[0] = crc /\ \A j \in 1..ByteBits : f[j] = g[j][f[j - 1]]
  <2>1. ByteBits \in Nat /\ crc \in Words
    BY <1>1
  <2> HIDE DEF g, Is, all, rem
  <2>q. QED
    BY <1>3, <2>1, WordsRun
<1>5. ASSUME NEW j \in 1..ByteBits
      PROVE  f[j - 1] \in Words /\ f[j] = Shift(SymDiff(f[j - 1], Bit(j)))
  <2>1. j - 1 \in 0..ByteBits
    BY <1>1
  <2>2. f[j - 1] \in Words /\ g[j][f[j - 1]] = Shift(SymDiff(f[j - 1], Bit(j)))
    BY <1>4, <2>1
  <2>q. QED
    BY <1>4, <2>2
<1>6. Is(f)
  BY <1>1, <1>4, <1>5
<1>7. Is(rem)
  <2> HIDE DEF Is
  <2>q. QED
    BY <1>6
<1> HIDE DEF rem
<1>8. rem[0] = crc /\ \A j \in 1..ByteBits : rem[j] = Shift(SymDiff(rem[j - 1], Bit(j)))
  BY <1>1, <1>7
<1> DEFINE P == {j \in 0..ByteBits : rem[j] \in Words /\ all[j] = SymDiff(rem[j], Right(b, j))}
<1>9. 0 \in P
  <2>1. Right(b, 0) = b
    BY NoMove, ByteIsWord
  <2>q. QED
    BY <1>1, <1>8, <2>1, TurnedIs
<1>10. ASSUME NEW j \in 1..ByteBits, j - 1 \in P PROVE j \in P
  <2> DEFINE rest == Right(b, j - 1) \ {0}
  <2>1. SymDiff(Bit(j), rest) = Right(b, j - 1)
    BY <1>1, ZyAssumption DEF Bit, SymDiff, Right, Ones
  <2>2. rest \in Words /\ Shift(rest) = Right(b, j)
    <3>1. Right(rest, 1) = Right(b, j)
      BY <1>1, ZyAssumption DEF Right, Ones, Byte
    <3>q. QED
      BY <3>1 DEF Shift, Words, Right
  <2> HIDE DEF rest
  <2>3. rem[j - 1] \in Words /\ all[j - 1] = SymDiff(rem[j - 1], SymDiff(Bit(j), rest))
    BY <1>10, <2>1
  <2>4. all[j] = Shift(all[j - 1])
    BY <1>1, TurnedIs
  <2> DEFINE y == SymDiff(rem[j - 1], Bit(j))
  <2>5. all[j - 1] = SymDiff(y, rest)
    BY <2>3, XorIs
  <2>7. y \in Words
    BY <1>2, <2>3, XorStays
  <2>6. rem[j] = Shift(y)
    BY <1>8
  <2> HIDE DEF y, all
  <2>8. all[j] = SymDiff(rem[j], Right(b, j))
    BY <2>2, <2>4, <2>5, <2>6, <2>7, ShiftXor
  <2>q. QED
    BY <2>6, <2>7, <2>8, ShiftStays
<1>11. ByteBits \in P
  <2> HIDE DEF P
  <2>q. QED
    BY <1>1, <1>9, <1>10, UpTo
<1>12. Right(b, ByteBits) = {}
  BY <1>1 DEF Right, Byte, Ones
<1>q. QED
  BY <1>0, <1>11, <1>12, XorIs

(* The table gives the bit by bit remainder of a whole file. *)
LEMMA CrcIs == ASSUME NEW bytes \in Seq(Byte) PROVE chksum_crc32(bytes) = BitCrc(bytes)
<1> DEFINE n == Len(bytes)
           IsSum(f) == f = [i \in 0..n |-> IF i = 0 THEN Ones ELSE ChksumByte(f[i - 1], bytes[i])]
           IsRem(f) == f = [i \in 0..n |-> IF i = 0 THEN Ones ELSE BitsTaken(f[i - 1], bytes[i])]
           g == [i \in 1..n |-> [v \in Words |-> ChksumByte(v, bytes[i])]]
<1>0. n \in Nat /\ Ones \in Words /\ ByteBits \in Nat
  BY ZyAssumption DEF Words
<1>1. ASSUME NEW w \in Words, NEW i \in 1..n
      PROVE  ChksumByte(w, bytes[i]) = BitsTaken(w, bytes[i]) /\ ChksumByte(w, bytes[i]) \in Words
  <2>1. bytes[i] \in Byte /\ SymDiff(w, bytes[i]) \in Words
    <3>1. bytes[i] \in Byte
      OBVIOUS
    <3>q. QED
      BY <3>1, ByteIsWord, XorStays
  <2>q. QED
    BY <1>0, <2>1, ByteAtOnce, BitsTakenIs, TurnedIs, SMTT(30)
<1>2. g \in [1..n -> [Words -> Words]]
  BY <1>1
<1>3. PICK f \in [0..n -> Words] : f[0] = Ones /\ \A i \in 1..n : f[i] = g[i][f[i - 1]]
  <2> HIDE DEF g, n
  <2>q. QED
    BY <1>0, <1>2, Iterates
<1>4. \A i \in 1..n : f[i - 1] \in Words /\ f[i] = ChksumByte(f[i - 1], bytes[i])
  BY <1>0, <1>3
<1>5. IsSum(f) /\ IsRem(f)
  BY <1>0, <1>1, <1>3, <1>4
<1> DEFINE sum == CHOOSE h : IsSum(h)
           rem == CHOOSE h : IsRem(h)
<1>6. chksum_crc32(bytes) = sum[n] /\ BitCrc(bytes) = rem[n]
  BY DEF chksum_crc32, BitCrc
<1>7. IsSum(sum) /\ IsRem(rem)
  <2> HIDE DEF IsSum, IsRem
  <2>q. QED
    BY <1>5
<1> HIDE DEF sum, rem
<1>8. /\ sum[0] = Ones /\ rem[0] = Ones
      /\ \A i \in 1..n : /\ sum[i] = ChksumByte(sum[i - 1], bytes[i])
                         /\ rem[i] = BitsTaken(rem[i - 1], bytes[i])
  <2>1. sum = [i \in 0..n |-> IF i = 0 THEN Ones ELSE ChksumByte(sum[i - 1], bytes[i])]
    BY <1>7
  <2>2. rem = [i \in 0..n |-> IF i = 0 THEN Ones ELSE BitsTaken(rem[i - 1], bytes[i])]
    BY <1>7
  <2>3. 0 \in 0..n /\ \A i \in 1..n : i \in 0..n /\ i # 0
    BY <1>0
  <2> HIDE DEF n
  <2>4. sum[0] = Ones /\ \A i \in 1..n : sum[i] = ChksumByte(sum[i - 1], bytes[i])
    BY <2>1, <2>3
  <2>5. rem[0] = Ones /\ \A i \in 1..n : rem[i] = BitsTaken(rem[i - 1], bytes[i])
    BY <2>2, <2>3
  <2>q. QED
    BY <2>4, <2>5
<1> DEFINE P == {i \in 0..n : sum[i] \in Words /\ sum[i] = rem[i]}
<1>9. 0 \in P
  BY <1>0, <1>8
<1>10. ASSUME NEW i \in 1..n, i - 1 \in P PROVE i \in P
  BY <1>0, <1>1, <1>8, <1>10
<1>11. \A i \in 0..n : i \in P
  <2> HIDE DEF P, n
  <2>q. QED
    BY <1>0, <1>9, <1>10, UpTo
<1>q. QED
  BY <1>6, <1>11

ZyInv ==
  /\ zy.image \in Seq(Byte)
  /\ \E signs, runs :
       /\ zy = [image |-> zy.image, bytes |-> zy.image, signs |-> signs, runs |-> runs]
       /\ signs = <<>> \/ \E v : signs = <<[version |-> v, crc32 |-> BitCrc(zy.image)]>>

(* zyimage may be run any number of times on an image of any size: there   *)
(* is one signature at most, and the CRC in it, of words and bytes of any  *)
(* width and for any polynomial, is that of the image (zyimage.c:21-58).   *)
THEOREM SignsOnce == ZySpec => []SignedOnce
<1>1. ZyInit => ZyInv
  <2> SUFFICES ASSUME ZyInit PROVE ZyInv
    OBVIOUS
  <2>1. PICK n \in 0..MaxImage : \E given \in [1..n -> Byte] :
          zy = [image |-> given, bytes |-> given, signs |-> <<>>, runs |-> 0]
    BY DEF ZyInit
  <2>2. PICK given \in [1..n -> Byte] :
          zy = [image |-> given, bytes |-> given, signs |-> <<>>, runs |-> 0]
    BY <2>1
  <2>3. given \in Seq(Byte)
    BY <2>2
  <2>q. QED
    BY <2>2, <2>3 DEF ZyInv
<1>2. ZyInv /\ [ZyNext]_zy => ZyInv'
  <2> SUFFICES ASSUME ZyInv, [ZyNext]_zy PROVE ZyInv'
    OBVIOUS
  <2>0. PICK signs, runs :
       /\ zy = [image |-> zy.image, bytes |-> zy.image, signs |-> signs, runs |-> runs]
       /\ signs = <<>> \/ \E v : signs = <<[version |-> v, crc32 |-> BitCrc(zy.image)]>>
    BY DEF ZyInv
  <2>1. CASE zy' = zy
    BY <2>1 DEF ZyInv
  <2>2. ASSUME zy' = [zy EXCEPT !.runs = @ + 1] PROVE ZyInv'
    <3>1. zy' = [image |-> zy.image, bytes |-> zy.image, signs |-> signs, runs |-> runs + 1]
      BY <2>0, <2>2
    <3>q. QED
      BY <2>0, <3>1 DEF ZyInv
  <2>3. ASSUME NEW v, zy' = [zy EXCEPT !.runs = @ + 1,
                 !.signs = <<[version |-> v, crc32 |-> chksum_crc32(zy.bytes)]>>]
        PROVE  ZyInv'
    <3>1. chksum_crc32(zy.bytes) = BitCrc(zy.image)
      BY <2>0, CrcIs DEF ZyInv
    <3> DEFINE sign == <<[version |-> v, crc32 |-> BitCrc(zy.image)]>>
    <3>2. zy' = [zy EXCEPT !.runs = @ + 1, !.signs = sign]
      BY <2>3, <3>1
    <3> HIDE DEF sign
    <3>3. zy' = [image |-> zy.image, bytes |-> zy.image, signs |-> sign, runs |-> runs + 1]
      <4> USE <2>0
      <4>1. zy'.image = zy.image /\ zy'.bytes = zy.image /\ zy'.signs = sign /\ zy'.runs = runs + 1
        BY <3>2
      <4>2. zy' = [f \in {"image", "bytes", "signs", "runs"} |-> zy'[f]]
        BY <3>2
      <4>q. QED
        BY <4>1, <4>2
    <3>4. zy'.image = zy.image
      BY <3>3
    <3>5. \E w : sign = <<[version |-> w, crc32 |-> BitCrc(zy.image)]>>
      BY DEF sign
    <3>6. \E w : sign = <<[version |-> w, crc32 |-> BitCrc(zy'.image)]>>
      BY <3>4, <3>5
    <3>q. QED
      BY <3>3, <3>4, <3>6 DEF ZyInv
  <2>q. QED
    BY <2>1, <2>2, <2>3 DEF ZyNext, Sign
<1>3. ZyInv => SignedOnce
  <2> SUFFICES ASSUME ZyInv PROVE SignedOnce
    OBVIOUS
  <2>1. zy.bytes = zy.image
    BY DEF ZyInv
  <2>2. zy.signs = <<>> \/ \E v : zy.signs = <<[version |-> v, crc32 |-> BitCrc(zy.image)]>>
    BY DEF ZyInv
  <2>3. CASE zy.signs = <<>>
    BY <2>1, <2>3 DEF SignedOnce
  <2>4. ASSUME NEW s, s.crc32 = BitCrc(zy.image), zy.signs = <<s>> PROVE SignedOnce
    BY <2>1, <2>4 DEF SignedOnce
  <2>q. QED
    BY <2>2, <2>3, <2>4
<1>q. QED
  BY <1>1, <1>2, <1>3, PTL DEF ZySpec

-----------------------------------------------------------------------------
(* The boot loader stub.                                                   *)

(* The smaller and the larger of two. *)
LEMMA MinPair == ASSUME NEW a \in Nat, NEW b \in Nat PROVE Min({a, b}) = IF a <= b THEN a ELSE b
BY MinIn
LEMMA MaxPair == ASSUME NEW a \in Nat, NEW b \in Nat PROVE Max({a, b}) = IF a >= b THEN a ELSE b
BY DEF Max

(* 1 << n doubles. *)
IsPower(n, p) == p = [i \in 0..n |-> IF i = 0 THEN 1 ELSE 2 * p[i - 1]]

LEMMA PowerRuns ==
  ASSUME NEW n \in Nat
  PROVE  \E p \in [0..n -> Nat \ {0}] :
           /\ IsPower(n, p) /\ Power(n) = p[n] /\ p[0] = 1
           /\ \A i \in 1..n : p[i] = 2 * p[i - 1]
<1> DEFINE S == Nat \ {0}
           g == [i \in 1..n |-> [x \in S |-> 2 * x]]
           p == CHOOSE q : IsPower(n, q)
<1>1. g \in [1..n -> [S -> S]] /\ 1 \in S
  OBVIOUS
<1>2. PICK f \in [0..n -> S] : f[0] = 1 /\ \A i \in 1..n : f[i] = g[i][f[i - 1]]
  <2> HIDE DEF g, S
  <2>q. QED
    BY <1>1, Iterates
<1>3. ASSUME NEW i \in 1..n PROVE f[i] = 2 * f[i - 1]
  <2>1. i - 1 \in 0..n
    OBVIOUS
  <2>2. f[i - 1] \in S /\ g[i][f[i - 1]] = 2 * f[i - 1]
    BY <1>2, <2>1
  <2>q. QED
    BY <1>2, <2>2
<1>4. IsPower(n, f)
  BY <1>2, <1>3 DEF IsPower
<1>5. IsPower(n, p) /\ Power(n) = p[n]
  BY <1>4 DEF Power, IsPower
<1> HIDE DEF p
<1>6. p[0] = 1 /\ \A i \in 1..n : p[i] = 2 * p[i - 1]
  <2>1. 0 \in 0..n /\ \A i \in 1..n : i \in 0..n /\ i # 0
    OBVIOUS
  <2>q. QED
    BY <1>5, <2>1 DEF IsPower
<1> DEFINE P == {i \in 0..n : p[i] \in Nat \ {0}}
<1>7. 0 \in P /\ \A i \in 1..n : i - 1 \in P => i \in P
  BY <1>6, SMTT(30)
<1>8. \A i \in 0..n : i \in P
  <2> HIDE DEF P
  <2>q. QED
    BY <1>7, UpTo
<1>9. p \in [0..n -> Nat \ {0}]
  BY <1>5, <1>8 DEF IsPower
<1>q. QED
  BY <1>5, <1>6, <1>9

LEMMA PowerIs ==
  /\ Power(0) = 1
  /\ \A n \in Nat : Power(n) \in Nat \ {0} /\ Power(n + 1) = 2 * Power(n) /\ Power(n) > n
<1>1. Power(0) = 1
  BY PowerRuns
<1>2. ASSUME NEW n \in Nat PROVE Power(n) \in Nat \ {0} /\ Power(n + 1) = 2 * Power(n)
  <2>1. PICK p \in [0..n -> Nat \ {0}] :
           /\ Power(n) = p[n] /\ p[0] = 1
           /\ \A i \in 1..n : p[i] = 2 * p[i - 1]
    BY PowerRuns
  <2>2. PICK q \in [0..(n + 1) -> Nat \ {0}] :
           /\ Power(n + 1) = q[n + 1] /\ q[0] = 1
           /\ \A i \in 1..(n + 1) : q[i] = 2 * q[i - 1]
    <3>1. n + 1 \in Nat
      OBVIOUS
    <3>q. QED
      BY <3>1, PowerRuns
  <2> DEFINE P == {i \in 0..n : p[i] = q[i]}
  <2>3. 0 \in P /\ \A i \in 1..n : i - 1 \in P => i \in P
    BY <2>1, <2>2
  <2>4. \A i \in 0..n : i \in P
    <3> HIDE DEF P
    <3>q. QED
      BY <2>3, UpTo
  <2>5. p[n] = q[n] /\ q[n + 1] = 2 * q[n]
    BY <2>2, <2>4
  <2>q. QED
    BY <2>1, <2>2, <2>5
<1>3. ASSUME NEW n \in Nat PROVE Power(n) > n
  <2> DEFINE P == {i \in 0..n : Power(i) > i}
  <2>1. 0 \in P
    BY <1>1
  <2>2. ASSUME NEW i \in 1..n, i - 1 \in P PROVE i \in P
    <3>1. i - 1 \in Nat /\ (i - 1) + 1 = i
      OBVIOUS
    <3>2. Power(i) = 2 * Power(i - 1) /\ Power(i - 1) \in Nat
      BY <1>2, <3>1
    <3>q. QED
      BY <2>2, <3>2
  <2>3. \A i \in 0..n : i \in P
    <3> HIDE DEF P
    <3>q. QED
      BY <2>1, <2>2, UpTo
  <2>q. QED
    BY <2>3
<1>q. QED
  BY <1>1, <1>2, <1>3

LEMMA LogIs ==
  ASSUME NEW d \in Nat, d >= 4
  PROVE  Log(d) \in Nat /\ Log(d) >= 2 /\ Power(Log(d)) <= d /\ d < Power(Log(d) + 1)
<1> DEFINE S == {n \in Nat : d < Power(n + 1)}
<1>1. d \in S
  BY PowerIs
<1>2. PICK m \in S : \A x \in S : m <= x
  <2>1. S \in SUBSET Nat /\ S # {}
    BY <1>1
  <2> HIDE DEF S
  <2>q. QED
    BY <2>1, MinIn
<1>3. m \in 0..d
  BY <1>1, <1>2
<1>4. Power(m) <= d
  <2>1. CASE m = 0
    BY <2>1, PowerIs
  <2>2. CASE m # 0
    <3>1. m - 1 \in Nat /\ m - 1 \notin S /\ (m - 1) + 1 = m
      BY <1>2, <2>2
    <3>2. ~(d < Power(m))
      BY <3>1
    <3>q. QED
      BY <1>3, <3>2, PowerIs
  <2>q. QED
    BY <2>1, <2>2
<1>5. Log(d) \in 0..d /\ Power(Log(d)) <= d /\ d < Power(Log(d) + 1)
  BY <1>2, <1>3, <1>4 DEF Log
<1>6. Power(0 + 1) = 2 /\ Power(1 + 1) = 4
  BY PowerIs
<1>q. QED
  BY <1>5, <1>6

(* The distance that is spelled is the one that is read.                   *)
LEMMA DistanceIs == ASSUME NEW d \in Nat PROVE Distance(SlotOf(d), ExtraOf(d)) = d
<1>1. CASE d < 4
  BY <1>1 DEF SlotOf, ExtraOf, Distance
<1>2. CASE d >= 4
  <2> DEFINE n == Log(d)
             q == Power(n - 1)
             b == d \div q
  <2>1. n \in Nat /\ n >= 2 /\ n - 1 \in Nat /\ Power(n) <= d /\ d < Power(n + 1)
    BY <1>2, LogIs
  <2>2. q \in Nat \ {0} /\ Power((n - 1) + 1) = 2 * q /\ Power(n + 1) = 2 * Power(n)
    BY <2>1, PowerIs
  <2>3. (n - 1) + 1 = n
    BY <2>1
  <2>4. 2 * q <= d /\ d < 4 * q
    BY <2>1, <2>2, <2>3
  <2>5. ~(d < 4)
    BY <1>2
  <2>6. SlotOf(d) = 2 * n + (b % 2) /\ ExtraOf(d) = d % q
    BY <2>5 DEF SlotOf, ExtraOf
  <2> HIDE DEF n, q, b
  <2>7. d = q * b + (d % q) /\ b \in Nat /\ d % q \in Nat /\ d % q < q
    BY <2>2, Z3 DEF b
  <2>8. b \in {2, 3}
    <3>1. b >= 2
      <4>1. ASSUME b <= 1 PROVE FALSE
        <5>1. q * b <= q
          BY <2>2, <2>7, <4>1, Z3
        <5>q. QED
          BY <2>2, <2>4, <2>7, <5>1
      <4>q. QED
        BY <2>7, <4>1
    <3>2. b < 4
      <4>1. ASSUME b >= 4 PROVE FALSE
        <5>1. q * b >= 4 * q
          BY <2>2, <2>7, <4>1, Z3
        <5>q. QED
          BY <2>2, <2>4, <2>7, <5>1
      <4>q. QED
        BY <2>7, <4>1
    <3>q. QED
      BY <2>7, <3>1, <3>2
  <2>9. b % 2 = b - 2
    BY <2>8
  <2>10. SlotOf(d) \in Nat /\ ~(SlotOf(d) < 4) /\ SlotOf(d) % 2 = b - 2 /\ (SlotOf(d) \div 2) = n
    BY <2>1, <2>6, <2>8, <2>9
  <2>11. Distance(SlotOf(d), ExtraOf(d)) = (2 + (b - 2)) * q + (d % q)
    BY <2>6, <2>10 DEF Distance, q
  <2>12. (2 + (b - 2)) * q = q * b
    BY <2>2, <2>8
  <2>q. QED
    BY <2>7, <2>11, <2>12
<1>q. QED
  BY <1>1, <1>2

(* A copy that overlaps what it writes repeats the end of what there was.  *)
Repeated(out, r, n) == [k \in 1..n |-> out[Len(out) - r + 1 + ((k - 1) % r)]]

LEMMA Remainder ==
  ASSUME NEW x \in Nat, NEW r \in Nat \ {0}
  PROVE  x % r \in 0..(r - 1) /\ (x < r => x % r = x) /\ (x >= r => (x - r) % r = x % r)
<1>1. x % r \in 0..(r - 1)
  BY Z3
<1>2. x < r => x % r = x
  BY Z3
<1>3. ASSUME x >= r PROVE (x - r) % r = x % r
  <2> DEFINE q == x \div r
             m == x % r
  <2>1. q \in Nat /\ x = q * r + m
    BY Z3
  <2>2. (q - 1) * r = q * r - r
    BY <2>1, Z3
  <2>3. x - r = (q - 1) * r + m
    BY <1>1, <2>1, <2>2
  <2>4. q - 1 \in Nat
    <3>1. q # 0
      BY <1>1, <1>3, <2>1, Z3
    <3>q. QED
      BY <2>1, <3>1
  <2> HIDE DEF q, m
  <2>5. m \in 0..(r - 1)
    BY <1>1 DEF m
  <2>6. ((q - 1) * r + m) % r = m
    <3> DEFINE k == q - 1
               y == k * r + m
               e == k - (y \div r)
    <3>1. k \in Nat
      BY <2>4
    <3> HIDE DEF k
    <3>2. y \in Nat
      BY <3>1, <2>5, Z3
    <3>3. y \div r \in Nat /\ y = (y \div r) * r + (y % r) /\ y % r \in 0..(r - 1)
      <4> HIDE DEF y
      <4>q. QED
        BY <3>2, Z3
    <3>4. e * r = k * r - (y \div r) * r
      <4> HIDE DEF y
      <4>q. QED
        BY <3>1, <3>3, Z3
    <3>5. e \in Int /\ e * r = (y % r) - m
      <4>1. y - m = k * r
        BY <3>1, <2>5
      <4> HIDE DEF y
      <4>2. e \in Int
        BY <3>1, <3>3
      <4> DEFINE a == k * r
                 b == (y \div r) * r
      <4>3. a \in Nat /\ b \in Nat
        BY <3>1, <3>3, Z3
      <4>4. e * r = a - b /\ y = b + (y % r) /\ y - m = a
        BY <3>3, <3>4, <4>1
      <4> HIDE DEF a, b, e
      <4>q. QED
        BY <3>2, <3>3, <4>2, <4>3, <4>4, <2>5
    <3> HIDE DEF y, e
    <3>6. ~(e >= 1)
      <4>1. e >= 1 => e * r >= r
        BY <3>5, Z3
      <4>q. QED
        BY <2>5, <3>3, <3>5, <4>1
    <3>7. ~(e <= -1)
      <4>1. e <= -1 => e * r <= -r
        BY <3>5, Z3
      <4>q. QED
        BY <2>5, <3>3, <3>5, <4>1
    <3>8. e * r = 0
      BY <3>5, <3>6, <3>7
    <3>9. y % r = m
      BY <2>5, <3>3, <3>5, <3>8
    <3>q. QED
      BY <3>9 DEF y, k
  <2>q. QED
    BY <2>3, <2>6 DEF m
<1>q. QED
  BY <1>1, <1>2, <1>3

LEMMA SameSeq ==
  ASSUME NEW S, NEW s \in Seq(S), NEW t \in Seq(S), Len(s) = Len(t), \A k \in 1..Len(s) : s[k] = t[k]
  PROVE  s = t
OBVIOUS

LEMMA RepeatedIs ==
  ASSUME NEW out \in Seq(Alphabet), NEW r \in 1..Len(out), NEW n \in Nat
  PROVE  /\ Repeated(out, r, n) \in Seq(Alphabet) /\ Len(Repeated(out, r, n)) = n
         /\ \A k \in 1..n : Repeated(out, r, n)[k] = out[Len(out) - r + 1 + ((k - 1) % r)]
<1>1. ASSUME NEW k \in 1..n PROVE out[Len(out) - r + 1 + ((k - 1) % r)] \in Alphabet
  <2>1. k - 1 \in Nat /\ r \in Nat \ {0}
    OBVIOUS
  <2>2. (k - 1) % r \in 0..(r - 1)
    BY <2>1, Remainder
  <2>3. Len(out) - r + 1 + ((k - 1) % r) \in 1..Len(out)
    BY <2>2
  <2>q. QED
    BY <2>3
<1>q. QED
  BY <1>1 DEF Repeated

LEMMA RepeatedNext ==
  ASSUME NEW out \in Seq(Alphabet), NEW r \in 1..Len(out), NEW n \in Nat \ {0}
  PROVE  LET was == out \o Repeated(out, r, n - 1)
         IN  out \o Repeated(out, r, n) = Append(was, was[Len(out) + n - r])
<1> DEFINE was == out \o Repeated(out, r, n - 1)
           new == out \o Repeated(out, r, n)
           L == Len(out)
<1>0. L \in Nat /\ r \in Nat \ {0} /\ n - 1 \in Nat /\ r <= L
  OBVIOUS
<1>1. Repeated(out, r, n - 1) \in Seq(Alphabet) /\ Len(Repeated(out, r, n - 1)) = n - 1
  BY <1>0, RepeatedIs
<1>2. Repeated(out, r, n) \in Seq(Alphabet) /\ Len(Repeated(out, r, n)) = n
  BY RepeatedIs
<1>3. was \in Seq(Alphabet) /\ Len(was) = L + n - 1 /\ new \in Seq(Alphabet) /\ Len(new) = L + n
  BY <1>0, <1>1, <1>2
<1>4. \A k \in 1..L : was[k] = out[k] /\ new[k] = out[k]
  BY <1>0, <1>1, <1>2
<1>5. ASSUME NEW k \in 1..(n - 1) PROVE was[L + k] = out[L - r + 1 + ((k - 1) % r)]
  <2>1. was[L + k] = Repeated(out, r, n - 1)[k]
    BY <1>0, <1>1
  <2>q. QED
    BY <1>0, <2>1, RepeatedIs
<1>6. ASSUME NEW k \in 1..n PROVE new[L + k] = out[L - r + 1 + ((k - 1) % r)]
  <2>1. new[L + k] = Repeated(out, r, n)[k]
    BY <1>0, <1>2
  <2>q. QED
    BY <1>0, <2>1, RepeatedIs
<1> HIDE DEF was, new
<1>7. was[L + n - r] = new[L + n]
  <2>1. new[L + n] = out[L - r + 1 + ((n - 1) % r)]
    <3>1. n \in 1..n
      BY <1>0
    <3>q. QED
      BY <1>6, <3>1
  <2>2. CASE n <= r
    <3>1. (n - 1) % r = n - 1
      <4>1. n - 1 < r
        BY <1>0, <2>2
      <4>q. QED
        BY <1>0, <4>1, Remainder
    <3>2. L + n - r \in 1..L
      BY <1>0, <2>2
    <3>3. L - r + 1 + (n - 1) = L + n - r
      BY <1>0
    <3>q. QED
      BY <1>4, <2>1, <3>1, <3>2, <3>3
  <2>3. CASE n > r
    <3>1. n - r \in 1..(n - 1) /\ L + (n - r) = L + n - r /\ (n - r) - 1 = (n - 1) - r
      BY <1>0, <2>3
    <3>2. was[L + n - r] = out[L - r + 1 + (((n - 1) - r) % r)]
      BY <1>5, <3>1
    <3>3. ((n - 1) - r) % r = (n - 1) % r
      <4>1. n - 1 >= r
        BY <1>0, <2>3
      <4>q. QED
        BY <1>0, <4>1, Remainder
    <3>q. QED
      BY <2>1, <3>2, <3>3
  <2>q. QED
    BY <1>0, <2>2, <2>3
<1> DEFINE app == Append(was, was[L + n - r])
<1>8. was[L + n - r] \in Alphabet
  BY <1>3, <1>7, <1>0
<1>9. /\ app \in Seq(Alphabet) /\ Len(app) = L + n /\ app[L + n] = new[L + n]
      /\ \A k \in 1..(L + n - 1) : app[k] = was[k]
  BY <1>0, <1>3, <1>7, <1>8
<1> HIDE DEF app
<1>10. ASSUME NEW k \in 1..(L + n) PROVE new[k] = app[k]
  <2>1. CASE k <= L
    BY <1>0, <1>4, <1>9, <2>1
  <2>2. CASE k = L + n
    BY <1>9, <2>2
  <2>3. CASE k > L /\ k # L + n
    <3>1. PICK j \in 1..(n - 1) : k = L + j
      <4>1. k - L \in 1..(n - 1) /\ k = L + (k - L)
        BY <1>0, <2>3
      <4>q. QED
        BY <4>1
    <3>2. new[k] = was[k] /\ k \in 1..(L + n - 1)
      <4>1. j \in 1..n /\ L + j \in 1..(L + n - 1)
        BY <1>0
      <4>2. new[L + j] = was[L + j]
        BY <1>5, <1>6, <4>1
      <4>q. QED
        BY <3>1, <4>1, <4>2
    <3>q. QED
      BY <1>9, <3>2
  <2>q. QED
    BY <2>1, <2>2, <2>3
<1>11. new = app
  BY <1>3, <1>9, <1>10, SameSeq
<1>q. QED
  BY <1>11 DEF new, app, was

LEMMA CopiedIs ==
  ASSUME NEW out \in Seq(Alphabet), NEW r \in 1..Len(out), NEW len \in Nat,
         lz.osize \in Nat, Len(out) <= lz.osize
  PROVE  LET n == Min({len, lz.osize - Len(out)})
         IN  n \in Nat /\ Copied(out, r, len) = out \o Repeated(out, r, n)
<1> DEFINE n == Min({len, lz.osize - Len(out)})
           Is(f) == f = [i \in 0..n |-> IF i = 0 THEN out
                                        ELSE Append(f[i - 1], f[i - 1][Len(out) + i - r])]
           all == CHOOSE f : Is(f)
           h == [i \in 0..n |-> out \o Repeated(out, r, i)]
<1>1. n \in Nat
  <2>1. lz.osize - Len(out) \in Nat
    OBVIOUS
  <2>q. QED
    BY <2>1, MinPair
<1>2. Copied(out, r, len) = all[n]
  BY DEF Copied
<1> HIDE DEF n
<1>3. h[0] = out
  <2>1. out \o Repeated(out, r, 0) = out
    <3>1. Repeated(out, r, 0) \in Seq(Alphabet) /\ Len(Repeated(out, r, 0)) = 0
      BY RepeatedIs
    <3>q. QED
      BY <3>1
  <2>2. 0 \in 0..n
    BY <1>1
  <2>q. QED
    BY <2>1, <2>2
<1>4. ASSUME NEW i \in 1..n PROVE h[i] = Append(h[i - 1], h[i - 1][Len(out) + i - r])
  <2>1. i \in Nat \ {0} /\ i - 1 \in 0..n /\ i \in 0..n
    BY <1>1
  <2>2. h[i] = out \o Repeated(out, r, i) /\ h[i - 1] = out \o Repeated(out, r, i - 1)
    BY <2>1
  <2>q. QED
    BY <2>1, <2>2, RepeatedNext
<1>5. h = [i \in 0..n |-> h[i]]
  OBVIOUS
<1> HIDE DEF h
<1>6. Is(h)
  <2>1. ASSUME NEW i \in 0..n
        PROVE  h[i] = IF i = 0 THEN out ELSE Append(h[i - 1], h[i - 1][Len(out) + i - r])
    <3>1. CASE i = 0
      BY <1>3, <3>1
    <3>2. CASE i # 0
      <4>1. i \in 1..n
        BY <1>1, <3>2
      <4>q. QED
        BY <1>4, <3>2, <4>1
    <3>q. QED
      BY <3>1, <3>2
  <2>q. QED
    BY <1>5, <2>1
<1>7. Is(all)
  <2> HIDE DEF Is
  <2>q. QED
    BY <1>6
<1> HIDE DEF all
<1> DEFINE P == {i \in 0..n : all[i] = h[i]}
<1>8. 0 \in P
  BY <1>1, <1>3, <1>7
<1>9. ASSUME NEW i \in 1..n, i - 1 \in P PROVE i \in P
  <2>1. i \in 0..n /\ i # 0
    BY <1>1
  <2>2. all[i] = Append(all[i - 1], all[i - 1][Len(out) + i - r])
    BY <1>7, <2>1
  <2>q. QED
    BY <1>4, <1>9, <2>1, <2>2
<1>10. \A i \in 0..n : i \in P
  <2> HIDE DEF P
  <2>q. QED
    BY <1>1, <1>8, <1>9, UpTo
<1>11. all[n] = out \o Repeated(out, r, n)
  BY <1>1, <1>10 DEF h
<1>q. QED
  BY <1>1, <1>2, <1>11 DEF n

-----------------------------------------------------------------------------
(* What packets mean.                                                      *)

Packet ==
  [kind : {"literal"}, byte : Alphabet] \cup [kind : {"match"}, dist : Nat \ {0}, len : Nat \ {0}]
    \cup [kind : {"rep"}, dist : 0..3, len : Nat \ {0}] \cup [kind : {"short"}]

Nothing == [out |-> <<>>, reps |-> <<1, 1, 1, 1>>]
IsMeaning(s, n, f) == f = [i \in 0..n |-> IF i = 0 THEN Nothing ELSE Meant(f[i - 1], s[i])]
Meaning(s) == CHOOSE f : IsMeaning(s, Len(s), f)

LEMMA MeaningRuns == ASSUME NEW s, NEW n \in Nat PROVE \E f : IsMeaning(s, n, f)
<1> DEFINE P == {m \in 0..n : \E f : IsMeaning(s, m, f)}
<1>1. 0 \in P
  <2> DEFINE f == [i \in 0..0 |-> Nothing]
  <2>1. f = [i \in 0..0 |-> IF i = 0 THEN Nothing ELSE Meant(f[i - 1], s[i])]
    OBVIOUS
  <2> HIDE DEF f
  <2>q. QED
    BY <2>1 DEF IsMeaning
<1>2. ASSUME NEW m \in 1..n, m - 1 \in P PROVE m \in P
  <2>1. PICK f : IsMeaning(s, m - 1, f)
    BY <1>2
  <2> DEFINE g == [i \in 0..m |-> IF i = m THEN Meant(f[m - 1], s[m]) ELSE f[i]]
  <2>2. \A i \in 0..m : g[i] = IF i = 0 THEN Nothing ELSE Meant(g[i - 1], s[i])
    BY <2>1 DEF IsMeaning
  <2>3. g = [i \in 0..m |-> g[i]]
    OBVIOUS
  <2> HIDE DEF g
  <2>4. IsMeaning(s, m, g)
    BY <2>2, <2>3 DEF IsMeaning
  <2>q. QED
    BY <2>4
<1>3. \A m \in 0..n : m \in P
  <2> HIDE DEF P
  <2>q. QED
    BY <1>1, <1>2, UpTo
<1>q. QED
  BY <1>3

LEMMA MeaningIs ==
  ASSUME NEW S, NEW s \in Seq(S)
  PROVE  /\ Meaning(s)[0] = Nothing
         /\ \A i \in 1..Len(s) : Meaning(s)[i] = Meant(Meaning(s)[i - 1], s[i])
<1>1. Len(s) \in Nat
  OBVIOUS
<1>2. IsMeaning(s, Len(s), Meaning(s))
  BY <1>1, MeaningRuns DEF Meaning
<1>3. 0 \in 0..Len(s) /\ \A i \in 1..Len(s) : i \in 0..Len(s) /\ i # 0
  BY <1>1
<1>q. QED
  BY <1>2, <1>3 DEF IsMeaning

(* What all of the packets mean. *)
All(s) == Meaning(s)[Len(s)]

LEMMA AllNext ==
  ASSUME NEW s \in Seq(Packet), NEW p \in Packet
  PROVE  All(Append(s, p)) = Meant(All(s), p)
<1> DEFINE t == Append(s, p)
           n == Len(s)
<1>1. /\ n \in Nat /\ t \in Seq(Packet) /\ Len(t) = n + 1 /\ t[n + 1] = p
      /\ \A i \in 1..n : t[i] = s[i] /\ i \in 1..(n + 1)
  OBVIOUS
<1> HIDE DEF t, n
<1>2. Meaning(t)[0] = Nothing /\ Meaning(s)[0] = Nothing
  BY <1>1, MeaningIs
<1>3. \A i \in 1..(n + 1) : Meaning(t)[i] = Meant(Meaning(t)[i - 1], t[i])
  BY <1>1, MeaningIs
<1>4. \A i \in 1..n : Meaning(s)[i] = Meant(Meaning(s)[i - 1], s[i])
  BY MeaningIs DEF n
<1> DEFINE P == {i \in 0..n : Meaning(t)[i] = Meaning(s)[i]}
<1>5. 0 \in P
  BY <1>1, <1>2
<1>6. ASSUME NEW i \in 1..n, i - 1 \in P PROVE i \in P
  BY <1>1, <1>3, <1>4, <1>6
<1>7. \A i \in 0..n : i \in P
  <2> HIDE DEF P
  <2>q. QED
    BY <1>1, <1>5, <1>6, UpTo
<1>8. Meaning(t)[n] = Meaning(s)[n]
  BY <1>1, <1>7
<1>9. Meaning(t)[n + 1] = Meant(Meaning(t)[n], p)
  <2>1. n + 1 \in 1..(n + 1) /\ (n + 1) - 1 = n
    BY <1>1
  <2>q. QED
    BY <1>1, <1>3, <2>1
<1>q. QED
  BY <1>1, <1>8, <1>9 DEF All, t, n

(* The state is a function of the last three packets.                      *)
Lits(s, k) == k < 1 \/ s[k].kind = "literal"
Kind(s, k) ==
  CASE s[k].kind = "match" -> 0
    [] s[k].kind = "short" /\ Lits(s, k - 1) -> 2
    [] OTHER -> 1
Remembers(s, n) ==
  CASE ~Lits(s, n) -> IF Lits(s, n - 1) THEN 7 + Kind(s, n) ELSE 10 + Kind(s, n)
    [] Lits(s, n) /\ ~Lits(s, n - 1) -> 4 + Kind(s, n - 1)
    [] Lits(s, n) /\ Lits(s, n - 1) /\ ~Lits(s, n - 2) -> 1 + Kind(s, n - 2)
    [] OTHER -> 0

LEMMA StateOfIs == \A n : StateOf(n) = Remembers(sent, n)
BY DEF StateOf, IsLiteral, Class, Remembers, Lits, Kind

LEMMA KindIs ==
  ASSUME NEW s, NEW k
  PROVE  Kind(s, k) \in 0..2 /\ (Kind(s, k) = 2 => Lits(s, k - 1))
BY DEF Kind

LEMMA RemembersNext ==
  ASSUME NEW s \in Seq(Packet), NEW p \in Packet
  PROVE  LET was == Remembers(s, Len(s))
             new == Remembers(Append(s, p), Len(s) + 1)
         IN  /\ p.kind = "literal" => new = AfterLiteral(was)
             /\ p.kind = "match" => new = IF was < Lit THEN 7 ELSE 10
             /\ p.kind = "rep" => new = IF was < Lit THEN 8 ELSE 11
             /\ p.kind = "short" => new = IF was < Lit THEN 9 ELSE 11
<1> DEFINE n == Len(s)
           t == Append(s, p)
           was == Remembers(s, n)
<1>1. /\ n \in Nat /\ t[n + 1] = p /\ \A k \in Int : k <= n /\ k >= 1 => t[k] = s[k]
  OBVIOUS
<1> HIDE DEF n, t
<1>2. \A k \in Int : k <= n => (Lits(t, k) <=> Lits(s, k))
  BY <1>1 DEF Lits
<1>3. \A k \in Int : k <= n /\ k >= 1 => Kind(t, k) = Kind(s, k)
  BY <1>1, <1>2 DEF Kind
<1>4. /\ Lits(t, n + 1) <=> p.kind = "literal"
      /\ ~Lits(s, n) => Kind(t, n) = Kind(s, n)
      /\ ~Lits(s, n - 1) => Kind(t, n - 1) = Kind(s, n - 1)
      /\ Lits(t, n) <=> Lits(s, n)
      /\ Lits(t, n - 1) <=> Lits(s, n - 1)
  BY <1>1, <1>2, <1>3 DEF Lits
<1>5. (n + 1) - 1 = n /\ (n + 1) - 2 = n - 1
  BY <1>1
<1>6. /\ p.kind = "match" => Kind(t, n + 1) = 0
      /\ p.kind = "rep" => Kind(t, n + 1) = 1
      /\ p.kind = "short" => Kind(t, n + 1) = IF Lits(s, n) THEN 2 ELSE 1
  BY <1>1, <1>4, <1>5 DEF Kind
<1>7. was < Lit <=> Lits(s, n)
  BY KindIs DEF Remembers, Lit
<1>8. ASSUME p.kind = "literal" PROVE Remembers(t, n + 1) = AfterLiteral(was)
  <2>1. Remembers(t, n + 1) = IF ~Lits(s, n) THEN 4 + Kind(s, n)
                              ELSE IF ~Lits(s, n - 1) THEN 1 + Kind(s, n - 1) ELSE 0
    BY <1>4, <1>5, <1>8 DEF Remembers
  <2>2. CASE ~Lits(s, n)
    <3>1. was = IF Lits(s, n - 1) THEN 7 + Kind(s, n) ELSE 10 + Kind(s, n)
      BY <2>2 DEF Remembers
    <3>q. QED
      BY <2>1, <2>2, <3>1, KindIs DEF AfterLiteral
  <2>3. CASE Lits(s, n) /\ ~Lits(s, n - 1)
    <3>1. was = 4 + Kind(s, n - 1)
      BY <2>3 DEF Remembers
    <3>q. QED
      BY <2>1, <2>3, <3>1, KindIs DEF AfterLiteral
  <2>4. CASE Lits(s, n) /\ Lits(s, n - 1)
    <3>1. was \in 0..3
      BY <2>4, KindIs DEF Remembers
    <3>q. QED
      BY <2>1, <2>4, <3>1 DEF AfterLiteral
  <2>q. QED
    BY <2>2, <2>3, <2>4
<1>9. ASSUME p.kind # "literal"
      PROVE  Remembers(t, n + 1) = IF Lits(s, n) THEN 7 + Kind(t, n + 1) ELSE 10 + Kind(t, n + 1)
  BY <1>4, <1>5, <1>9 DEF Remembers
<1>q. QED
  BY <1>6, <1>7, <1>8, <1>9 DEF n, t

-----------------------------------------------------------------------------
(* The invariant.                                                          *)

Four == {rep \in Seq(Nat \ {0}) : Len(rep) = 4}
LEMMA FourIs == ASSUME NEW rep \in Four PROVE \A i \in 1..4 : rep[i] \in Nat \ {0}
<1>1. \A S : \A s \in Seq(S) : \A i \in 1..Len(s) : s[i] \in S
  OBVIOUS
<1>2. rep \in Seq(Nat \ {0}) /\ Len(rep) = 4
  BY DEF Four
<1>q. QED
  BY <1>1, <1>2, Zenon

LzRecord ==
  [osize : Nat, out : Seq(Alphabet), rep : Four, state : Nat,
   pc : {"decode", "decoded", "halt", "kernel"}, caches : BOOLEAN]

(* Before an error, lz is what the packets s mean.                         *)
Decoded(l, s) ==
  /\ All(s).out \in Seq(Alphabet)
  /\ Len(l.out) = Min({Len(All(s).out), l.osize})
  /\ l.out = SubSeq(All(s).out, 1, Len(l.out))
  /\ l.rep = All(s).reps
  /\ \A i \in 1..4 : l.rep[i] <= Max({1, Len(l.out)})
  /\ l.state = Remembers(s, Len(s))

LzmaInv ==
  /\ sent \in Seq(Packet) /\ lz \in LzRecord
  /\ lz.pc # "halt" => Decoded(lz, sent)
  /\ lz.pc = "kernel" => lz.caches

LEMMA LzmaStarts == LzmaInit => LzmaInv
<1> SUFFICES ASSUME LzmaInit PROVE LzmaInv
  OBVIOUS
<1>1. PICK osize \in Nat : lz = Entered(osize)
  BY LzmaAssumption DEF LzmaInit
<1>2. sent = <<>> /\ sent \in Seq(Packet) /\ Len(sent) = 0
  BY DEF LzmaInit
<1>3. <<1, 1, 1, 1>> \in Four
  BY DEF Four
<1>4. lz \in LzRecord
  BY <1>1, <1>3 DEF Entered, LzRecord
<1>5. All(sent) = Nothing
  BY <1>2, MeaningIs DEF All
<1>6. Len(Nothing.out) = 0 /\ Nothing.out \in Seq(Alphabet)
  BY DEF Nothing
<1>7. Min({0, osize}) = 0 /\ Max({1, 0}) = 1
  BY MinPair, MaxPair
<1>8. Remembers(sent, 0) = 0
  BY DEF Remembers, Lits
<1>9. Decoded(lz, sent)
  <2>1. lz.out = <<>> /\ lz.rep = <<1, 1, 1, 1>> /\ lz.state = 0 /\ lz.osize = osize
    BY <1>1 DEF Entered
  <2>2. \A i \in 1..4 : lz.rep[i] = 1
    BY <2>1
  <2>3. Len(lz.out) = 0 /\ lz.out = SubSeq(<<>>, 1, 0)
    BY <2>1
  <2>4. All(sent).out = <<>> /\ All(sent).reps = <<1, 1, 1, 1>> /\ Len(All(sent).out) = 0
    BY <1>5, <1>6 DEF Nothing
  <2>5. Len(lz.out) = Min({Len(All(sent).out), lz.osize})
    BY <1>7, <2>1, <2>3, <2>4
  <2>6. lz.out = SubSeq(All(sent).out, 1, Len(lz.out))
    BY <2>3, <2>4
  <2>7. \A i \in 1..4 : lz.rep[i] <= Max({1, Len(lz.out)})
    BY <1>7, <2>2, <2>3
  <2>q. QED
    BY <1>2, <1>5, <1>6, <1>8, <2>1, <2>4, <2>5, <2>6, <2>7 DEF Decoded
<1>q. QED
  BY <1>1, <1>2, <1>4, <1>9 DEF LzmaInv, Entered

(* While it decodes, nothing is cut off.                                   *)
LEMMA DecodingAll ==
  ASSUME LzmaInv, Decoding
  PROVE  /\ lz.out = All(sent).out /\ lz.out \in Seq(Alphabet) /\ lz.rep = All(sent).reps
         /\ lz.rep \in Four /\ lz.osize \in Nat /\ Len(lz.out) < lz.osize
         /\ \A i \in 1..4 : lz.rep[i] <= Max({1, Len(lz.out)})
         /\ lz.state = Remembers(sent, Len(sent))
<1> DEFINE m == All(sent).out
<1>1. Decoded(lz, sent) /\ lz.out \in Seq(Alphabet) /\ lz.rep \in Four /\ lz.osize \in Nat
  BY DEF LzmaInv, LzRecord, Decoding
<1>2. Len(lz.out) < lz.osize
  BY DEF Decoding, nowPos
<1>3. m \in Seq(Alphabet) /\ Len(lz.out) = Min({Len(m), lz.osize}) /\ lz.out = SubSeq(m, 1, Len(lz.out))
  BY <1>1 DEF Decoded
<1>4. Len(lz.out) = Len(m)
  <2>1. Len(m) \in Nat
    BY <1>3
  <2> HIDE DEF m
  <2>2. Min({Len(m), lz.osize}) = IF Len(m) <= lz.osize THEN Len(m) ELSE lz.osize
    BY <1>1, <2>1, MinPair
  <2>q. QED
    BY <1>1, <1>2, <1>3, <2>1, <2>2
<1>5. SubSeq(m, 1, Len(m)) = m
  BY <1>3
<1>q. QED
  BY <1>1, <1>2, <1>3, <1>4, <1>5 DEF Decoded

(* What a copy adds, cut at osize. *)
Cut(out, r, len, osize) == Repeated(out, r, Min({len, osize - Len(out)}))

(* What is copied is what is meant, cut at the size of the header.         *)
LEMMA CutIs ==
  ASSUME NEW out \in Seq(Alphabet), NEW r \in 1..Len(out), NEW len \in Nat, NEW osize \in Nat,
         Len(out) <= osize
  PROVE  LET new   == out \o Cut(out, r, len, osize)
             whole == out \o Repeated(out, r, len)
         IN  /\ whole \in Seq(Alphabet) /\ new \in Seq(Alphabet) /\ Len(out) <= Len(new)
             /\ Len(new) = Min({Len(whole), osize}) /\ new = SubSeq(whole, 1, Len(new))
<1> DEFINE L     == Len(out)
           n     == Min({len, osize - L})
           a     == Repeated(out, r, n)
           b     == Repeated(out, r, len)
           new   == out \o a
           whole == out \o b
<1>1. L \in Nat /\ L <= osize
  OBVIOUS
<1> HIDE DEF L
<1>2. n = IF len <= osize - L THEN len ELSE osize - L
  <2>1. osize - L \in Nat
    BY <1>1
  <2>q. QED
    BY <2>1, MinPair
<1> HIDE DEF n
<1>3. n \in Nat /\ n <= len
  BY <1>1, <1>2
<1>4. /\ a \in Seq(Alphabet) /\ Len(a) = n
      /\ \A k \in 1..n : a[k] = out[Len(out) - r + 1 + ((k - 1) % r)]
  BY <1>3, RepeatedIs
<1>5. /\ b \in Seq(Alphabet) /\ Len(b) = len
      /\ \A k \in 1..len : b[k] = out[Len(out) - r + 1 + ((k - 1) % r)]
  BY RepeatedIs
<1> HIDE DEF a, b
<1>10. ASSUME NEW k \in 1..n PROVE a[k] = b[k]
  <2>1. k \in 1..len
    BY <1>3
  <2>q. QED
    BY <1>4, <1>5, <2>1, Zenon
<1>13. a \in Seq(Alphabet) /\ Len(a) = n /\ b \in Seq(Alphabet) /\ Len(b) = len
  BY <1>4, <1>5
<1>6. new \in Seq(Alphabet) /\ Len(new) = L + n /\ whole \in Seq(Alphabet) /\ Len(whole) = L + len
  <2>1. \A s, t \in Seq(Alphabet) : s \o t \in Seq(Alphabet) /\ Len(s \o t) = Len(s) + Len(t)
    OBVIOUS
  <2>q. QED
    BY <1>13, <2>1 DEF L
<1>11. /\ \A k \in 1..L : new[k] = out[k] /\ whole[k] = out[k]
       /\ \A k \in 1..n : new[L + k] = a[k]
       /\ \A k \in 1..len : whole[L + k] = b[k]
  BY <1>3, <1>13 DEF L
<1> HIDE DEF new, whole
<1>7. ASSUME NEW k \in 1..(L + n) PROVE new[k] = whole[k]
  <2>1. CASE k <= L
    <3>1. k \in 1..L
      BY <1>1, <2>1
    <3>q. QED
      BY <1>11, <3>1
  <2>2. CASE k > L
    <3>1. k - L \in 1..n /\ k - L \in 1..len /\ L + (k - L) = k
      BY <1>1, <1>3, <2>2
    <3>2. new[k] = a[k - L] /\ whole[k] = b[k - L]
      BY <1>11, <3>1
    <3>q. QED
      BY <1>10, <3>1, <3>2
  <2>q. QED
    BY <1>1, <1>3, <2>1, <2>2
<1>8. Min({Len(whole), osize}) = L + n
  <2>1. L + len \in Nat
    BY <1>1
  <2>2. Min({L + len, osize}) = IF L + len <= osize THEN L + len ELSE osize
    BY <2>1, MinPair
  <2>q. QED
    BY <1>1, <1>2, <1>6, <2>2
<1>9. new = SubSeq(whole, 1, L + n)
  <2> DEFINE sub == SubSeq(whole, 1, L + n)
  <2>1. sub \in Seq(Alphabet) /\ Len(sub) = L + n /\ \A k \in 1..(L + n) : sub[k] = whole[k]
    BY <1>1, <1>3, <1>6
  <2> HIDE DEF sub
  <2>2. new = sub
    BY <1>6, <1>7, <2>1, SameSeq
  <2>q. QED
    BY <2>2 DEF sub
<1>12. /\ whole \in Seq(Alphabet) /\ new \in Seq(Alphabet) /\ L <= Len(new)
       /\ Len(new) = Min({Len(whole), osize}) /\ new = SubSeq(whole, 1, Len(new))
  BY <1>1, <1>3, <1>6, <1>8, <1>9
<1>q. QED
  BY <1>12 DEF new, whole, n, a, b, L, Cut

LEMMA MeantCopies ==
  ASSUME NEW was, NEW p, p.kind # "literal"
  PROVE  /\ p.kind = "match" =>
              LET reps == <<p.dist>> \o SubSeq(was.reps, 1, 3)
              IN  Meant(was, p) = [reps |-> reps, out |-> was.out \o Repeated(was.out, reps[1], p.len)]
         /\ p.kind = "rep" =>
              LET reps == Used(was.reps, p.dist)
              IN  Meant(was, p) = [reps |-> reps, out |-> was.out \o Repeated(was.out, reps[1], p.len)]
         /\ p.kind = "short" =>
              Meant(was, p) = [reps |-> was.reps, out |-> was.out \o Repeated(was.out, was.reps[1], 1)]
<1>1. ASSUME p.kind = "match" PROVE
        LET reps == <<p.dist>> \o SubSeq(was.reps, 1, 3)
        IN  Meant(was, p) = [reps |-> reps, out |-> was.out \o Repeated(was.out, reps[1], p.len)]
  BY <1>1 DEF Meant, Repeated
<1>2. ASSUME p.kind = "rep" PROVE
        LET reps == Used(was.reps, p.dist)
        IN  Meant(was, p) = [reps |-> reps, out |-> was.out \o Repeated(was.out, reps[1], p.len)]
  BY <1>2 DEF Meant, Repeated
<1>3. ASSUME p.kind = "short" PROVE
        Meant(was, p) = [reps |-> was.reps, out |-> was.out \o Repeated(was.out, was.reps[1], 1)]
  BY <1>3 DEF Meant, Repeated
<1>q. QED
  BY <1>1, <1>2, <1>3

(* A match or a repeated match of packet p.                                *)
LEMMA CopyKeeps ==
  ASSUME LzmaInv, Decoding, NEW p \in Packet, p.kind \in {"match", "rep"},
         NEW rep \in Four, NEW state \in Nat,
         Copy(rep, state, p.len), sent' = Append(sent, p),
         state = Remembers(sent', Len(sent) + 1),
         Meant(All(sent), p) = [reps |-> rep,
           out |-> All(sent).out \o Repeated(All(sent).out, rep[1], p.len)],
         \A i \in 2..4 : rep[i] <= Max({1, nowPos})
  PROVE  LzmaInv'
<1> DEFINE out == lz.out
           len == p.len
<1>1. /\ out = All(sent).out /\ out \in Seq(Alphabet) /\ lz.osize \in Nat /\ Len(out) < lz.osize
      /\ Len(out) \in Nat
  BY DecodingAll
<1>2. sent \in Seq(Packet) /\ sent' \in Seq(Packet) /\ Len(sent') = Len(sent) + 1 /\ lz \in LzRecord
  BY DEF LzmaInv
<1>3. len \in Nat
  BY DEF Packet
<1>4. CASE rep[1] > nowPos
  <2>1. lz' = [lz EXCEPT !.pc = "halt"]
    BY <1>4 DEF Copy, Fail
  <2>q. QED
    BY <1>2, <2>1 DEF LzmaInv, LzRecord
<1>5. CASE ~(rep[1] > nowPos)
  <2>1. lz' = [lz EXCEPT !.out = Copied(@, rep[1], len), !.rep = rep, !.state = state]
    BY <1>5 DEF Copy
  <2>2. rep[1] \in Nat \ {0} /\ rep[1] \in 1..Len(out)
    <3>1. rep[1] \in Nat \ {0}
      BY FourIs
    <3>2. rep[1] <= Len(out)
      BY <1>1, <1>5, <3>1 DEF nowPos
    <3>q. QED
      BY <1>1, <3>1, <3>2
  <2> DEFINE new == out \o Cut(out, rep[1], len, lz.osize)
             whole == out \o Repeated(out, rep[1], len)
  <2>3. Copied(out, rep[1], len) = new
    <3>1. Len(out) <= lz.osize
      BY <1>1
    <3>q. QED
      BY <1>1, <1>3, <2>2, <3>1, CopiedIs DEF Cut
  <2>4. /\ whole \in Seq(Alphabet) /\ new \in Seq(Alphabet) /\ Len(out) <= Len(new)
        /\ Len(new) = Min({Len(whole), lz.osize}) /\ new = SubSeq(whole, 1, Len(new))
    <3>1. Len(out) <= lz.osize /\ rep[1] \in 1..Len(out)
      BY <1>1, <2>2
    <3>2. out \in Seq(Alphabet) /\ lz.osize \in Nat
      BY <1>1
    <3> HIDE DEF out, len
    <3>q. QED
      BY <1>3, <3>1, <3>2, CutIs, ZenonT(40)
  <2>5. All(sent') = [reps |-> rep, out |-> whole]
    BY <1>1, <1>2, AllNext
  <2> HIDE DEF new, whole
  <2>6. /\ lz'.osize = lz.osize /\ lz'.out = new /\ lz'.rep = rep /\ lz'.state = state
        /\ lz'.pc = lz.pc /\ lz'.caches = lz.caches /\ lz' \in LzRecord
    BY <1>2, <2>1, <2>3, <2>4 DEF LzRecord
  <2>9. Len(new) \in Nat /\ Len(out) <= Len(new) /\ rep[1] <= Len(out)
    BY <1>1, <2>2, <2>4
  <2>10. Max({1, nowPos}) = (IF 1 >= Len(out) THEN 1 ELSE Len(out))
    <3>1. nowPos = Len(out)
      BY DEF nowPos
    <3> HIDE DEF out
    <3>q. QED
      BY <1>1, <3>1, MaxPair
  <2>11. Max({1, Len(new)}) = (IF 1 >= Len(new) THEN 1 ELSE Len(new))
    BY <2>9, MaxPair
  <2> HIDE DEF out
  <2>7. ASSUME NEW i \in 1..4 PROVE rep[i] <= Max({1, Len(new)})
    <3>1. CASE i = 1
      BY <1>1, <2>2, <2>9, <2>11, <3>1
    <3>2. CASE i # 1
      <4>1. i \in 2..4 /\ rep[i] \in Nat
        BY <3>2, FourIs
      <4>2. rep[i] <= Max({1, nowPos})
        BY <4>1
      <4>q. QED
        BY <1>1, <2>9, <2>10, <2>11, <4>1, <4>2
    <3>q. QED
      BY <3>1, <3>2
  <2>8. Decoded(lz', sent')
    <3>1. All(sent').out = whole /\ All(sent').reps = rep
      BY <2>5
    <3>2. \A i \in 1..4 : lz'.rep[i] <= Max({1, Len(lz'.out)})
      BY <2>6, <2>7
    <3>q. QED
      BY <1>2, <2>4, <2>6, <3>1, <3>2 DEF Decoded
  <2>q. QED
    BY <1>2, <2>6, <2>8 DEF LzmaInv, Decoding
<1>q. QED
  BY <1>4, <1>5

LEMMA LiteralKeeps == ASSUME LzmaInv, NEW b \in Alphabet, Literal(b) PROVE LzmaInv'
<1> DEFINE p == [kind |-> "literal", byte |-> b]
           out == lz.out
<1>1. Decoding /\ sent' = Append(sent, p)
      /\ lz' = [lz EXCEPT !.out = Append(@, b), !.state = AfterLiteral(@)]
  BY DEF Literal
<1>2. p \in Packet /\ p.kind = "literal" /\ p.byte = b
  BY DEF Packet
<1> HIDE DEF p
<1>3. sent \in Seq(Packet) /\ sent' \in Seq(Packet) /\ Len(sent') = Len(sent) + 1 /\ lz \in LzRecord
  BY <1>1, <1>2 DEF LzmaInv
<1>4. /\ out = All(sent).out /\ out \in Seq(Alphabet) /\ lz.osize \in Nat /\ Len(out) < lz.osize
      /\ lz.rep = All(sent).reps /\ lz.state = Remembers(sent, Len(sent))
      /\ lz.rep \in Four /\ \A i \in 1..4 : lz.rep[i] <= Max({1, Len(out)})
  BY <1>1, DecodingAll
<1> DEFINE new == Append(out, b)
<1>5. new \in Seq(Alphabet) /\ Len(new) = Len(out) + 1 /\ Len(out) \in Nat /\ Len(new) \in Nat
  BY <1>4
<1>6. All(sent') = [reps |-> All(sent).reps, out |-> new]
  <2>1. All(sent') = Meant(All(sent), p)
    BY <1>1, <1>2, <1>3, AllNext
  <2>2. Meant(All(sent), p) = [reps |-> All(sent).reps, out |-> out \o [k \in 1..1 |-> b]]
    BY <1>2, <1>4 DEF Meant
  <2>3. out \o [k \in 1..1 |-> b] = new
    BY <1>4
  <2>q. QED
    BY <2>1, <2>2, <2>3
<1>7. Remembers(sent', Len(sent) + 1) = AfterLiteral(lz.state)
  BY <1>1, <1>2, <1>3, <1>4, RemembersNext
<1>8. AfterLiteral(lz.state) \in Nat
  BY <1>3 DEF AfterLiteral, LzRecord
<1>9. /\ lz'.osize = lz.osize /\ lz'.out = new /\ lz'.rep = lz.rep /\ lz'.state = AfterLiteral(lz.state)
      /\ lz'.pc = lz.pc /\ lz'.caches = lz.caches /\ lz' \in LzRecord
  BY <1>1, <1>3, <1>5, <1>8 DEF LzRecord
<1>10. \A i \in 1..4 : lz'.rep[i] <= Max({1, Len(new)})
  <2> HIDE DEF new, out
  <2>1. Max({1, Len(new)}) = (IF 1 >= Len(new) THEN 1 ELSE Len(new))
    BY <1>5, MaxPair
  <2>2. Max({1, Len(out)}) = (IF 1 >= Len(out) THEN 1 ELSE Len(out))
    BY <1>5, MaxPair
  <2>3. ASSUME NEW i \in 1..4 PROVE lz'.rep[i] <= Max({1, Len(new)})
    <3>1. lz.rep[i] \in Nat /\ lz.rep[i] <= Max({1, Len(out)})
      BY <1>4, FourIs
    <3>q. QED
      BY <1>5, <1>9, <2>1, <2>2, <3>1
  <2>q. QED
    BY <2>3
<1>11. Len(new) = Min({Len(new), lz.osize}) /\ new = SubSeq(new, 1, Len(new))
  <2>1. new = SubSeq(new, 1, Len(new))
    BY <1>5
  <2> HIDE DEF new, out
  <2>2. Min({Len(new), lz.osize}) = IF Len(new) <= lz.osize THEN Len(new) ELSE lz.osize
    BY <1>4, <1>5, MinPair
  <2>q. QED
    BY <1>4, <1>5, <2>1, <2>2
<1> HIDE DEF new, out
<1>12. Decoded(lz', sent')
  <2>1. All(sent').out = new /\ All(sent').reps = lz.rep
    BY <1>4, <1>6
  <2>q. QED
    BY <1>3, <1>5, <1>7, <1>9, <1>10, <1>11, <2>1 DEF Decoded
<1>q. QED
  BY <1>1, <1>3, <1>9, <1>12 DEF LzmaInv, Decoding

LEMMA MatchKeeps ==
  ASSUME LzmaInv, NEW dist \in 1..(nowPos + 1), NEW len \in MatchLengths, Match(dist, len)
  PROVE  LzmaInv'
<1> DEFINE p == [kind |-> "match", dist |-> dist, len |-> len]
           rep == <<dist>> \o SubSeq(lz.rep, 1, 3)
           state == IF lz.state < Lit THEN 7 ELSE 10
<1>1. Decoding /\ sent' = Append(sent, p)
  BY DEF Match
<1>2. nowPos \in Nat /\ dist \in Nat \ {0} /\ len \in Nat \ {0} /\ dist - 1 \in Nat
  <2>1. nowPos \in Nat
    BY <1>1, DecodingAll DEF nowPos
  <2>q. QED
    BY <2>1, LzmaAssumption
<1>3. p \in Packet /\ p.kind = "match" /\ p.dist = dist /\ p.len = len
  BY <1>2 DEF Packet
<1> HIDE DEF p
<1>4. /\ All(sent).out = lz.out /\ All(sent).reps = lz.rep /\ lz.rep \in Four
      /\ \A i \in 1..4 : lz.rep[i] <= Max({1, nowPos})
      /\ lz.state = Remembers(sent, Len(sent))
  BY <1>1, DecodingAll DEF nowPos
<1>5. \A i \in 1..4 : lz.rep[i] \in Nat \ {0}
  BY <1>4, FourIs
<1>6. /\ rep \in Four /\ rep[1] = dist
      /\ \A i \in 2..4 : rep[i] = lz.rep[i - 1]
  <2> DEFINE S == Nat \ {0}
  <2>1. lz.rep \in Seq(S) /\ Len(lz.rep) = 4
    BY <1>4 DEF Four
  <2>2. <<dist>> \in Seq(S) /\ Len(<<dist>>) = 1
    BY <1>2
  <2> HIDE DEF S
  <2>3. SubSeq(lz.rep, 1, 3) \in Seq(S) /\ Len(SubSeq(lz.rep, 1, 3)) = 3
        /\ \A i \in 1..3 : SubSeq(lz.rep, 1, 3)[i] = lz.rep[i]
    BY <2>1
  <2>4. rep \in Seq(S) /\ Len(rep) = 4 /\ rep[1] = dist
    BY <2>2, <2>3
  <2>5. \A i \in 2..4 : rep[i] = lz.rep[i - 1]
    BY <2>2, <2>3
  <2>q. QED
    BY <2>4, <2>5 DEF Four, S
<1>7. Distance(SlotOf(dist - 1), ExtraOf(dist - 1)) + 1 = dist
  BY <1>2, DistanceIs
<1>8. Copy(rep, state, p.len)
  BY <1>3, <1>7 DEF Match
<1>9. Meant(All(sent), p) = [reps |-> rep,
        out |-> All(sent).out \o Repeated(All(sent).out, rep[1], p.len)]
  BY <1>3, <1>4, MeantCopies
<1>10. \A i \in 2..4 : rep[i] <= Max({1, nowPos})
  BY <1>4, <1>6
<1>11. state \in Nat /\ state = Remembers(sent', Len(sent) + 1)
  BY <1>1, <1>3, <1>4, RemembersNext DEF LzmaInv
<1> HIDE DEF rep, state
<1>q. QED
  BY <1>1, <1>3, <1>6, <1>8, <1>9, <1>10, <1>11, CopyKeeps

(* The assignments of the code put the distance that is used in front.     *)
LEMMA RepsAre ==
  ASSUME NEW rep \in Four, NEW i \in 0..3
  PROVE  /\ Reps(rep, i) = Used(rep, i) /\ Reps(rep, i) \in Four
         /\ \A k \in 1..4 : \E j \in 1..4 : Reps(rep, i)[k] = rep[j]
<1> DEFINE S == Nat \ {0}
<1>1. \A k \in 1..4 : rep[k] \in S
  BY FourIs
<1>2. rep \in Seq(S) /\ Len(rep) = 4
  BY DEF Four
<1> HIDE DEF S
<1>3. rep = <<rep[1], rep[2], rep[3], rep[4]>>
  BY <1>2
<1>5. Reps(rep, i) = Used(rep, i)
  <2>1. CASE i = 0
    BY <1>3, <2>1 DEF Reps, Used
  <2>2. CASE i = 1
    <3>1. Reps(rep, i) = <<rep[2], rep[1], rep[3], rep[4]>>
      BY <2>2 DEF Reps
    <3>2. Used(rep, i) = <<rep[2], rep[1], rep[3], rep[4]>>
      BY <2>2 DEF Used
    <3>q. QED
      BY <3>1, <3>2
  <2>3. CASE i = 2
    <3>1. Reps(rep, i) = <<rep[3], rep[1], rep[2], rep[4]>>
      BY <2>3 DEF Reps
    <3>2. Used(rep, i) = <<rep[3], rep[1], rep[2], rep[4]>>
      BY <2>3 DEF Used
    <3>q. QED
      BY <3>1, <3>2
  <2>4. CASE i = 3
    <3>1. Reps(rep, i) = <<rep[4], rep[1], rep[2], rep[3]>>
      BY <2>4 DEF Reps
    <3>2. Used(rep, i) = <<rep[4], rep[1], rep[2], rep[3]>>
      BY <2>4, SMTT(30) DEF Used
    <3>q. QED
      BY <3>1, <3>2
  <2>q. QED
    BY <2>1, <2>2, <2>3, <2>4
<1>6. \E a, b, c, d \in 1..4 : Reps(rep, i) = <<rep[a], rep[b], rep[c], rep[d]>>
  BY <1>3 DEF Reps
<1>7. PICK a \in 1..4, b \in 1..4, c \in 1..4, d \in 1..4 : Reps(rep, i) = <<rep[a], rep[b], rep[c], rep[d]>>
  BY <1>6
<1>8. <<rep[a], rep[b], rep[c], rep[d]>> \in Seq(S)
  BY <1>1
<1>9. Reps(rep, i) \in Four
  <2>1. Len(<<rep[a], rep[b], rep[c], rep[d]>>) = 4
    OBVIOUS
  <2>q. QED
    BY <1>7, <1>8, <2>1, Zenon DEF Four, S
<1>10. \A k \in 1..4 : \E j \in 1..4 : <<rep[a], rep[b], rep[c], rep[d]>>[k] = rep[j]
  OBVIOUS
<1>q. QED
  BY <1>5, <1>7, <1>9, <1>10, Zenon

LEMMA RepMatchKeeps ==
  ASSUME LzmaInv, NEW i \in 0..3, NEW len \in MatchLengths, RepMatch(i, len)
  PROVE  LzmaInv'
<1> DEFINE p == [kind |-> "rep", dist |-> i, len |-> len]
           rep == Reps(lz.rep, i)
           state == IF lz.state < Lit THEN 8 ELSE 11
<1>1. Decoding /\ sent' = Append(sent, p) /\ Copy(rep, state, len)
  BY DEF RepMatch
<1>2. len \in Nat \ {0}
  BY LzmaAssumption
<1>3. p \in Packet /\ p.kind = "rep" /\ p.dist = i /\ p.len = len
  BY <1>2 DEF Packet
<1> HIDE DEF p
<1>4. /\ All(sent).out = lz.out /\ All(sent).reps = lz.rep /\ lz.rep \in Four
      /\ \A k \in 1..4 : lz.rep[k] <= Max({1, nowPos})
      /\ lz.state = Remembers(sent, Len(sent))
  BY <1>1, DecodingAll DEF nowPos
<1>5. /\ rep = Used(lz.rep, i) /\ rep \in Four
      /\ \A k \in 1..4 : \E j \in 1..4 : rep[k] = lz.rep[j]
  BY <1>4, RepsAre
<1>6. Meant(All(sent), p) = [reps |-> rep,
        out |-> All(sent).out \o Repeated(All(sent).out, rep[1], p.len)]
  <2>1. Meant(All(sent), p) = [reps |-> Used(lz.rep, i),
          out |-> All(sent).out \o Repeated(All(sent).out, Used(lz.rep, i)[1], p.len)]
    BY <1>3, <1>4, MeantCopies
  <2>q. QED
    BY <1>5, <2>1
<1>7. state \in Nat /\ state = Remembers(sent', Len(sent) + 1)
  BY <1>1, <1>3, <1>4, RemembersNext DEF LzmaInv
<1> HIDE DEF rep, state
<1>8. \A k \in 2..4 : rep[k] <= Max({1, nowPos})
  BY <1>4, <1>5
<1>q. QED
  BY <1>1, <1>3, <1>5, <1>6, <1>7, <1>8, CopyKeeps

LEMMA ShortRepKeeps == ASSUME LzmaInv, ShortRep PROVE LzmaInv'
<1> DEFINE p == [kind |-> "short"]
           out == lz.out
           state == IF lz.state < Lit THEN 9 ELSE 11
<1>1. Decoding /\ sent' = Append(sent, p)
  BY DEF ShortRep
<1>2. p \in Packet /\ p.kind = "short"
  BY DEF Packet
<1> HIDE DEF p
<1>3. sent \in Seq(Packet) /\ sent' \in Seq(Packet) /\ Len(sent') = Len(sent) + 1 /\ lz \in LzRecord
  BY <1>1, <1>2 DEF LzmaInv
<1>4. /\ out = All(sent).out /\ out \in Seq(Alphabet) /\ lz.osize \in Nat /\ Len(out) < lz.osize
      /\ lz.rep = All(sent).reps /\ lz.state = Remembers(sent, Len(sent))
      /\ lz.rep \in Four /\ \A i \in 1..4 : lz.rep[i] <= Max({1, Len(out)})
  BY <1>1, DecodingAll
<1>5. CASE nowPos = 0
  <2>1. lz' = [lz EXCEPT !.pc = "halt"]
    BY <1>5 DEF ShortRep, Fail
  <2>q. QED
    BY <1>3, <2>1 DEF LzmaInv, LzRecord
<1>6. CASE nowPos # 0
  <2> DEFINE r == lz.rep[1]
             new == Append(out, out[Len(out) + 1 - r])
  <2>0. Len(out) \in Nat /\ Len(out) # 0
    BY <1>4, <1>6 DEF nowPos
  <2>1. lz' = [lz EXCEPT !.out = new, !.state = state]
    BY <1>6 DEF ShortRep
  <2>2. r \in 1..Len(out)
    <3>1. r \in Nat \ {0} /\ r <= Max({1, Len(out)})
      BY <1>4, FourIs
    <3> HIDE DEF r, out
    <3>2. Max({1, Len(out)}) = IF 1 >= Len(out) THEN 1 ELSE Len(out)
      BY <2>0, MaxPair
    <3>q. QED
      BY <2>0, <3>1, <3>2
  <2>3. out \o Repeated(out, r, 1) = new
    <3>0. out \in Seq(Alphabet)
      BY <1>4
    <3> HIDE DEF out, r
    <3>1. Repeated(out, r, 0) \in Seq(Alphabet) /\ Len(Repeated(out, r, 0)) = 0
      BY <2>2, <3>0, RepeatedIs
    <3>2. out \o Repeated(out, r, 0) = out
      BY <3>0, <3>1
    <3>3. \A n \in Nat \ {0} : LET was == out \o Repeated(out, r, n - 1)
                             IN  out \o Repeated(out, r, n) = Append(was, was[Len(out) + n - r])
      BY <2>2, <3>0, RepeatedNext
    <3>4. 1 \in Nat \ {0} /\ 1 - 1 = 0
      OBVIOUS
    <3>5. out \o Repeated(out, r, 1) = Append(out, out[Len(out) + 1 - r])
      BY <3>2, <3>3, <3>4
    <3>q. QED
      BY <3>5 DEF out, r
  <2>4. out[Len(out) + 1 - r] \in Alphabet
    BY <1>4, <2>0, <2>2
  <2>5. new \in Seq(Alphabet) /\ Len(new) = Len(out) + 1 /\ Len(new) \in Nat
    BY <1>4, <2>0, <2>4
  <2>6. All(sent') = [reps |-> lz.rep, out |-> new]
    <3>1. All(sent') = Meant(All(sent), p)
      BY <1>1, <1>2, <1>3, AllNext
    <3>2. Meant(All(sent), p) = [reps |-> lz.rep, out |-> out \o Repeated(out, r, 1)]
      BY <1>2, <1>4, MeantCopies
    <3>q. QED
      BY <2>3, <3>1, <3>2
  <2>7. state \in Nat /\ Remembers(sent', Len(sent) + 1) = state
    BY <1>1, <1>2, <1>3, <1>4, RemembersNext
  <2> HIDE DEF new, state
  <2>8. /\ lz'.osize = lz.osize /\ lz'.out = new /\ lz'.rep = lz.rep /\ lz'.state = state
        /\ lz'.pc = lz.pc /\ lz'.caches = lz.caches /\ lz' \in LzRecord
    BY <1>3, <2>1, <2>5, <2>7 DEF LzRecord
  <2>9. \A i \in 1..4 : lz'.rep[i] <= Max({1, Len(new)})
    <3> HIDE DEF out
    <3>1. Max({1, Len(new)}) = (IF 1 >= Len(new) THEN 1 ELSE Len(new))
      BY <2>5, MaxPair
    <3>2. Max({1, Len(out)}) = (IF 1 >= Len(out) THEN 1 ELSE Len(out))
      BY <2>0, MaxPair
    <3>3. ASSUME NEW i \in 1..4 PROVE lz'.rep[i] <= Max({1, Len(new)})
      <4>1. lz.rep[i] \in Nat /\ lz.rep[i] <= Max({1, Len(out)})
        BY <1>4, FourIs
      <4>q. QED
        BY <2>0, <2>5, <2>8, <3>1, <3>2, <4>1
    <3>q. QED
      BY <3>3
  <2>10. Len(new) = Min({Len(new), lz.osize}) /\ new = SubSeq(new, 1, Len(new))
    <3>1. new = SubSeq(new, 1, Len(new))
      BY <2>5
    <3> HIDE DEF out
    <3>2. Min({Len(new), lz.osize}) = IF Len(new) <= lz.osize THEN Len(new) ELSE lz.osize
      BY <1>4, <2>5, MinPair
    <3>q. QED
      BY <1>4, <2>0, <2>5, <3>1, <3>2
  <2>11. Decoded(lz', sent')
    <3>1. All(sent').out = new /\ All(sent').reps = lz.rep
      BY <2>6
    <3>q. QED
      BY <1>3, <2>5, <2>7, <2>8, <2>9, <2>10, <3>1 DEF Decoded
  <2>q. QED
    BY <1>1, <1>3, <2>8, <2>11 DEF LzmaInv, Decoding
<1>q. QED
  BY <1>5, <1>6

LEMMA LzmaStops ==
  ASSUME LzmaInv, EndMarker \/ Filled \/ BlastCaches \/ StartKernel
  PROVE  LzmaInv'
<1>1. lz \in LzRecord /\ sent \in Seq(Packet) /\ sent' = sent
  BY DEF LzmaInv, EndMarker, Filled, BlastCaches, StartKernel
<1>2. /\ lz'.osize = lz.osize /\ lz'.out = lz.out /\ lz'.rep = lz.rep /\ lz'.state = lz.state
      /\ lz' \in LzRecord /\ lz.pc # "halt" /\ (lz'.pc = "kernel" => lz'.caches)
  BY <1>1 DEF EndMarker, Filled, BlastCaches, StartKernel, Decoding, LzRecord
<1>3. Decoded(lz', sent')
  BY <1>1, <1>2 DEF LzmaInv, Decoded
<1>q. QED
  BY <1>1, <1>2, <1>3 DEF LzmaInv

LEMMA LzmaKept == LzmaInv /\ [LzmaNext]_lzVars => LzmaInv'
<1> SUFFICES ASSUME LzmaInv, [LzmaNext]_lzVars PROVE LzmaInv'
  OBVIOUS
<1>1. CASE UNCHANGED lzVars
  BY <1>1 DEF lzVars, LzmaInv, Decoded, LzRecord
<1>2. ASSUME NEW b \in Alphabet, Literal(b) PROVE LzmaInv'
  BY <1>2, LiteralKeeps
<1>3. ASSUME NEW dist \in 1..(nowPos + 1), NEW len \in MatchLengths, Match(dist, len) PROVE LzmaInv'
  BY <1>3, MatchKeeps
<1>4. ASSUME NEW i \in 0..3, NEW len \in MatchLengths, RepMatch(i, len) PROVE LzmaInv'
  BY <1>4, RepMatchKeeps
<1>5. CASE ShortRep
  BY <1>5, ShortRepKeeps
<1>6. CASE EndMarker \/ Filled \/ BlastCaches \/ StartKernel
  BY <1>6, LzmaStops
<1>q. QED
  BY <1>1, <1>2, <1>3, <1>4, <1>5, <1>6 DEF LzmaNext

LEMMA LzmaShows == LzmaInv => DecodesAsSent
<1> SUFFICES ASSUME LzmaInv PROVE DecodesAsSent
  OBVIOUS
<1>1. After = Meaning(sent)
  BY DEF After, Meaning, IsMeaning, Nothing
<1>2. After[Len(sent)] = All(sent)
  BY <1>1 DEF All
<1>3. lz.pc = "kernel" => lz.caches
  BY DEF LzmaInv
<1>4. ASSUME lz.pc # "halt"
      PROVE  /\ lz.out = SubSeq(After[Len(sent)].out, 1, Len(lz.out))
             /\ Len(lz.out) = Min({Len(After[Len(sent)].out), lz.osize})
             /\ lz.rep = After[Len(sent)].reps
             /\ \A i \in 1..4 : lz.rep[i] <= Max({1, nowPos})
             /\ lz.state = StateOf(Len(sent))
  BY <1>2, <1>4, StateOfIs DEF LzmaInv, Decoded, nowPos
<1>q. QED
  BY <1>3, <1>4 DEF DecodesAsSent

(* The boot loader writes out what the packets mean: whatever packets an   *)
(* encoder chose, the output is their meaning cut at the size in the header*)
(* (a match may overlap what it writes), the four distances and the state  *)
(* are those of the encoder, and the kernel is entered with its code out of*)
(* the data cache (LzmaDecode(), LzmaDecode.c:279-590; entry(), decompress *)
(* .c).                                                                    *)
THEOREM DecodesRight == LzmaSpec => []DecodesAsSent
<1>1. LzmaSpec => []LzmaInv
  BY LzmaStarts, LzmaKept, PTL DEF LzmaSpec
<1>q. QED
  BY <1>1, LzmaShows, PTL

-----------------------------------------------------------------------------
(* mdeps.pl.                                                               *)
CONSTANTS Mod, Matches
VARIABLES deps, loaded, waiting, place
Order == INSTANCE Mdeps WITH resolved <- loaded, modules <- waiting, i <- place

(* A name is found in itself and, which the code takes for granted, in no  *)
(* other.                                                                  *)
NamesApart == IsFiniteSet(Mod) /\ \A d, m \in Mod : <<d, m>> \in Matches <=> d = m

InOrder(q) == \A k \in 1..Len(q) : \A d \in deps[q[k]] : \E l \in 1..(k - 1) : q[l] = d

OrderInv ==
  /\ deps \in [Mod -> SUBSET Mod] /\ Order!Acyclic(deps)
  /\ loaded \in Seq(Mod) /\ waiting \in Seq(Mod) /\ place \in Nat \ {0}
  /\ \A m \in Mod : (\E k \in 1..Len(loaded) : loaded[k] = m) \/ (\E k \in 1..Len(waiting) : waiting[k] = m)
  /\ InOrder(loaded)

LEMMA LinesAre ==
  ASSUME IsFiniteSet(Mod), NEW S \in SUBSET Mod, NEW q \in Order!Lines(S)
  PROVE  q \in Seq(S) /\ \A m \in S : \E k \in 1..Len(q) : q[k] = m
<1>1. IsFiniteSet(S) /\ Cardinality(S) \in Nat
  BY FS_Subset, FS_CardinalityType
<1>2. Order!Cardinality(S) = Cardinality(S)
  BY DEF Order!Cardinality, Cardinality
<1>3. q \in [1..Cardinality(S) -> S] /\ \A m \in S : \E k \in DOMAIN q : q[k] = m
  BY <1>2 DEF Order!Lines, Order!In
<1>4. q \in Seq(S) /\ DOMAIN q = 1..Len(q)
  BY <1>1, <1>3
<1>q. QED
  BY <1>3, <1>4

LEMMA OrderStarts == ASSUME NamesApart, Order!Init PROVE OrderInv
<1> DEFINE free == {m \in Mod : deps[m] = {}}
           bound == {m \in Mod : deps[m] # {}}
<1>1. deps \in [Mod -> SUBSET Mod] /\ Order!Acyclic(deps) /\ place = 1 /\ IsFiniteSet(Mod)
  BY DEF Order!Init, NamesApart
<1>2. loaded \in Order!Lines(free) /\ waiting \in Order!Lines(bound)
  BY DEF Order!Init
<1>s. /\ free \in SUBSET Mod /\ bound \in SUBSET Mod
      /\ \A m \in Mod : m \in free \/ m \in bound
      /\ \A m \in free : deps[m] = {}
  OBVIOUS
<1> HIDE DEF free, bound
<1>3. loaded \in Seq(free) /\ \A m \in free : \E k \in 1..Len(loaded) : loaded[k] = m
  BY <1>1, <1>2, <1>s, LinesAre
<1>4. waiting \in Seq(bound) /\ \A m \in bound : \E k \in 1..Len(waiting) : waiting[k] = m
  BY <1>1, <1>2, <1>s, LinesAre
<1>6. InOrder(loaded)
  <2>1. \A k \in 1..Len(loaded) : loaded[k] \in free
    BY <1>3
  <2>2. \A k \in 1..Len(loaded) : deps[loaded[k]] = {}
    BY <2>1, <1>s
  <2>q. QED
    BY <2>2 DEF InOrder
<1>7. loaded \in Seq(Mod) /\ waiting \in Seq(Mod)
  BY <1>3, <1>4, <1>s
<1>8. \A m \in Mod : \/ \E k \in 1..Len(loaded) : loaded[k] = m
                     \/ \E k \in 1..Len(waiting) : waiting[k] = m
  BY <1>3, <1>4, <1>s, Zenon
<1>9. place \in Nat \ {0}
  BY <1>1
<1>q. QED
  BY <1>1, <1>6, <1>7, <1>8, <1>9 DEF OrderInv

(* A module that is ready has all it depends on in the order. *)
LEMMA ReadyIs ==
  ASSUME NamesApart, deps \in [Mod -> SUBSET Mod], loaded \in Seq(Mod), NEW m \in Mod
  PROVE  Order!Ready(m) <=> \A d \in deps[m] : \E k \in 1..Len(loaded) : loaded[k] = d
<1>1. DOMAIN loaded = 1..Len(loaded) /\ \A k \in 1..Len(loaded) : loaded[k] \in Mod
  OBVIOUS
<1>2. deps[m] \subseteq Mod
  OBVIOUS
<1>q. QED
  BY <1>1, <1>2, ZenonT(40) DEF Order!Ready, NamesApart

LEMMA ResolveKeeps == ASSUME NamesApart, OrderInv, Order!Resolve PROVE OrderInv'
<1> DEFINE n == Len(waiting)
           m == waiting[place]
           before == SubSeq(waiting, 1, place - 1)
           after == SubSeq(waiting, place + 1, n)
<1>1. /\ deps \in [Mod -> SUBSET Mod] /\ loaded \in Seq(Mod) /\ waiting \in Seq(Mod) /\ place \in Nat \ {0}
      /\ n \in Nat /\ Len(loaded) \in Nat
  BY DEF OrderInv
<1>2. /\ place <= n /\ Order!Ready(m) /\ deps' = deps /\ place' = place
      /\ loaded' = Append(loaded, m) /\ waiting' = before \o after
  BY DEF Order!Resolve, Order!Without
<1>3. place \in 1..n /\ m \in Mod
  BY <1>1, <1>2
<1>4. \A d \in deps[m] : \E k \in 1..Len(loaded) : loaded[k] = d
  BY <1>1, <1>2, <1>3, ReadyIs
<1> HIDE DEF m
<1>5. /\ loaded' \in Seq(Mod) /\ Len(loaded') = Len(loaded) + 1 /\ loaded'[Len(loaded) + 1] = m
      /\ \A k \in 1..Len(loaded) : loaded'[k] = loaded[k]
  BY <1>1, <1>2, <1>3
<1>6. /\ waiting' \in Seq(Mod)
      /\ \A k \in 1..n : k # place => \E l \in 1..Len(waiting') : waiting'[l] = waiting[k]
  <2>1. /\ before \in Seq(Mod) /\ Len(before) = place - 1 /\ \A k \in 1..(place - 1) : before[k] = waiting[k]
    BY <1>1, <1>3
  <2>2. /\ after \in Seq(Mod) /\ Len(after) = n - place
        /\ \A k \in 1..(n - place) : after[k] = waiting[place + k]
    BY <1>1, <1>3
  <2> HIDE DEF before, after, n
  <2>3. /\ before \o after \in Seq(Mod) /\ Len(before \o after) = n - 1
        /\ \A k \in 1..(place - 1) : (before \o after)[k] = before[k]
        /\ \A k \in 1..(n - place) : (before \o after)[(place - 1) + k] = after[k]
    <3>1. PICK a \in Nat : a = place - 1
      BY <1>1
    <3>2. PICK b \in Nat : b = n - place
      BY <1>1, <1>3
    <3>3. a + b = n - 1
      BY <1>1, <3>1, <3>2
    <3>4. Len(before) = a /\ Len(after) = b
      BY <2>1, <2>2, <3>1, <3>2
    <3>5. /\ before \o after \in Seq(Mod) /\ Len(before \o after) = a + b
          /\ \A k \in 1..a : (before \o after)[k] = before[k]
          /\ \A k \in 1..b : (before \o after)[a + k] = after[k]
      BY <2>1, <2>2, <3>4
    <3>q. QED
      BY <3>1, <3>2, <3>3, <3>5
  <2>4. ASSUME NEW k \in 1..n, k # place PROVE \E l \in 1..(n - 1) : (before \o after)[l] = waiting[k]
    <3>1. CASE k < place
      <4>1. k \in 1..(place - 1) /\ k \in 1..(n - 1)
        BY <1>1, <1>3, <3>1
      <4>q. QED
        BY <2>1, <2>3, <4>1
    <3>2. CASE k > place
      <4>1. PICK j : j = k - place
        OBVIOUS
      <4>2. j \in 1..(n - place) /\ (place - 1) + j \in 1..(n - 1) /\ place + j = k
        BY <1>1, <1>3, <3>2, <4>1
      <4>q. QED
        BY <2>2, <2>3, <4>2
    <3>3. k < place \/ k > place
      <4>1. k \in Int /\ place \in Int /\ k # place
        BY <1>1, <2>4
      <4>q. QED
        BY <4>1
    <3>q. QED
      BY <3>1, <3>2, <3>3
  <2>q. QED
    BY <1>2, <2>3, <2>4
<1> HIDE DEF n
<1>7. ASSUME NEW x \in Mod
      PROVE  (\E k \in 1..Len(loaded') : loaded'[k] = x) \/ (\E k \in 1..Len(waiting') : waiting'[k] = x)
  <2>1. CASE \E k \in 1..Len(loaded) : loaded[k] = x
    BY <1>1, <1>5, <2>1
  <2>2. CASE \E k \in 1..n : waiting[k] = x
    <3>1. PICK k \in 1..n : waiting[k] = x
      BY <2>2
    <3>2. CASE k = place
      <4>1. loaded'[Len(loaded) + 1] = x /\ Len(loaded) + 1 \in 1..Len(loaded')
        BY <1>1, <1>5, <3>1, <3>2 DEF m
      <4>q. QED
        BY <4>1
    <3>q. QED
      BY <1>6, <3>1, <3>2
  <2>q. QED
    BY <2>1, <2>2 DEF OrderInv, n
<1>8. ASSUME NEW k \in 1..Len(loaded'), NEW d \in deps[loaded'[k]]
      PROVE  \E l \in 1..(k - 1) : loaded'[l] = d
  <2>1. CASE k \in 1..Len(loaded)
    <3>1. PICK l \in 1..(k - 1) : loaded[l] = d
      BY <1>5, <1>8, <2>1 DEF OrderInv, InOrder
    <3>2. l \in 1..Len(loaded)
      BY <1>1, <2>1
    <3>q. QED
      BY <1>5, <3>1, <3>2
  <2>2. CASE k = Len(loaded) + 1
    <3>1. PICK l \in 1..Len(loaded) : loaded[l] = d
      BY <1>4, <1>5, <1>8, <2>2
    <3>2. l \in 1..(k - 1)
      BY <1>1, <2>2
    <3>q. QED
      BY <1>5, <3>1, <3>2
  <2>q. QED
    BY <1>1, <1>5, <2>1, <2>2
<1>9. InOrder(loaded)'
  BY <1>2, <1>8 DEF InOrder
<1>10. Order!Acyclic(deps)'
  BY <1>2 DEF OrderInv, Order!Acyclic
<1>q. QED
  BY <1>1, <1>2, <1>5, <1>6, <1>7, <1>9, <1>10 DEF OrderInv

LEMMA OrderStepKeeps == ASSUME NamesApart, OrderInv, [Order!Next]_(Order!vars) PROVE OrderInv'
<1>1. CASE Order!Resolve
  BY <1>1, ResolveKeeps
<1>2. CASE Order!Skip
  <2>1. deps' = deps /\ loaded' = loaded /\ waiting' = waiting /\ place' = place + 1
    BY <1>2 DEF Order!Skip
  <2>2. place' \in Nat \ {0}
    <3>1. place \in Nat \ {0}
      BY DEF OrderInv
    <3>q. QED
      BY <2>1, <3>1
  <2>q. QED
    BY <2>1, <2>2 DEF OrderInv, InOrder, Order!Acyclic
<1>3. CASE Order!NextPass
  <2>1. deps' = deps /\ loaded' = loaded /\ waiting' = waiting /\ place' = 1
    BY <1>3 DEF Order!NextPass
  <2>2. place' \in Nat \ {0}
    BY <2>1
  <2>q. QED
    BY <2>1, <2>2 DEF OrderInv, InOrder, Order!Acyclic
<1>4. CASE UNCHANGED Order!vars
  BY <1>4 DEF OrderInv, InOrder, Order!Acyclic, Order!vars
<1>q. QED
  BY <1>1, <1>2, <1>3, <1>4 DEF Order!Next

(* When nothing waits any more, every module is in the order and after all *)
(* it depends on; and as long as something waits, the next pass over it    *)
(* finds a module that is ready (mdeps.pl:78-113), for any modules that do *)
(* not depend on one another in a circle and whose names are not parts of  *)
(* one another.                                                            *)
THEOREM LoadsInOrder ==
  NamesApart => (Order!Spec => [](/\ waiting = <<>> => Order!Ordered
                                  /\ waiting # <<>> => \E k \in DOMAIN waiting : Order!Ready(waiting[k])))
<1> SUFFICES ASSUME NamesApart
             PROVE  Order!Spec => [](/\ waiting = <<>> => Order!Ordered
                                     /\ waiting # <<>> => \E k \in DOMAIN waiting : Order!Ready(waiting[k]))
  OBVIOUS
<1>1. ASSUME OrderInv, waiting = <<>> PROVE Order!Ordered
  <2>1. loaded \in Seq(Mod) /\ DOMAIN loaded = 1..Len(loaded)
    BY <1>1 DEF OrderInv
  <2>2. \A m \in Mod : Order!In(m, loaded)
    BY <1>1, <2>1 DEF OrderInv, Order!In
  <2>q. QED
    BY <1>1, <2>1, <2>2 DEF OrderInv, InOrder, Order!Ordered
<1>2. ASSUME OrderInv, waiting # <<>> PROVE \E k \in DOMAIN waiting : Order!Ready(waiting[k])
  <2> DEFINE left == {waiting[k] : k \in DOMAIN waiting}
  <2>1. /\ waiting \in Seq(Mod) /\ loaded \in Seq(Mod) /\ deps \in [Mod -> SUBSET Mod]
        /\ DOMAIN waiting = 1..Len(waiting) /\ Len(waiting) \in Nat /\ Len(waiting) # 0
    BY <1>2 DEF OrderInv
  <2>2. left \in (SUBSET Mod) \ {{}}
    <3>1. waiting[1] \in left
      BY <2>1
    <3>2. \A k \in DOMAIN waiting : waiting[k] \in Mod
      BY <2>1
    <3>q. QED
      BY <3>1, <3>2
  <2>3. PICK m \in left : deps[m] \cap left = {}
    <3> HIDE DEF left
    <3>q. QED
      BY <1>2, <2>2 DEF OrderInv, Order!Acyclic
  <2>4. PICK k \in DOMAIN waiting : waiting[k] = m
    OBVIOUS
  <2>5. m \in Mod
    BY <2>1, <2>4
  <2>6. ASSUME NEW d \in deps[m] PROVE \E l \in 1..Len(loaded) : loaded[l] = d
    <3>1. d \in Mod /\ d \notin left
      BY <2>1, <2>3, <2>5
    <3>2. ~ \E l \in 1..Len(waiting) : waiting[l] = d
      BY <2>1, <3>1
    <3>q. QED
      BY <1>2, <3>1, <3>2 DEF OrderInv
  <2>7. Order!Ready(m)
    BY <2>1, <2>5, <2>6, ReadyIs
  <2>q. QED
    BY <2>4, <2>7
<1>3. OrderInv => /\ waiting = <<>> => Order!Ordered
                  /\ waiting # <<>> => \E k \in DOMAIN waiting : Order!Ready(waiting[k])
  BY <1>1, <1>2
<1>4. Order!Init => OrderInv
  BY OrderStarts
<1>5. OrderInv /\ [Order!Next]_(Order!vars) => OrderInv'
  BY OrderStepKeeps
<1>q. QED
  BY <1>3, <1>4, <1>5, PTL DEF Order!Spec
=============================================================================
