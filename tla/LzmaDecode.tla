----------------------------- MODULE LzmaDecode -----------------------------
(***************************************************************************)
(* The boot loader stub: entry() of target/linux/generic/image/lzma-loader/*)
(* src/decompress.c and LzmaDecode() as it is built for it (_LZMA_IN_CB).  *)
(* The range decoder (the RC_ macros) works on bits, with scaled sizes; its*)
(* bytes are whatever the flash holds, read one at a time by read_byte().  *)
(* The packets that its bits spell are chosen.                             *)
(***************************************************************************)
EXTENDS Naturals, Sequences, FiniteSetsExt

(***************************************************************************)
(* The range decoder.                                                      *)
(***************************************************************************)
CONSTANTS Base,        \* values of a byte, 256
          Top,         \* kTopValue, 2^24: the values of three bytes
          Total,       \* kBitModelTotal, 2^11
          Move,        \* 2^kNumMoveBits, 32
          Probs        \* the probabilities that are used

ASSUME RangeAssumption ==
  /\ Base \in Nat \ {0, 1} /\ Top \in Nat /\ Total \in Nat \ {0, 1} /\ Move \in Nat \ {0, 1}
  /\ Total <= Top

VARIABLE rc   \* Code, Range; p: the probabilities; wrong: the stream is
              \* none that an encoder writes

Word == Top * Base   \* values of a UInt32

(* RC_INIT: the first of the five bytes is shifted out again. *)
Started(code) ==
  [Code |-> code, Range |-> Word - 1, p |-> [c \in Probs |-> Total \div 2],
   wrong |-> code >= Word - 1]

RangeInit == \E code \in 0..(Word - 1) : rc = Started(code)

(* RC_NORMALIZE *)
Normalize(b) ==
  /\ rc.Range < Top
  /\ rc' = [rc EXCEPT !.Range = (@ * Base) % Word, !.Code = (@ * Base + b) % Word]

Bound(c) == (rc.Range \div Total) * rc.p[c]

(* UpdateBit0 and UpdateBit1 *)
Bit0(c) ==
  /\ rc.Range >= Top /\ rc.Code < Bound(c)
  /\ rc' = [rc EXCEPT !.Range = Bound(c),
                      !.p[c] = @ + ((Total - @) \div Move)]

(* Mutant: the code keeps what lies below its part of the range.           *)
Bit1Keeps(c) ==
  /\ rc.Range >= Top /\ rc.Code >= Bound(c)
  /\ rc' = [rc EXCEPT !.Range = @ - Bound(c), !.p[c] = @ - (@ \div Move)]
Bit1(c) ==
  /\ rc.Range >= Top /\ rc.Code >= Bound(c)
  /\ rc' = [rc EXCEPT !.Range = @ - Bound(c), !.Code = @ - Bound(c),
                      !.p[c] = @ - (@ \div Move)]

(* One of the direct bits of a distance. *)
Direct ==
  /\ rc.Range >= Top
  /\ LET half == rc.Range \div 2
     IN  rc' = [rc EXCEPT !.Range = half, !.Code = IF @ >= half THEN @ - half ELSE @,
                          !.wrong = @ \/ rc.Code >= 2 * half]

RangeNext ==
  (\E b \in 0..(Base - 1) : Normalize(b)) \/ (\E c \in Probs : Bit0(c) \/ Bit1(c)) \/ Direct

RangeSpec == RangeInit /\ [][RangeNext]_rc

-----------------------------------------------------------------------------
(* The code stays inside the range, however the stream goes on, so that    *)
(* what an encoder wrote is decided by the next bits alone; no probability *)
(* reaches 0 or 1, and both values of a bit keep a part of the range       *)
(* (LzmaDecode.c:56-64).  No encoder writes a stream that starts with four *)
(* bytes of ones, or that uses the last value of an odd range that a direct*)
(* bit halves.                                                             *)
RangeSound ==
  /\ rc.wrong \/ rc.Code < rc.Range
  /\ \A c \in Probs : rc.p[c] \in 1..(Total - 1) /\ (rc.Range >= Top => Bound(c) \in 1..(rc.Range - 1))

-----------------------------------------------------------------------------
(***************************************************************************)
(* The packets.                                                            *)
(***************************************************************************)
CONSTANTS Alphabet,      \* values of bytes
          OutSizes,      \* sizes in the header
          MatchLengths,  \* lengths of matches, from kMatchMinLen
          MaxSent        \* bound: packets

ASSUME LzmaAssumption == OutSizes \subseteq Nat /\ MatchLengths \subseteq Nat \ {0}

VARIABLES lz,     \* osize; out: the output; rep: rep0 to rep3; state; pc;
                  \* caches: they are written back
          sent    \* the packets so far: their kind, distance or index, and length

lzVars == <<lz, sent>>

Lit == 7                                       \* kNumLitStates
nowPos == Len(lz.out)

(* entry() reads the header a byte at a time and skips what it does not use. *)
Entered(osize) ==
  [osize |-> osize, out |-> <<>>, rep |-> <<1, 1, 1, 1>>, state |-> 0,
   pc |-> "decode", caches |-> FALSE]

LzmaInit == (\E osize \in OutSizes : lz = Entered(osize)) /\ sent = <<>>

Decoding == lz.pc = "decode" /\ nowPos < lz.osize /\ Len(sent) < MaxSent

Fail == lz' = [lz EXCEPT !.pc = "halt"]

AfterLiteral(state) == IF state < 4 THEN 0 ELSE IF state < 10 THEN state - 3 ELSE state - 6

Literal(b) ==
  /\ Decoding
  /\ lz' = [lz EXCEPT !.out = Append(@, b), !.state = AfterLiteral(@)]
  /\ sent' = Append(sent, [kind |-> "literal", byte |-> b])

(* Copies one byte at a time, so that a match may overlap what it writes;  *)
(* it stops at outSize.                                                    *)
Copied(out, rep0, len) ==
  LET n == Min({len, lz.osize - Len(out)})
      all[i \in 0..n] == IF i = 0 THEN out ELSE Append(all[i - 1], all[i - 1][Len(out) + i - rep0])
  IN  all[n]

(* A match or repeated match, once its distance is known. *)
Copy(rep, state, len) ==
  IF rep[1] > nowPos THEN Fail
  ELSE lz' = [lz EXCEPT !.out = Copied(@, rep[1], len), !.rep = rep, !.state = state]

(* 1 << n *)
Power(n) == LET p[i \in 0..n] == IF i = 0 THEN 1 ELSE 2 * p[i - 1] IN p[n]

(* How a distance less one, d, is spelled: its two leading bits as posSlot, *)
(* then the others.                                                        *)
Log(d) == CHOOSE n \in 0..d : Power(n) <= d /\ d < Power(n + 1)
SlotOf(d) == IF d < 4 THEN d ELSE 2 * Log(d) + ((d \div Power(Log(d) - 1)) % 2)
ExtraOf(d) == IF d < 4 THEN 0 ELSE d % Power(Log(d) - 1)

(* rep0 from them; 2^32 - 1 ends the stream. *)
Distance(slot, extra) ==
  IF slot < 4 THEN slot ELSE (2 + (slot % 2)) * Power((slot \div 2) - 1) + extra

Match(dist, len) ==
  /\ Decoding
  /\ Copy(<<Distance(SlotOf(dist - 1), ExtraOf(dist - 1)) + 1>> \o SubSeq(lz.rep, 1, 3),
          IF lz.state < Lit THEN 7 ELSE 10, len)
  /\ sent' = Append(sent, [kind |-> "match", dist |-> dist, len |-> len])

EndMarker ==
  /\ Decoding
  /\ lz' = [lz EXCEPT !.pc = "decoded"]
  /\ UNCHANGED sent

ShortRep ==
  /\ Decoding
  /\ IF nowPos = 0 THEN Fail
     ELSE lz' = [lz EXCEPT !.out = Append(@, @[Len(@) + 1 - lz.rep[1]]),
                           !.state = IF @ < Lit THEN 9 ELSE 11]
  /\ sent' = Append(sent, [kind |-> "short"])

(* Mutant: rep3 is not moved up when it is used. *)
RepsStay(rep, i) ==
  CASE i = 0 -> rep
    [] i = 1 -> <<rep[2], rep[1], rep[3], rep[4]>>
    [] i = 2 -> <<rep[3], rep[1], rep[2], rep[4]>>
    [] i = 3 -> <<rep[4], rep[1], rep[2], rep[4]>>
(* The distance that is used comes first, by the assignments of the code. *)
Reps(rep, i) ==
  CASE i = 0 -> rep
    [] i = 1 -> <<rep[2], rep[1], rep[3], rep[4]>>
    [] i = 2 -> <<rep[3], rep[1], rep[2], rep[4]>>
    [] i = 3 -> <<rep[4], rep[1], rep[2], rep[3]>>

RepMatch(i, len) ==
  /\ Decoding
  /\ Copy(Reps(lz.rep, i), IF lz.state < Lit THEN 8 ELSE 11, len)
  /\ sent' = Append(sent, [kind |-> "rep", dist |-> i, len |-> len])

Filled ==
  /\ lz.pc = "decode" /\ nowPos >= lz.osize
  /\ lz' = [lz EXCEPT !.pc = "decoded"]
  /\ UNCHANGED sent

(* LZMA_RESULT_OK: the data cache is written back and the instruction cache*)
(* emptied before the kernel is entered; after an error nothing is done.   *)
BlastCaches ==
  /\ lz.pc = "decoded" /\ ~lz.caches
  /\ lz' = [lz EXCEPT !.caches = TRUE]
  /\ UNCHANGED sent

StartKernel ==
  /\ lz.pc = "decoded" /\ lz.caches
  /\ lz' = [lz EXCEPT !.pc = "kernel"]
  /\ UNCHANGED sent

LzmaNext ==
  \/ \E b \in Alphabet : Literal(b)
  \/ \E dist \in 1..(nowPos + 1), len \in MatchLengths : Match(dist, len)
  \/ \E i \in 0..3, len \in MatchLengths : RepMatch(i, len)
  \/ ShortRep \/ EndMarker \/ Filled \/ BlastCaches \/ StartKernel

LzmaSpec == LzmaInit /\ [][LzmaNext]_lzVars

-----------------------------------------------------------------------------
(* What the format means: distances and output after a number of packets,  *)
(* a used distance going to the front of the list.                         *)
Used(reps, i) ==
  [k \in 1..4 |-> IF k = 1 THEN reps[i + 1] ELSE reps[IF k <= i + 1 THEN k - 1 ELSE k]]
Meant(was, p) ==
  LET reps    == CASE p.kind \in {"literal", "short"} -> was.reps
                   [] p.kind = "match" -> <<p.dist>> \o SubSeq(was.reps, 1, 3)
                   [] p.kind = "rep" -> Used(was.reps, p.dist)
      len     == IF p.kind \in {"match", "rep"} THEN p.len ELSE 1
      from(k) == Len(was.out) - reps[1] + 1 + ((k - 1) % reps[1])
  IN  [reps |-> reps,
       out |-> was.out \o [k \in 1..len |-> IF p.kind = "literal" THEN p.byte
                                            ELSE was.out[from(k)]]]
After[n \in 0..Len(sent)] ==
  IF n = 0 THEN [out |-> <<>>, reps |-> <<1, 1, 1, 1>>] ELSE Meant(After[n - 1], sent[n])

(* The class that the state remembers of the packet at k. *)
IsLiteral(k) == k < 1 \/ sent[k].kind = "literal"
Class(k) ==
  CASE sent[k].kind = "match" -> 0
    [] sent[k].kind = "short" /\ IsLiteral(k - 1) -> 2
    [] OTHER -> 1

StateOf(n) ==
  CASE ~IsLiteral(n) -> IF IsLiteral(n - 1) THEN 7 + Class(n) ELSE 10 + Class(n)
    [] IsLiteral(n) /\ ~IsLiteral(n - 1) -> 4 + Class(n - 1)
    [] IsLiteral(n) /\ IsLiteral(n - 1) /\ ~IsLiteral(n - 2) -> 1 + Class(n - 2)
    [] OTHER -> 0

(* Unless it stops with an error, the decoder has written what the packets *)
(* mean, cut at the size of the header; it keeps the four last distances   *)
(* in order of use, none before the start of the output, and its state is  *)
(* the one the encoder has after the same packets (LzmaDecode.c:279-590).  *)
(* The kernel is entered with its code out of the data cache.              *)
DecodesAsSent ==
  /\ lz.pc # "halt" =>
       LET n == Len(sent)
           meant == After[n].out
       IN  /\ lz.out = SubSeq(meant, 1, Len(lz.out))
           /\ Len(lz.out) = Min({Len(meant), lz.osize})
           /\ lz.rep = After[n].reps
           /\ \A i \in 1..4 : lz.rep[i] <= Max({1, nowPos})
           /\ lz.state = StateOf(n)
  /\ lz.pc = "kernel" => lz.caches
=============================================================================
