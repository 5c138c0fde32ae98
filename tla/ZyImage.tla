------------------------------ MODULE ZyImage -------------------------------
(***************************************************************************)
(* zyimage: appends a signature with a CRC of the image, unless it has one *)
(* (tools/zyimage/src/zyimage.c).  A word is the set of its bits that are  *)
(* 1, and ^ the symmetric difference.                                      *)
(***************************************************************************)
EXTENDS Naturals, Sequences, FiniteSetsExt

CONSTANTS Width,       \* bits of crc
          ByteBits,    \* bits of a byte
          Poly,        \* poly
          MaxImage,    \* bound: bytes of an image
          MaxSigns     \* bound: times the tool is run

ASSUME ZyAssumption ==
  /\ Width \in Nat /\ ByteBits \in 0..Width
  /\ Poly \subseteq 0..(Width - 1)

VARIABLE zy   \* image: what was built; bytes, signs: the file, bytes and the
              \* signatures behind them; runs: of the tool

Byte == SUBSET (0..(ByteBits - 1))
Ones == 0..(Width - 1)

Right(crc, n) == {i \in Ones : i + n \in crc}          \* crc >> n

(* One turn of the loop on j in chksum_crc32gentab(), which is also one    *)
(* step of the bit-serial CRC.                                             *)
Shift(crc) == IF 0 \in crc THEN SymDiff(Right(crc, 1), Poly) ELSE Right(crc, 1)
crc_tab == [i \in Byte |->
  LET turn[j \in 0..ByteBits] == IF j = 0 THEN i ELSE Shift(turn[j - 1]) IN turn[ByteBits]]

(* Mutant: the table is indexed by the byte alone. *)
ChksumByteOnly(crc, b) == SymDiff(Right(crc, ByteBits), crc_tab[b])
ChksumByte(crc, b) ==
  SymDiff(Right(crc, ByteBits), crc_tab[SymDiff(crc, b) \cap (0..(ByteBits - 1))])

chksum_crc32(bytes) ==
  LET crc[i \in 0..Len(bytes)] == IF i = 0 THEN Ones ELSE ChksumByte(crc[i - 1], bytes[i])
  IN  crc[Len(bytes)]

ZyInit ==
  \E n \in 0..MaxImage : \E image \in [1..n -> Byte] :
    zy = [image |-> image, bytes |-> image, signs |-> <<>>, runs |-> 0]

(* main(): the magic is looked for where a signature ends the file.  The   *)
(* result of fwrite() is not looked at.                                    *)
Sign(version) ==
  /\ zy.runs < MaxSigns
  /\ \/ zy' = [zy EXCEPT !.runs = @ + 1]
     \/ /\ zy.signs = <<>>
        /\ zy' = [zy EXCEPT !.runs = @ + 1,
             !.signs = <<[version |-> version, crc32 |-> chksum_crc32(zy.bytes)]>>]

ZyNext == \E version \in {"default", "given"} : Sign(version)

ZySpec == ZyInit /\ [][ZyNext]_zy

-----------------------------------------------------------------------------
(* The remainder taken one bit at a time, the lowest of a byte first. *)
BitsTaken(crc, b) ==
  LET rem[j \in 0..ByteBits] ==
        IF j = 0 THEN crc ELSE Shift(SymDiff(rem[j - 1], IF j - 1 \in b THEN {0} ELSE {}))
  IN  rem[ByteBits]
BitCrc(bytes) ==
  LET rem[i \in 0..Len(bytes)] == IF i = 0 THEN Ones ELSE BitsTaken(rem[i - 1], bytes[i])
  IN  rem[Len(bytes)]

(* However often the tool is run, the file is the image with at most one   *)
(* signature, whose CRC, computed a byte at a time with a table (zyimage.c:*)
(* 33-57), is the bit by bit remainder of all the image.                   *)
SignedOnce ==
  /\ zy.bytes = zy.image /\ Len(zy.signs) <= 1
  /\ \A i \in DOMAIN zy.signs : zy.signs[i].crc32 = BitCrc(zy.image)
=============================================================================
