---------------------------- MODULE PatchCmdline ----------------------------
(***************************************************************************)
(* patch-cmdline: puts a command line into a kernel image, in the room     *)
(* after the word CMDLINE: (tools/patch-cmdline/src/patch-cmdline.c).  A   *)
(* file is a function from offsets to what is there.                       *)
(***************************************************************************)
EXTENDS Naturals, Sequences

CONSTANTS Size,        \* of the image
          Marker,      \* the length of CMDLINE:
          CmdlineMax,  \* CMDLINE_MAX, the room with its marker
          Char,        \* characters of command lines
          MaxLen,      \* bound: lengths of command lines
          MaxRuns      \* bound: times the tool is run

ASSUME CmdlineAssumption ==
  /\ Size \in Nat /\ Marker \in Nat /\ CmdlineMax \in Nat /\ Marker < CmdlineMax /\ MaxLen \in Nat

VARIABLE image   \* at: the offset after the marker, or Size; file; arg: the last
                 \* command line; first: the file that was built; runs, ret;
                 \* fits: every line so far was shorter than the room

Room(at) == at..(at + CmdlineMax - Marker - 1)

Linked(at) ==
  LET file == [i \in 0..(Size - 1) |-> IF i \in Room(at) THEN "0" ELSE "image"]
  IN  [at |-> at, file |-> file, first |-> file, arg |-> <<>>, runs |-> 0, ret |-> 0, fits |-> TRUE]

CmdlineInit == \E at \in {Size} \cup (Marker..(Size - CmdlineMax)) : image = Linked(at)

(* Mutant: the room is not cleared. *)
WrittenOver(file, at, arg) ==
  [i \in DOMAIN file |->
     IF i \in at..(at + Len(arg)) THEN (arg \o <<"0">>)[i - at + 1] ELSE file[i]]
(* memset() of the room, then strcpy() with its NUL. *)
Written(file, at, arg) ==
  [i \in DOMAIN file |->
     IF i \in at..(at + Len(arg)) THEN (arg \o <<"0">>)[i - at + 1]
     ELSE IF i \in Room(at) THEN "0" ELSE file[i]]

(* main(): a line that is too long, or an image without the marker, changes nothing. *)
Patch(arg) ==
  /\ image.runs < MaxRuns
  /\ image' = IF Len(arg) > CmdlineMax - 1 \/ image.at = Size
              THEN [image EXCEPT !.runs = @ + 1, !.ret = 1]
              ELSE [image EXCEPT !.runs = @ + 1, !.ret = 0, !.arg = arg,
                                 !.file = Written(@, image.at, arg),
                                 !.fits = @ /\ Len(arg) < CmdlineMax - Marker]

CmdlineNext == \E n \in 0..MaxLen : \E arg \in [1..n -> Char] : Patch(arg)

CmdlineSpec == CmdlineInit /\ [][CmdlineNext]_image

-----------------------------------------------------------------------------
(* Whatever was patched in before, the room holds the last line and zeros, *)
(* and the rest of the image is as it was built, when every line fits into *)
(* the room with its NUL.  The check of the length (patch-cmdline.c:46)     *)
(* forgets the marker, and a line between the two lengths runs over.       *)
LineInRoom ==
  LET room == Room(image.at)
      n    == Len(image.arg)
  IN  image.fits /\ image.at < Size =>
        /\ \A i \in room : image.file[i] = IF i - image.at < n THEN image.arg[i - image.at + 1] ELSE "0"
        /\ \A i \in (DOMAIN image.file) \ room : image.file[i] = image.first[i]
=============================================================================
