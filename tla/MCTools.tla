------------------------------ MODULE MCTools -------------------------------
(***************************************************************************)
(* The tools that make and start a firmware image, on small images: the    *)
(* order of its kernel modules, sstrip, padjffs2, zyimage, patch-cmdline   *)
(* and the boot loader stub.  They work on files of their own, so each     *)
(* behaviour is of one of them.                                            *)
(***************************************************************************)
EXTENDS PadImage, Sstrip, PatchCmdline, ZyImage, LzmaDecode, Integers

CONSTANTS Mod

VARIABLES part, deps, resolved, modules, i

mdeps == <<deps, resolved, modules, i>>
toolVars == <<part, mdeps, pad, strip, zy, image, rc, lz, sent>>

OwnName == {<<m, m>> : m \in Mod}
Seg(null, offset, filesz, memsz) ==
  [null |-> null, offset |-> offset, filesz |-> filesz, memsz |-> memsz]

Order == INSTANCE Mdeps WITH Matches <- OwnName

ToolLengths == 0..20
ToolSegments ==
  {Seg(FALSE, 0, 8, 8), Seg(FALSE, 0, 4, 4), Seg(FALSE, 4, 3, 5), Seg(FALSE, 6, 2, 2),
   Seg(TRUE, 5, 3, 3), Seg(FALSE, 2, 1, 3)}

(* Where a tool is not the one at work, its variable has one value. *)
Off == "off"
NoImage == [image |-> <<>>, bytes |-> <<>>, signs |-> <<>>, runs |-> 0]
NoProgram == Given([size |-> EhdrSize, nonzero |-> {}, phdrs |-> <<>>, shoff |-> 0], FALSE)

Init ==
  /\ part \in {"mdeps", "padjffs2", "sstrip", "zyimage", "cmdline", "range", "lzma"}
  /\ IF part = "mdeps" THEN Order!Init ELSE deps = Off /\ resolved = Off /\ modules = Off /\ i = Off
  /\ IF part = "padjffs2" THEN PadInit ELSE pad = Asked(0, {})
  /\ IF part = "sstrip" THEN StripInit ELSE strip = NoProgram
  /\ IF part = "zyimage" THEN ZyInit ELSE zy = NoImage
  /\ IF part = "cmdline" THEN CmdlineInit ELSE image = Linked(Size)
  /\ IF part = "range" THEN RangeInit ELSE rc = Started(0)
  /\ IF part = "lzma" THEN LzmaInit ELSE lz = Entered(0) /\ sent = <<>>

MdepsStep == part = "mdeps" /\ Order!Next /\ UNCHANGED <<part, pad, strip, zy, image, rc, lz, sent>>

Next ==
  \/ MdepsStep
  \/ part = "padjffs2" /\ PadNext /\ UNCHANGED <<part, mdeps, strip, zy, image, rc, lz, sent>>
  \/ part = "sstrip" /\ StripNext /\ UNCHANGED <<part, mdeps, pad, zy, image, rc, lz, sent>>
  \/ part = "zyimage" /\ ZyNext /\ UNCHANGED <<part, mdeps, pad, strip, image, rc, lz, sent>>
  \/ part = "cmdline" /\ CmdlineNext /\ UNCHANGED <<part, mdeps, pad, strip, zy, rc, lz, sent>>
  \/ part = "range" /\ RangeNext /\ UNCHANGED <<part, mdeps, pad, strip, zy, image, lz, sent>>
  \/ part = "lzma" /\ LzmaNext /\ UNCHANGED <<part, mdeps, pad, strip, zy, image, rc>>

(* mdeps.pl is one process that nothing stops. *)
Spec == Init /\ [][Next]_toolVars /\ WF_toolVars(MdepsStep)

-----------------------------------------------------------------------------
(* mdeps.pl: the loop ends with every module in the order, after what it   *)
(* needs.                                                                  *)
DepsFirst == <>(part # "mdeps" \/ Order!Ordered)
=============================================================================
