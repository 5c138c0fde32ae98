--------------------------- MODULE DownloadProofs ---------------------------
(***************************************************************************)
(* Proofs about Download when one run of download.pl at a time works on a  *)
(* file: for any mirrors, caches, sizes and kills.                         *)
(***************************************************************************)
EXTENDS Download, TLAPS

Datum == {"ok", "bad", "hole", "none", "blank"}
Between == {"open", "transfer", "sum", "verify", "unlink", "move"}

Entry == [data : Seq(Datum), open : SUBSET Job]

Types ==
  /\ dir \in [Name -> Entry]
  /\ pc \in [Job -> Resting \cup {"loop"} \cup Between]
  /\ got \in [Job -> Seq(Block)]

\* What job j has done so far, where its next steps rely on it.
Fetched(j) ==
  /\ Len(got[j]) <= Size
  /\ pc[j] # "transfer" => j \notin dir["dl"].open
  /\ pc[j] = "open" => got[j] = <<>>
  /\ pc[j] = "transfer" =>
       /\ j \in dir["dl"].open /\ dir["dl"].data = got[j]
       /\ HashCmd /\ Current(j) \notin Local => j \in dir["hash"].open
  /\ pc[j] = "sum" => Exists("dl")
  /\ pc[j] = "verify" => dir["hash"].data = dir["dl"].data
  /\ HashCmd /\ pc[j] \in {"unlink", "move"} => dir["dl"].data = Whole

\* The final name is free while j works, and nobody writes under it.
Published(j) ==
  /\ dir["target"].open = {}
  /\ pc[j] \in Between => ~Exists("target")

\* The inductive invariant.  Verified is not inductive: it does not say that what
\* will be moved is what was summed.
IInv == Types /\ Verified /\ \A j \in Job : Fetched(j) /\ Published(j)

USE DownloadAssumption DEF Goto, Name, Datum, Block, Resting, Between

\* No archive looks like a missing file.
LEMMA NotNone == Whole # NoFile.data /\ \A s \in Seq(Block) : s # NoFile.data
<1>1. Whole[1] = "ok"
  BY DEF Whole
<1>2. \A s \in Seq(Block) : s # <<"none">>
  <2> SUFFICES ASSUME NEW s \in Seq(Block), s = <<"none">> PROVE FALSE
    OBVIOUS
  <2>1. Len(s) = 1 /\ s[1] = "none"
    OBVIOUS
  <2>2. s[1] \in Block
    BY <2>1
  <2>3. QED
    BY <2>1, <2>2
<1>3. QED
  BY <1>1, <1>2 DEF NoFile

\* Writing the next block of a file that has one writer appends it.
LEMMA PutNext ==
  ASSUME NEW s \in Seq(Block), NEW b \in Block
  PROVE  PutBlock(s, Len(s) + 1, b) = Append(s, b)
<1>1. PutBlock(s, Len(s) + 1, b) = [k \in 1..(Len(s) + 1) |-> IF k = Len(s) + 1 THEN b ELSE s[k]]
  BY DEF PutBlock
<1>2. QED
  BY <1>1

\* A missing file and an empty one are entries.
LEMMA NoFileIs ==
  /\ NoFile \in Entry /\ NoFile.open = {}
  /\ Blank \in Seq(Datum) /\ <<>> \in Seq(Datum) /\ <<>> \in Seq(Block)
  BY DEF NoFile, Entry, Blank

\* cleanup() removes .dl and .hash.
LEMMA CleanupIs ==
  ASSUME NEW d \in [Name -> Entry]
  PROVE  /\ cleanup(d) \in [Name -> Entry]
         /\ cleanup(d)["target"] = d["target"]
         /\ cleanup(d)["dl"] = NoFile /\ cleanup(d)["hash"] = NoFile
  BY NoFileIs DEF cleanup

\* Closing leaves the contents alone.
LEMMA CloseAllIs ==
  ASSUME NEW d \in [Name -> Entry], NEW j \in Job
  PROVE  /\ CloseAll(d, j) \in [Name -> Entry]
         /\ \A n \in Name : /\ CloseAll(d, j)[n].data = d[n].data
                            /\ CloseAll(d, j)[n].open = d[n].open \ {j}
                            /\ j \notin d[n].open => CloseAll(d, j)[n] = d[n]
  BY DEF CloseAll, Entry

\* Writing to a file changes its contents and nothing else.
LEMMA WriteIs ==
  ASSUME NEW d \in [Name -> Entry], NEW n \in Name, NEW x \in Seq(Datum)
  PROVE  LET e == [d EXCEPT ![n].data = x]
         IN  /\ e \in [Name -> Entry]
             /\ e[n].data = x /\ e[n].open = d[n].open
             /\ \A k \in Name \ {n} : e[k] = d[k]
<1> USE DEF Entry
<1> DEFINE e == [d EXCEPT ![n].data = x]
<1>1. e = [d EXCEPT ![n] = [d[n] EXCEPT !.data = x]]
  OBVIOUS
<1>2. d[n] \in Entry /\ [d[n] EXCEPT !.data = x] \in Entry
  OBVIOUS
<1>3. [d[n] EXCEPT !.data = x].data = x /\ [d[n] EXCEPT !.data = x].open = d[n].open
  BY <1>2
<1> HIDE DEF Entry
<1>4. QED
  BY <1>1, <1>2, <1>3

\* Nothing is fetched at first.
LEMMA InitIInv == Init => IInv
  BY NoFileIs DEF Init, IInv, Types, Verified, Fetched, Published, Exists

\* A run begins while the name is free.
LEMMA StartIInv ==
  ASSUME NEW j \in Job, Job = {j}, IInv, Start(j)
  PROVE  IInv'
<1> USE DEF IInv, Types, Exists
<1>1. Types'
  BY DEF Start
<1>2. Fetched(j)'
  BY DEF Fetched, Start
<1>3. Published(j)'
  BY DEF Published, Start
<1>4. Verified'
  BY DEF Published, Verified, Start
<1>5. QED
  BY <1>1, <1>2, <1>3, <1>4

\* A turn ends with the file there or with the name still free.
LEMMA LoopIInv ==
  ASSUME NEW j \in Job, Job = {j}, IInv, Loop(j)
  PROVE  IInv'
<1> USE DEF IInv, Types, Exists
<1>1. Types'
  BY DEF Loop
<1>2. Fetched(j)'
  BY DEF Fetched, Loop
<1>3. Published(j)'
  BY DEF Published, Loop
<1>4. Verified'
  BY DEF Published, Verified, Loop
<1>5. QED
  BY <1>1, <1>2, <1>3, <1>4

\* A local cache that cannot serve leaves at most less debris.
LEMMA LocalMissesIInv ==
  ASSUME NEW j \in Job, Job = {j}, IInv, LocalMisses(j)
  PROVE  IInv'
<1> USE DEF IInv, Types, Exists
<1>1. Types'
  BY CleanupIs DEF LocalMisses
<1>2. Fetched(j)'
  BY NoFileIs, CleanupIs DEF Fetched, LocalMisses
<1>3. Published(j)'
  BY CleanupIs DEF Published, LocalMisses
<1>4. Verified'
  BY CleanupIs DEF Published, Verified, LocalMisses
<1>5. QED
  BY <1>1, <1>2, <1>3, <1>4

\* Opening .dl truncates what a killed run left.
LEMMA CopyStartsIInv ==
  ASSUME NEW j \in Job, Job = {j}, IInv, CopyStarts(j)
  PROVE  IInv'
<1> USE DEF IInv, Types, Exists
<1>0. /\ dir' \in [Name -> Entry] /\ dir'["target"] = dir["target"]
      /\ dir'["dl"].data = <<>> /\ j \in dir'["dl"].open
  <2>1. "dl" \in Name /\ <<>> \in Seq(Datum) /\ dir' = OpenFor(dir, "dl", j, <<>>)
    BY DEF CopyStarts
  <2>2. QED
    BY <2>1 DEF OpenFor, Entry
<1>1. Types'
  BY <1>0 DEF CopyStarts
<1>2. Fetched(j)'
  BY <1>0 DEF Fetched, Current, CopyStarts
<1>3. Published(j)' /\ Verified'
  BY <1>0 DEF Published, Verified, CopyStarts
<1>4. QED
  BY <1>1, <1>2, <1>3

\* So does a fetch, which opens .hash as well.
LEMMA FetchStartsIInv ==
  ASSUME NEW j \in Job, Job = {j}, IInv, FetchStarts(j)
  PROVE  IInv'
<1> USE DEF IInv, Types, Exists
<1>0. CASE pc'[j] = "transfer"
  <2> DEFINE opened == IF HashCmd THEN OpenFor(dir, "hash", j, Blank) ELSE dir
  <2>1. dir' = OpenFor(opened, "dl", j, <<>>)
    BY <1>0 DEF FetchStarts
  <2>2. /\ opened \in [Name -> Entry] /\ opened["target"] = dir["target"]
        /\ HashCmd => j \in opened["hash"].open
    <3>1. "hash" \in Name /\ Blank \in Seq(Datum) /\ dir \in [Name -> Entry]
      BY NoFileIs
    <3>2. QED
      BY <3>1 DEF OpenFor, Entry
  <2> HIDE DEF opened
  <2>3. /\ dir' \in [Name -> Entry] /\ dir'["target"] = dir["target"]
        /\ dir'["dl"].data = <<>> /\ j \in dir'["dl"].open
        /\ HashCmd => j \in dir'["hash"].open
    <3>1. "dl" \in Name /\ <<>> \in Seq(Datum)
      BY NoFileIs
    <3>2. QED
      BY <3>1, <2>1, <2>2 DEF OpenFor, Entry
  <2>4. Types'
    BY <2>3 DEF FetchStarts
  <2>5. Fetched(j)'
    BY <1>0, <2>3 DEF Fetched, FetchStarts
  <2>6. Published(j)' /\ Verified'
    BY <2>3 DEF Published, Verified, FetchStarts
  <2>7. QED
    BY <2>4, <2>5, <2>6
<1>1. CASE pc'[j] # "transfer"
  <2>1. dir' = CloseAll(dir, j) /\ pc'[j] = "died"
    BY <1>1 DEF FetchStarts
  <2>2. Types' /\ dir'["target"] = dir["target"] /\ j \notin dir'["dl"].open
    BY <2>1, CloseAllIs DEF Published, FetchStarts
  <2>3. QED
    BY <2>1, <2>2 DEF Fetched, Published, Verified, FetchStarts
<1>2. QED
  BY <1>0, <1>1

\* The copy is in .dl, however far it came.
LEMMA CopyEndsIInv ==
  ASSUME NEW j \in Job, Job = {j}, IInv, CopyEnds(j)
  PROVE  IInv'
<1> USE DEF IInv, Types, Exists
<1>0. /\ dir' \in [Name -> Entry] /\ dir'["target"] = dir["target"]
      /\ dir'["dl"].data = got[j] /\ j \notin dir'["dl"].open
  <2>1. dir \in [Name -> Entry] /\ dir' = CloseAll(dir, j)
    BY DEF CopyEnds
  <2>2. dir["dl"].data = got[j] /\ j \notin dir["target"].open
    BY DEF Fetched, Published, CopyEnds
  <2>3. /\ CloseAll(dir, j) \in [Name -> Entry]
        /\ \A n \in Name : /\ CloseAll(dir, j)[n].data = dir[n].data
                           /\ CloseAll(dir, j)[n].open = dir[n].open \ {j}
                           /\ j \notin dir[n].open => CloseAll(dir, j)[n] = dir[n]
    BY <2>1, CloseAllIs
  <2> HIDE DEF IInv, Types
  <2>4. QED
    BY <2>1, <2>2, <2>3
<1>1. Types'
  BY <1>0 DEF CopyEnds
<1>2. Fetched(j)'
  BY <1>0, NotNone DEF Fetched, CopyEnds
<1>3. Published(j)' /\ Verified'
  BY <1>0 DEF Published, Verified, CopyEnds
<1>4. QED
  BY <1>1, <1>2, <1>3

\* The checksum is taken from .dl itself.
LEMMA SumLocalIInv ==
  ASSUME NEW j \in Job, Job = {j}, IInv, SumLocal(j)
  PROVE  IInv'
<1> USE DEF IInv, Types, Exists
<1>0. /\ dir' \in [Name -> Entry] /\ dir'["target"] = dir["target"] /\ dir'["dl"] = dir["dl"]
      /\ pc'[j] = "verify" => dir'["hash"].data = dir["dl"].data
  <2>1. Exists("dl") /\ dir["dl"].data \in Seq(Datum)
    BY DEF Fetched, SumLocal, Entry
  <2>2. CASE dir' = [dir EXCEPT !["hash"].data = dir["dl"].data]
    <3>1. dir \in [Name -> Entry] /\ "hash" \in Name
      OBVIOUS
    <3> HIDE DEF IInv, Types
    <3>2. /\ dir' \in [Name -> Entry] /\ dir'["hash"].data = dir["dl"].data
          /\ \A k \in Name \ {"hash"} : dir'[k] = dir[k]
      BY <2>1, <2>2, <3>1, WriteIs
    <3>3. QED
      BY <3>2
  <2>3. CASE dir' = dir /\ pc'[j] = "loop"
    BY <2>3
  <2>4. QED
    BY <2>1, <2>2, <2>3 DEF SumLocal
<1>1. Types'
  BY <1>0 DEF SumLocal
<1>2. Fetched(j)'
  BY <1>0 DEF Fetched, SumLocal
<1>3. Published(j)' /\ Verified'
  BY <1>0 DEF Published, Verified, SumLocal
<1>4. QED
  BY <1>1, <1>2, <1>3

\* The checksum is that of the blocks delivered, and these are in .dl.
LEMMA FetchEndsIInv ==
  ASSUME NEW j \in Job, Job = {j}, IInv, FetchEnds(j)
  PROVE  IInv'
<1> USE DEF IInv, Types, Exists
<1> DEFINE summed == IF j \in dir["hash"].open THEN [dir EXCEPT !["hash"].data = got[j]] ELSE dir
           closed == CloseAll(summed, j)
<1>0. /\ summed \in [Name -> Entry] /\ summed["target"] = dir["target"] /\ summed["dl"] = dir["dl"]
      /\ HashCmd => summed["hash"].data = dir["dl"].data
  <2>1. got[j] \in Seq(Datum)
    OBVIOUS
  <2>2. dir \in [Name -> Entry] /\ "hash" \in Name
    OBVIOUS
  <2>3. dir["dl"].data = got[j] /\ (HashCmd => j \in dir["hash"].open)
    BY DEF Fetched, FetchEnds
  <2> HIDE DEF IInv, Types
  <2>4. CASE j \in dir["hash"].open
    <3>1. summed = [dir EXCEPT !["hash"].data = got[j]]
      BY <2>4
    <3> HIDE DEF summed
    <3>2. /\ summed \in [Name -> Entry] /\ summed["hash"].data = got[j]
          /\ \A k \in Name \ {"hash"} : summed[k] = dir[k]
      BY <2>1, <2>2, <3>1, WriteIs
    <3>3. QED
      BY <2>3, <3>2
  <2>5. CASE j \notin dir["hash"].open
    BY <2>2, <2>3, <2>5
  <2>6. QED
    BY <2>4, <2>5
<1> HIDE DEF summed
<1>1. /\ closed \in [Name -> Entry] /\ closed["target"] = dir["target"]
      /\ closed["dl"].data = dir["dl"].data /\ j \notin closed["dl"].open
      /\ HashCmd => closed["hash"].data = closed["dl"].data
  <2>1. j \notin summed["target"].open
    BY <1>0 DEF Published
  <2>2. /\ closed \in [Name -> Entry]
        /\ \A n \in Name : /\ closed[n].data = summed[n].data
                           /\ closed[n].open = summed[n].open \ {j}
                           /\ j \notin summed[n].open => closed[n] = summed[n]
    BY <1>0, CloseAllIs
  <2> HIDE DEF IInv, Types, closed
  <2>3. closed["target"] = dir["target"] /\ closed["dl"].data = dir["dl"].data
    BY <1>0, <2>1, <2>2
  <2>4. j \notin closed["dl"].open /\ closed["hash"].data = summed["hash"].data
    BY <2>2
  <2>5. QED
    BY <1>0, <2>2, <2>3, <2>4
<1>2. \/ dir' = closed /\ pc' = [pc EXCEPT ![j] = IF HashCmd THEN "verify" ELSE "unlink"]
      \/ dir' = cleanup(closed) /\ pc' = [pc EXCEPT ![j] = "loop"]
  BY DEF FetchEnds, summed
<1> HIDE DEF closed
<1>3. /\ dir' \in [Name -> Entry] /\ dir'["target"] = dir["target"] /\ j \notin dir'["dl"].open
  BY <1>1, <1>2, CleanupIs, NoFileIs
<1>4. Types'
  BY <1>2, <1>3 DEF FetchEnds
<1>5. Fetched(j)'
  BY <1>1, <1>2, <1>3 DEF Fetched, FetchEnds
<1>6. Published(j)' /\ Verified'
  BY <1>2, <1>3 DEF Published, Verified, FetchEnds
<1>7. QED
  BY <1>4, <1>5, <1>6

\* A match means that .dl is the archive.
LEMMA VerifyIInv ==
  ASSUME NEW j \in Job, Job = {j}, IInv, Verify(j)
  PROVE  IInv'
<1> USE DEF IInv, Types, Exists
<1>1. Types'
  BY CleanupIs DEF Verify
<1>2. Fetched(j)'
  BY NoFileIs, CleanupIs DEF Fetched, Verify
<1>3. Published(j)'
  BY CleanupIs DEF Published, Verify
<1>4. Verified'
  BY CleanupIs DEF Published, Verified, Verify
<1>5. QED
  BY <1>1, <1>2, <1>3, <1>4

\* Unlinking takes nothing away: the name was free.
LEMMA UnlinkIInv ==
  ASSUME NEW j \in Job, Job = {j}, IInv, Unlink(j)
  PROVE  IInv'
<1> USE DEF IInv, Types, Exists
<1>1. Types'
  BY NoFileIs DEF Unlink
<1>2. Fetched(j)'
  BY DEF Fetched, Unlink
<1>3. Published(j)'
  BY DEF Published, Unlink
<1>4. Verified'
  BY DEF Published, Verified, Unlink
<1>5. QED
  BY <1>1, <1>2, <1>3, <1>4

\* What is moved to the name matched.
LEMMA MoveIInv ==
  ASSUME NEW j \in Job, Job = {j}, IInv, Move(j)
  PROVE  IInv'
<1> USE DEF IInv, Types, Exists
<1>1. Types'
  BY CleanupIs DEF Move
<1>2. Fetched(j)'
  BY NoFileIs, CleanupIs DEF Fetched, Move
<1>3. Published(j)'
  BY CleanupIs, ZenonT(40) DEF Fetched, Published, Move, Entry
<1>4. Verified'
  BY CleanupIs DEF Fetched, Published, Verified, Move
<1>5. QED
  BY <1>1, <1>2, <1>3, <1>4

\* A killed run leaves .dl and .hash, and the name alone.
LEMMA KillIInv ==
  ASSUME NEW j \in Job, Job = {j}, IInv, Kill(j)
  PROVE  IInv'
<1> USE DEF IInv, Types, Exists
<1>0. /\ dir' \in [Name -> Entry] /\ dir'["target"] = dir["target"] /\ j \notin dir'["dl"].open
  <2>1. dir \in [Name -> Entry] /\ dir' = CloseAll(dir, j) /\ j \notin dir["target"].open
    BY DEF Published, Kill
  <2>2. /\ CloseAll(dir, j) \in [Name -> Entry]
        /\ \A n \in Name : /\ CloseAll(dir, j)[n].open = dir[n].open \ {j}
                           /\ j \notin dir[n].open => CloseAll(dir, j)[n] = dir[n]
    BY <2>1, CloseAllIs
  <2> HIDE DEF IInv, Types
  <2>3. QED
    BY <2>1, <2>2
<1>1. Types'
  BY <1>0 DEF Kill
<1>2. Fetched(j)'
  BY <1>0 DEF Fetched, Kill
<1>3. Published(j)' /\ Verified'
  BY <1>0 DEF Published, Verified, Kill
<1>4. QED
  BY <1>1, <1>2, <1>3

\* A block goes to the end of .dl.
LEMMA TransferIInv ==
  ASSUME NEW j \in Job, Job = {j}, IInv, NEW b \in Block, Transfer(j, b)
  PROVE  IInv'
<1> USE DEF IInv, Types, Exists
<1>0. /\ got[j] \in Seq(Block) /\ Append(got[j], b) \in Seq(Block)
      /\ Append(got[j], b) \in Seq(Datum) /\ Len(Append(got[j], b)) = Len(got[j]) + 1
  OBVIOUS
<1>1. dir' = [dir EXCEPT !["dl"].data = Append(got[j], b)]
  <2>1. j \in dir["dl"].open /\ dir["dl"].data = got[j] /\ j \notin dir["target"].open
    BY DEF Fetched, Published, Transfer
  <2>2. PutBlock(dir["dl"].data, Len(got[j]) + 1, b) = Append(got[j], b)
    BY <2>1, <1>0, PutNext
  <2>3. QED
    BY <2>1, <2>2 DEF Transfer
<1>2. /\ dir' \in [Name -> Entry] /\ dir'["target"] = dir["target"] /\ dir'["hash"] = dir["hash"]
      /\ dir'["dl"].data = Append(got[j], b) /\ dir'["dl"].open = dir["dl"].open
  <2> DEFINE new == Append(got[j], b)
  <2>1. dir \in [Name -> Entry] /\ "dl" \in Name /\ new \in Seq(Datum)
    BY <1>0
  <2>0. dir' = [dir EXCEPT !["dl"].data = new]
    BY <1>1
  <2> HIDE DEF IInv, Types, new
  <2>2. /\ dir' \in [Name -> Entry]
        /\ dir'["dl"].data = new /\ dir'["dl"].open = dir["dl"].open
        /\ \A k \in Name \ {"dl"} : dir'[k] = dir[k]
    BY <2>0, <2>1, WriteIs
  <2> USE DEF new
  <2>3. QED
    BY <2>2
<1>3. Types' /\ got'[j] = Append(got[j], b)
  BY <1>0, <1>2 DEF Transfer
<1>4. Fetched(j)'
  BY <1>0, <1>2, <1>3 DEF Fetched, Current, Transfer
<1>5. Published(j)' /\ Verified'
  BY <1>2 DEF Published, Verified, Transfer
<1>6. QED
  BY <1>3, <1>4, <1>5

\* Cleaning happens while no run is under way.
LEMMA CleanIInv ==
  ASSUME NEW j \in Job, Job = {j}, IInv, Clean
  PROVE  IInv'
  BY NoFileIs DEF IInv, Types, Verified, Fetched, Published, Exists, Current, Clean

\* Every step keeps the invariant.
LEMMA NextIInv ==
  ASSUME NEW j \in Job, Job = {j}
  PROVE  IInv /\ [Next]_vars => IInv'
<1> SUFFICES ASSUME IInv, [Next]_vars PROVE IInv'
  OBVIOUS
<1>1. ASSUME NEW b \in Block, Transfer(j, b) PROVE IInv'
  BY <1>1, TransferIInv
<1>2. CASE UNCHANGED vars
  BY <1>2 DEF IInv, Types, Verified, Fetched, Published, Exists, Current, vars
<1>3. QED
  BY <1>1, <1>2, CleanIInv, StartIInv, LoopIInv, LocalMissesIInv, CopyStartsIInv,
     FetchStartsIInv, CopyEndsIInv, SumLocalIInv, FetchEndsIInv, VerifyIInv, UnlinkIInv,
     MoveIInv, KillIInv
     DEF Next

\* Only Clean takes away what is there under the final name: a job that found it
\* missing unlinks and moves while it is missing still.
LEMMA TargetStays ==
  ASSUME NEW j \in Job, Job = {j}, IInv, Next
  PROVE  dir'["target"] = dir["target"] \/ dir["target"] = NoFile \/ Clean
<1> USE DEF IInv, Types
<1>1. CASE pc[j] \in Between
  BY <1>1 DEF Published, Exists
<1>2. CASE pc[j] \notin Between
  <2>1. CASE Start(j) \/ Loop(j)
    BY <2>1 DEF Start, Loop
  <2>2. CASE Kill(j)
    BY <2>2, CloseAllIs DEF Published, Kill
  <2>3. QED
    BY <1>2, <2>1, <2>2 DEF Next, LocalMisses, CopyStarts, FetchStarts, Transfer, CopyEnds,
       SumLocal, FetchEnds, Verify, Unlink, Move
<1>3. QED
  BY <1>1, <1>2

-----------------------------------------------------------------------------
(* The properties.                                                         *)

\* With one run at a time, the archive under its final name has the checksum that
\* was asked for, whatever mirrors and caches deliver and wherever runs are killed.
THEOREM VerifiedAlone ==
  ASSUME NEW j \in Job, Job = {j}
  PROVE  Spec => []Verified
<1>1. Init => IInv
  BY InitIInv
<1>2. IInv /\ [Next]_vars => IInv'
  BY NextIInv
<1>3. IInv => Verified
  BY DEF IInv
<1>4. QED
  BY <1>1, <1>2, <1>3, PTL DEF Spec

\* With one run at a time, a good archive stays until it is cleaned.
THEOREM KeptAlone ==
  ASSUME NEW j \in Job, Job = {j}
  PROVE  Spec => KeepsWhole
<1>1. Init => IInv
  BY InitIInv
<1>2. IInv /\ [Next]_vars => IInv'
  BY NextIInv
<1>3. IInv /\ [Next]_vars
        => [dir["target"].data = Whole => dir'["target"].data = Whole \/ Clean]_vars
  BY TargetStays, NotNone
<1>4. QED
  BY <1>1, <1>2, <1>3, PTL DEF Spec, KeepsWhole
=============================================================================
