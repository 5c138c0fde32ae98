------------------------------ MODULE Download ------------------------------
(***************************************************************************)
(* Fetching a source archive (scripts/download.pl, run by the rule for     *)
(* $(DL_DIR)/$(FILE) in include/download.mk).  Each job is one run of the  *)
(* script for the same file: make starts one per package, host package or  *)
(* build variant that needs the archive, and no lock is taken.             *)
(*                                                                         *)
(* A file is a sequence of blocks, and a checksum is the sequence it was   *)
(* computed from (no collisions).  A directory entry also records which    *)
(* jobs hold the file open for writing, because a write goes to the file   *)
(* that was opened, whatever its name is by then.                          *)
(***************************************************************************)
EXTENDS Integers, Sequences, FiniteSets

CONSTANTS Job,       \* runs of download.pl for one file name
          Mirrors,   \* @mirrors, after the @SF, @GNU... prefixes are expanded
          Copies,    \* for each file:// mirror: how many instances find(1) sees, or NoDir
          Size,      \* blocks of the archive
          HashCmd,   \* FALSE when the package says HASH=skip
          MaxKills   \* bound on the runs killed

NoDir == -1
Local == DOMAIN Copies

ASSUME DownloadAssumption ==
  /\ Job # {} /\ IsFiniteSet(Job)
  /\ Size \in Nat \ {0}
  /\ MaxKills \in Nat
  /\ HashCmd \in BOOLEAN
  /\ \A m \in Local : Copies[m] \in Nat \cup {NoDir}
  /\ Mirrors \in Seq({Mirrors[i] : i \in DOMAIN Mirrors})

VARIABLES
  dir,      \* the entries $filename.dl, $filename.hash and $filename
  pc,       \* where each job is
  left,     \* the mirrors each job has yet to try
  got,      \* the blocks the current transfer has delivered
  dot,      \* perl's $. for TMPDLS: the lines read since it was last closed
  kills

vars == <<dir, pc, left, got, dot, kills>>

Name == {"dl", "hash", "target"}
Block == {"ok", "bad"}
Whole == [i \in 1..Size |-> "ok"]
Blank == <<"blank">>                              \* a checksum file not yet written
NoFile == [data |-> <<"none">>, open |-> {}]
Exists(n) == dir[n] # NoFile

Resting == {"idle", "done", "died"}

TypeOK ==
  /\ pc \in [Job -> Resting \cup {"loop", "open", "transfer", "sum", "verify", "unlink", "move"}]
  /\ \A n \in Name : Len(dir[n].data) <= Size /\ dir[n].open \subseteq Job
  /\ \A j \in Job : /\ Len(got[j]) <= Size
                    /\ Len(left[j]) <= Len(Mirrors)
                    /\ dot[j] \in Nat
  /\ kills \in 0..MaxKills

Init ==
  /\ dir = [n \in Name |-> NoFile]
  /\ pc = [j \in Job |-> "idle"]
  /\ left = [j \in Job |-> <<>>]
  /\ got = [j \in Job |-> <<>>]
  /\ dot = [j \in Job |-> 0]
  /\ kills = 0

(* Directory operations. *)
OpenFor(d, n, j, blank) ==
  [d EXCEPT ![n] = [data |-> blank, open |-> @.open \cup {j}]]
CloseAll(d, j) == [n \in Name |-> [d[n] EXCEPT !.open = @ \ {j}]]
cleanup(d) == [d EXCEPT !["dl"] = NoFile, !["hash"] = NoFile]
PutBlock(data, i, b) ==
  [k \in 1..(IF i > Len(data) THEN i ELSE Len(data)) |->
     IF k = i THEN b ELSE IF k \in DOMAIN data THEN data[k] ELSE "hole"]

Goto(j, l) == pc' = [pc EXCEPT ![j] = l]

-----------------------------------------------------------------------------
(* Mutants: the name is filled before the checksum is compared; a job goes *)
(* on to the next mirror although the file is there.                       *)
VerifyAny(j) ==
  /\ pc[j] = "verify"
  /\ UNCHANGED <<left, got, dot, kills>>
  /\ IF dir["hash"] = NoFile \/ dir["hash"].data = Blank
     THEN Goto(j, "died") /\ UNCHANGED dir
     ELSE Goto(j, "unlink") /\ UNCHANGED dir
LoopBlind(j) ==
  /\ pc[j] = "loop"
  /\ got' = [got EXCEPT ![j] = <<>>]
  /\ UNCHANGED <<dir, dot, kills>>
  /\ \/ left[j] = <<>> /\ Goto(j, "done") /\ UNCHANGED left
     \/ left[j] # <<>> /\ left' = [left EXCEPT ![j] = Tail(@)] /\ Goto(j, "open")

(* make runs the rule only while the file is missing. *)
Start(j) ==
  /\ pc[j] \in Resting /\ ~Exists("target")
  /\ left' = [left EXCEPT ![j] = Mirrors]
  /\ dot' = [dot EXCEPT ![j] = 0]
  /\ Goto(j, "loop")
  /\ UNCHANGED <<dir, got, kills>>

(* One turn of the loop at the bottom of the script. *)
Loop(j) ==
  /\ pc[j] = "loop"
  /\ got' = [got EXCEPT ![j] = <<>>]
  /\ UNCHANGED <<dir, dot, kills>>
  /\ \/ Exists("target") /\ Goto(j, "done") /\ UNCHANGED left
     \/ ~Exists("target") /\ left[j] = <<>> /\ Goto(j, "died") /\ UNCHANGED left
     \/ /\ ~Exists("target") /\ left[j] # <<>>
        /\ left' = [left EXCEPT ![j] = Tail(@)]
        /\ Goto(j, "open")

(* The mirror download() was called with: the last one shifted off the list. *)
Current(j) == Mirrors[Len(Mirrors) - Len(left[j])]

(* find(1) in a local cache: read its lines until the counter passes one. *)
Several(j) == Copies[Current(j)] > 0 /\ dot[j] + Copies[Current(j)] > 1
LinesRead(j) == IF dot[j] = 0 THEN 2 ELSE dot[j] + 1

LocalMisses(j) ==
  /\ pc[j] = "open" /\ Current(j) \in Local
  /\ Goto(j, "loop")
  /\ UNCHANGED <<left, got, kills>>
  /\ \/ Copies[Current(j)] = NoDir /\ dir' = cleanup(dir) /\ UNCHANGED dot
     \/ /\ Several(j)
        /\ dot' = [dot EXCEPT ![j] = LinesRead(j)]
        /\ UNCHANGED dir
     \/ /\ Copies[Current(j)] = 0
        /\ dot' = [dot EXCEPT ![j] = 0]
        /\ UNCHANGED dir

CopyStarts(j) ==
  /\ pc[j] = "open" /\ Current(j) \in Local
  /\ Copies[Current(j)] > 0 /\ ~Several(j)
  /\ dot' = [dot EXCEPT ![j] = 0]
  /\ dir' = OpenFor(dir, "dl", j, <<>>)
  /\ Goto(j, "transfer")
  /\ UNCHANGED <<left, got, kills>>

FetchStarts(j) ==
  /\ pc[j] = "open" /\ Current(j) \notin Local
  /\ UNCHANGED <<left, got, dot, kills>>
  /\ \/ /\ dir' = OpenFor(IF HashCmd THEN OpenFor(dir, "hash", j, Blank) ELSE dir, "dl", j, <<>>)
        /\ Goto(j, "transfer")
     \/ dir' = CloseAll(dir, j) /\ Goto(j, "died")     \* a command or file cannot be opened

(* A block arrives, intact or not, and goes to the file opened as .dl. *)
Transfer(j, b) ==
  /\ pc[j] = "transfer" /\ Len(got[j]) < Size
  /\ got' = [got EXCEPT ![j] = Append(@, b)]
  /\ dir' = [n \in Name |-> IF n # "hash" /\ j \in dir[n].open
                            THEN [dir[n] EXCEPT !.data = PutBlock(@, Len(got[j]) + 1, b)]
                            ELSE dir[n]]
  /\ UNCHANGED <<pc, left, dot, kills>>

(* The copy ended, complete or not: the result of copy() is not looked at. *)
CopyEnds(j) ==
  /\ pc[j] = "transfer" /\ Current(j) \in Local
  /\ dir' = CloseAll(dir, j)
  /\ Goto(j, IF HashCmd THEN "sum" ELSE "unlink")
  /\ UNCHANGED <<left, got, dot, kills>>

(* cat .dl | sha256sum > .hash; a .dl that is gone sums as an empty file. *)
SumLocal(j) ==
  /\ pc[j] = "sum"
  /\ UNCHANGED <<left, got, dot, kills>>
  /\ \/ /\ dir' = [dir EXCEPT !["hash"].data = IF Exists("dl") THEN dir["dl"].data ELSE <<>>]
        /\ Goto(j, "verify")
     \/ Goto(j, "loop") /\ UNCHANGED dir

(* The fetch command ended: the checksum of what it delivered is written,  *)
(* and an exit status counts as failure.  A command killed by a signal has *)
(* ($? >> 8) = 0, so any number of blocks may pass as a success.           *)
FetchEnds(j) ==
  /\ pc[j] = "transfer" /\ Current(j) \notin Local
  /\ UNCHANGED <<left, got, dot, kills>>
  /\ LET summed == IF j \in dir["hash"].open THEN [dir EXCEPT !["hash"].data = got[j]] ELSE dir
         closed == CloseAll(summed, j)
     IN  \/ dir' = closed /\ Goto(j, IF HashCmd THEN "verify" ELSE "unlink")
         \/ dir' = cleanup(closed) /\ Goto(j, "loop")

Verify(j) ==
  /\ pc[j] = "verify"
  /\ UNCHANGED <<left, got, dot, kills>>
  /\ LET sum == dir["hash"].data
     IN  \/ /\ dir["hash"] = NoFile \/ sum = Blank
            /\ Goto(j, "died") /\ UNCHANGED dir
         \/ /\ Exists("hash") /\ sum # Blank /\ sum # Whole
            /\ dir' = cleanup(dir) /\ Goto(j, "loop")
         \/ sum = Whole /\ Goto(j, "unlink") /\ UNCHANGED dir

Unlink(j) ==
  /\ pc[j] = "unlink"
  /\ dir' = [dir EXCEPT !["target"] = NoFile]
  /\ Goto(j, "move")
  /\ UNCHANGED <<left, got, dot, kills>>

(* mv .dl onto the name (or fail when it is gone), then cleanup(). *)
Move(j) ==
  /\ pc[j] = "move"
  /\ dir' = cleanup([dir EXCEPT !["target"] = IF Exists("dl") THEN dir["dl"] ELSE @])
  /\ Goto(j, "loop")
  /\ UNCHANGED <<left, got, dot, kills>>

(* The build is interrupted: cleanup() is not yet the handler of SIGINT.   *)
Kill(j) ==
  /\ pc[j] \notin Resting /\ kills < MaxKills
  /\ dir' = CloseAll(dir, j)
  /\ Goto(j, "idle")
  /\ kills' = kills + 1
  /\ UNCHANGED <<left, got, dot>>

(* make package/.../clean removes the archive. *)
Clean ==
  /\ \A j \in Job : pc[j] \in Resting
  /\ Exists("target")
  /\ dir' = [dir EXCEPT !["target"] = NoFile]
  /\ UNCHANGED <<pc, left, got, dot, kills>>

Next ==
  \/ Clean
  \/ \E j \in Job :
       \/ Start(j) \/ Loop(j) \/ LocalMisses(j) \/ CopyStarts(j) \/ FetchStarts(j)
       \/ \E b \in Block : Transfer(j, b)
       \/ CopyEnds(j) \/ SumLocal(j) \/ FetchEnds(j) \/ Verify(j) \/ Unlink(j) \/ Move(j)
       \/ Kill(j)

Spec == Init /\ [][Next]_vars

-----------------------------------------------------------------------------
(* The archive under its final name has the requested checksum: whatever   *)
(* the mirrors deliver, and wherever an earlier run was killed, the move   *)
(* at download.pl:178 publishes only a .dl that matched at 170.            *)
Verified == HashCmd /\ Exists("target") => dir["target"].data = Whole

(* A good archive stays until it is cleaned: no later run of the script    *)
(* takes it away again, although download() unlinks the name first (177).  *)
KeepsWhole ==
  [][dir["target"].data = Whole => dir'["target"].data = Whole \/ Clean]_vars
=============================================================================
