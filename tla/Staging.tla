------------------------------ MODULE Staging -------------------------------
(***************************************************************************)
(* The staging directory that packages install headers and libraries into  *)
(* (include/package.mk, scripts/clean-package.sh).  The recipes of several *)
(* packages run in parallel; those of one package do not (.NOTPARALLEL).   *)
(* Only the list and the copy are done under flock(1); what was installed  *)
(* before is removed without it.                                           *)
(*                                                                         *)
(* The tree is one level deep: a file or symbolic link lies in a directory *)
(* of STAGING_DIR.  Every stage also has the directory host, which is made *)
(* before Build/InstallDev runs.                                           *)
(***************************************************************************)
EXTENDS Integers, FiniteSets

CONSTANTS Pkg,
          File,      \* regular files and symbolic links, each installed by one package
          Owner,     \* the package of a file
          DirOf,     \* the directory of a file
          Target,    \* for each symbolic link, the file it names
          Builds,    \* for each package, the sets of files its builds may install
          MaxKills   \* bound on the recipes killed

Host == "host"
NoOne == "nobody"
Dir == {Host} \cup {DirOf[f] : f \in File}
Link == DOMAIN Target

ASSUME StagingAssumption ==
  /\ DOMAIN Owner = File /\ \A f \in File : Owner[f] \in Pkg
  /\ DOMAIN DirOf = File /\ Dir \cap File = {}
  /\ Link \subseteq File /\ \A f \in Link : Target[f] \in File \ Link
  /\ DOMAIN Builds = Pkg /\ NoOne \notin Pkg
  /\ \A p \in Pkg : Builds[p] # {} /\ \A S \in Builds[p] : \A f \in S : f \in File /\ Owner[f] = p
  /\ MaxKills \in Nat

VARIABLES
  files, dirs,   \* what STAGING_DIR holds
  list,          \* packages/$(STAGING_FILES_LIST) of each package, {} when there is none
  built,         \* what Build/InstallDev of the current build installs
  stamp,         \* STAMP_INSTALLED: missing, older than STAMP_BUILT, or up to date
  pc, after,     \* where a package's recipe is, and where clean-package.sh returns to
  todo,          \* entries clean-package.sh or cp has yet to visit
  making,        \* the directory cp found missing and is about to make
  fail,          \* why cp failed, if it did
  holder,        \* who holds the staging-dir lock
  kills

vars == <<files, dirs, list, built, stamp, pc, after, todo, making, fail, holder, kills>>

NotBuilt == {Host}       \* no STAMP_BUILT, or one older than STAMP_CONFIGURED
Contents(S) == S \cup {Host} \cup {DirOf[f] : f \in S}     \* find ./ in the stage

TypeOK ==
  /\ files \subseteq File /\ dirs \subseteq Dir
  /\ \A f \in files : DirOf[f] \in dirs
  /\ list \in [Pkg -> SUBSET (File \cup Dir)]
  /\ \A p \in Pkg : built[p] \in Builds[p] \cup {NotBuilt}
  /\ stamp \in [Pkg -> {"missing", "old", "fresh"}]
  /\ pc \in [Pkg -> {"idle", "clean", "build", "purge", "lock", "list", "copy", "mkdir", "touch"}]
  /\ after \in [Pkg -> {"idle", "build", "purge", "lock"}]
  /\ todo \in [Pkg -> SUBSET (File \cup Dir)]
  /\ making \in [Pkg -> Dir]
  /\ fail \in [Pkg -> {"no", "exists", "gone"}]
  /\ holder \in Pkg \cup {NoOne}
  /\ kills \in 0..MaxKills

Init ==
  /\ files = {} /\ dirs = {}
  /\ list = [p \in Pkg |-> {}]
  /\ built = [p \in Pkg |-> NotBuilt]
  /\ stamp = [p \in Pkg |-> "missing"]
  /\ pc = [p \in Pkg |-> "idle"]
  /\ after = [p \in Pkg |-> "idle"]
  /\ todo = [p \in Pkg |-> {}]
  /\ making = [p \in Pkg |-> Host]
  /\ fail = [p \in Pkg |-> "no"]
  /\ holder = NoOne
  /\ kills = 0

Goto(p, l) == pc' = [pc EXCEPT ![p] = l]

-----------------------------------------------------------------------------
(* clean-package.sh on the list p has now; an absent list is skipped. *)
CallClean(p, ret) ==
  /\ todo' = [todo EXCEPT ![p] = list[p]]
  /\ after' = [after EXCEPT ![p] = ret]
  /\ Goto(p, "clean")

(* CleanStaging, which the configure and the clean recipes begin with. *)
KeepStamp(p, ret) ==     \* mutant: the stamp is left in place
  /\ UNCHANGED stamp
  /\ CallClean(p, ret)
CleanStaging(p, ret) ==
  /\ stamp' = [stamp EXCEPT ![p] = "missing"]
  /\ CallClean(p, ret)

Configure(p) ==
  /\ pc[p] = "idle"
  /\ CleanStaging(p, "build")
  /\ built' = [built EXCEPT ![p] = NotBuilt]
  /\ UNCHANGED <<files, dirs, list, making, fail, holder, kills>>

CleanPackage(p) ==
  /\ pc[p] = "idle"
  /\ CleanStaging(p, "purge")
  /\ UNCHANGED <<files, dirs, list, built, making, fail, holder, kills>>

(* First pass: [ -f entry ] follows a link, so a dangling one is kept. *)
IsFile(f) == f \in files /\ (f \in Link => Target[f] \in files)
RemoveFile(p, f) ==
  /\ pc[p] = "clean" /\ f \in todo[p] \cap File
  /\ files' = IF IsFile(f) THEN files \ {f} ELSE files
  /\ todo' = [todo EXCEPT ![p] = @ \ {f}]
  /\ UNCHANGED <<dirs, list, built, stamp, pc, after, making, fail, holder, kills>>

(* Second pass: rmdir removes what is empty. *)
RemoveDir(p, d) ==
  /\ pc[p] = "clean" /\ todo[p] \cap File = {} /\ d \in todo[p]
  /\ dirs' = IF \E f \in files : DirOf[f] = d THEN dirs ELSE dirs \ {d}
  /\ todo' = [todo EXCEPT ![p] = @ \ {d}]
  /\ UNCHANGED <<files, list, built, stamp, pc, after, making, fail, holder, kills>>

CleanReturns(p) ==
  /\ pc[p] = "clean" /\ todo[p] = {}
  /\ Goto(p, after[p])
  /\ after' = [after EXCEPT ![p] = "idle"]
  /\ UNCHANGED <<files, dirs, list, built, stamp, todo, making, fail, holder, kills>>

(* The rest of the clean recipe. *)
Purge(p) ==
  /\ pc[p] = "purge"
  /\ list' = [list EXCEPT ![p] = {}]
  /\ built' = [built EXCEPT ![p] = NotBuilt]
  /\ Goto(p, "idle")
  /\ UNCHANGED <<files, dirs, stamp, after, todo, making, fail, holder, kills>>

(* STAMP_BUILT is made anew, after configuring or because the sources      *)
(* changed: an existing STAMP_INSTALLED is older from then on.             *)
Build(p) ==
  /\ pc[p] = "build" \/ (pc[p] = "idle" /\ built[p] # NotBuilt)
  /\ \E S \in Builds[p] : built' = [built EXCEPT ![p] = S]
  /\ stamp' = [stamp EXCEPT ![p] = IF @ = "fresh" THEN "old" ELSE @]
  /\ Goto(p, "idle")
  /\ UNCHANGED <<files, dirs, list, after, todo, making, fail, holder, kills>>

-----------------------------------------------------------------------------
(* The recipe of STAMP_INSTALLED: stage, remove what the last list names,  *)
(* then replace the list and copy under the lock.                          *)
Install(p) ==
  /\ pc[p] = "idle" /\ built[p] # NotBuilt /\ stamp[p] # "fresh"
  /\ CallClean(p, "lock")
  /\ fail' = [fail EXCEPT ![p] = "no"]
  /\ UNCHANGED <<files, dirs, list, built, stamp, making, holder, kills>>

NoLock(p) ==             \* mutant: the commands run without flock
  /\ pc[p] = "lock"
  /\ holder' = p
  /\ Goto(p, "list")
  /\ UNCHANGED <<files, dirs, list, built, stamp, after, todo, making, fail, kills>>
Lock(p) ==
  /\ pc[p] = "lock" /\ holder = NoOne
  /\ holder' = p
  /\ Goto(p, "list")
  /\ UNCHANGED <<files, dirs, list, built, stamp, after, todo, making, fail, kills>>

CopyBeforeList(p) ==     \* mutant: the old list is kept
  /\ pc[p] = "list"
  /\ todo' = [todo EXCEPT ![p] = Contents(built[p])]
  /\ Goto(p, "copy")
  /\ UNCHANGED <<files, dirs, list, built, stamp, after, making, fail, holder, kills>>
MoveList(p) ==
  /\ pc[p] = "list"
  /\ list' = [list EXCEPT ![p] = Contents(built[p])]
  /\ todo' = [todo EXCEPT ![p] = Contents(built[p])]
  /\ Goto(p, "copy")
  /\ UNCHANGED <<files, dirs, built, stamp, after, making, fail, holder, kills>>

(* cp -fpR: a directory that is missing is made, in two steps; making one  *)
(* that has appeared meanwhile fails, and its files are skipped.           *)
CopyDir(p, d) ==
  /\ pc[p] = "copy" /\ d \in todo[p] \cap Dir
  /\ IF d \in dirs
     THEN UNCHANGED <<pc, making>> /\ todo' = [todo EXCEPT ![p] = @ \ {d}]
     ELSE Goto(p, "mkdir") /\ making' = [making EXCEPT ![p] = d] /\ UNCHANGED todo
  /\ UNCHANGED <<files, dirs, list, built, stamp, after, fail, holder, kills>>

Mkdir(p) ==
  /\ pc[p] = "mkdir"
  /\ Goto(p, "copy")
  /\ making' = [making EXCEPT ![p] = Host]
  /\ LET d == making[p]
         skipped == {f \in File : d \in dirs /\ DirOf[f] = d}
     IN  /\ dirs' = dirs \cup {d}
         /\ fail' = [fail EXCEPT ![p] = IF d \in dirs THEN "exists" ELSE @]
         /\ todo' = [todo EXCEPT ![p] = @ \ ({d} \cup skipped)]
  /\ UNCHANGED <<files, list, built, stamp, after, holder, kills>>

CopyFile(p, f) ==
  /\ pc[p] = "copy" /\ f \in todo[p] \cap File /\ DirOf[f] \notin todo[p]
  /\ IF DirOf[f] \in dirs THEN files' = files \cup {f} /\ UNCHANGED fail
                          ELSE fail' = [fail EXCEPT ![p] = "gone"] /\ UNCHANGED files
  /\ todo' = [todo EXCEPT ![p] = @ \ {f}]
  /\ UNCHANGED <<dirs, list, built, stamp, pc, after, making, holder, kills>>

(* cp sets the attributes of the directories last; its status is that of   *)
(* the recipe line, and the lock goes with the process.                    *)
CopyEnds(p) ==
  /\ pc[p] = "copy" /\ todo[p] = {}
  /\ holder' = NoOne
  /\ LET lost == (Contents(built[p]) \cap Dir) \ dirs
         why == IF fail[p] = "no" /\ lost # {} THEN "gone" ELSE fail[p]
     IN  /\ fail' = [fail EXCEPT ![p] = why]
         /\ Goto(p, IF why = "no" THEN "touch" ELSE "idle")
  /\ UNCHANGED <<files, dirs, list, built, stamp, after, todo, making, kills>>

Touch(p) ==
  /\ pc[p] = "touch"
  /\ stamp' = [stamp EXCEPT ![p] = "fresh"]
  /\ Goto(p, "idle")
  /\ UNCHANGED <<files, dirs, list, built, after, todo, making, fail, holder, kills>>

Kill(p) ==
  /\ pc[p] # "idle" /\ kills < MaxKills
  /\ kills' = kills + 1
  /\ holder' = IF holder = p THEN NoOne ELSE holder
  /\ todo' = [todo EXCEPT ![p] = {}]
  /\ making' = [making EXCEPT ![p] = Host]
  /\ Goto(p, "idle")
  /\ UNCHANGED <<files, dirs, list, built, stamp, after, fail>>

Next ==
  \E p \in Pkg :
    \/ Configure(p) \/ CleanPackage(p) \/ CleanReturns(p) \/ Purge(p) \/ Build(p)
    \/ Install(p) \/ Lock(p) \/ MoveList(p) \/ CopyEnds(p) \/ Mkdir(p) \/ Touch(p)
    \/ Kill(p)
    \/ \E f \in File : RemoveFile(p, f) \/ CopyFile(p, f)
    \/ \E d \in Dir : RemoveDir(p, d) \/ CopyDir(p, d)

Spec == Init /\ [][Next]_vars

-----------------------------------------------------------------------------
(* An up-to-date STAMP_INSTALLED means that everything the current build   *)
(* installs is staged, whatever other packages are removing at the time    *)
(* and wherever a recipe was killed: CleanStaging takes the stamp away     *)
(* before the files, and a copy that lost a directory does not touch it.   *)
StampMeansStaged ==
  \A p \in Pkg : stamp[p] = "fresh" => built[p] \subseteq files

(* Every regular file in the staging directory is on the list of its       *)
(* package, so that the next clean-package.sh removes it: the list is      *)
(* replaced before the copy begins, and only after the files of the old    *)
(* one are gone.  (A symbolic link whose target went first stays behind.)  *)
NothingUnlisted ==
  \A f \in files \ Link : f \in list[Owner[f]]

(* Two packages that install into the same new directory do not trip over  *)
(* each other's mkdir: cp fails with "File exists" only if two copies run  *)
(* at once, which the staging-dir lock prevents.                           *)
NoMkdirClash == \A p \in Pkg : fail[p] # "exists"
=============================================================================
