--------------------------- MODULE StagingProofs ---------------------------
(***************************************************************************)
(* Proofs about the staging directory, for every set of packages, contents *)
(* and kills, and about the stamps of a package, for every set of files    *)
(* and settings and any number of changes, seconds and interrupted makes.  *)
(***************************************************************************)
EXTENDS Staging, Stamps, TLAPS

-----------------------------------------------------------------------------
(* The staging directory.                                                  *)

\* The regular files of p in the staging directory.
Regular(p) == {f \in files \ Link : Owner[f] = p}

\* List and copy hold the lock; a directory found missing is missing still.
Holding(p) ==
  /\ pc[p] \in {"list", "copy", "mkdir"} => holder = p
  /\ pc[p] = "mkdir" => making[p] \notin dirs
  /\ fail[p] # "exists"

\* Lists name files of their package; regular files are listed, and gone when the
\* list is replaced.
Listed(p) ==
  /\ \A f \in list[p] \cap File : Owner[f] = p
  /\ todo[p] \subseteq list[p]
  /\ pc[p] \notin {"clean", "copy", "mkdir"} => todo[p] = {}
  /\ Regular(p) \subseteq list[p]
  /\ pc[p] = "clean" => Regular(p) \subseteq todo[p]
  /\ pc[p] \in {"purge", "lock", "list"} => Regular(p) = {}

\* The stamp is away while a recipe runs; what a copy without failure has visited
\* is there.
Copied(p) ==
  /\ pc[p] # "idle" => stamp[p] # "fresh"
  /\ pc[p] \in {"lock", "list", "copy", "mkdir", "touch"} => built[p] \in Builds[p]
  /\ pc[p] = "clean" /\ after[p] = "lock" => built[p] \in Builds[p]
  /\ stamp[p] = "fresh" => built[p] \subseteq files
  /\ pc[p] = "touch" => built[p] \subseteq files
  /\ pc[p] \in {"copy", "mkdir"} /\ fail[p] = "no"
       => \A f \in built[p] : f \in files \/ f \in todo[p]

\* The inductive invariant.  None of the three properties is inductive: they say
\* nothing of what a recipe has done so far or may still do.
IInv == TypeOK /\ \A p \in Pkg : Holding(p) /\ Listed(p) /\ Copied(p)

USE StagingAssumption DEF Goto, Host, NoOne, NotBuilt, Dir, Link

\* What a build installs are files of its package.
LEMMA BuildFiles ==
  ASSUME NEW p \in Pkg, NEW S \in Builds[p]
  PROVE  /\ S \subseteq File
         /\ \A f \in S : Owner[f] = p
         /\ Host \notin S
         /\ Contents(S) \subseteq File \cup Dir
         /\ S \subseteq Contents(S)
         /\ \A f \in Contents(S) \cap File : Owner[f] = p
  BY DEF Contents

\* Nothing is staged, listed or running at first.
LEMMA InitIInv == Init => IInv
  BY DEF Init, IInv, TypeOK, Holding, Listed, Copied, Regular

\* Configuring takes the stamp away and starts to clean what the list names.
LEMMA ConfigureIInv ==
  ASSUME IInv, NEW p \in Pkg, Configure(p)
  PROVE  IInv'
<1> USE DEF IInv
<1>1. TypeOK'
  BY DEF TypeOK, Configure, CleanStaging, CallClean
<1>2. \A q \in Pkg : Holding(q)'
  BY DEF TypeOK, Holding, Configure, CleanStaging, CallClean
<1>3. \A q \in Pkg : Listed(q)'
  BY DEF TypeOK, Listed, Regular, Configure, CleanStaging, CallClean
<1>4. \A q \in Pkg : Copied(q)'
  BY DEF TypeOK, Copied, Configure, CleanStaging, CallClean
<1>5. QED
  BY <1>1, <1>2, <1>3, <1>4

\* So does the clean recipe.
LEMMA CleanPackageIInv ==
  ASSUME IInv, NEW p \in Pkg, CleanPackage(p)
  PROVE  IInv'
<1> USE DEF IInv
<1>1. TypeOK'
  BY DEF TypeOK, CleanPackage, CleanStaging, CallClean
<1>2. \A q \in Pkg : Holding(q)'
  BY DEF TypeOK, Holding, CleanPackage, CleanStaging, CallClean
<1>3. \A q \in Pkg : Listed(q)'
  BY DEF TypeOK, Listed, Regular, CleanPackage, CleanStaging, CallClean
<1>4. \A q \in Pkg : Copied(q)'
  BY DEF TypeOK, Copied, CleanPackage, CleanStaging, CallClean
<1>5. QED
  BY <1>1, <1>2, <1>3, <1>4

\* When everything on the list was visited, no regular file of p is left.
LEMMA CleanReturnsIInv ==
  ASSUME IInv, NEW p \in Pkg, CleanReturns(p)
  PROVE  IInv'
<1> USE DEF IInv
<1>1. TypeOK'
  BY DEF TypeOK, CleanReturns
<1>2. \A q \in Pkg : Holding(q)'
  BY DEF TypeOK, Holding, CleanReturns
<1>3. \A q \in Pkg : Listed(q)'
  BY DEF TypeOK, Listed, Regular, CleanReturns
<1>4. \A q \in Pkg : Copied(q)'
  BY DEF TypeOK, Copied, CleanReturns
<1>5. QED
  BY <1>1, <1>2, <1>3, <1>4

\* The list may go: it names no file that is there.
LEMMA PurgeIInv ==
  ASSUME IInv, NEW p \in Pkg, Purge(p)
  PROVE  IInv'
<1> USE DEF IInv
<1>1. TypeOK'
  BY DEF TypeOK, Purge
<1>2. \A q \in Pkg : Holding(q)'
  BY DEF TypeOK, Holding, Purge
<1>3. \A q \in Pkg : Listed(q)'
  BY DEF TypeOK, Listed, Regular, Purge
<1>4. \A q \in Pkg : Copied(q)'
  BY DEF TypeOK, Copied, Purge
<1>5. QED
  BY <1>1, <1>2, <1>3, <1>4

\* A new build makes the stamp old.
LEMMA BuildIInv ==
  ASSUME IInv, NEW p \in Pkg, Build(p)
  PROVE  IInv'
<1> USE DEF IInv
<1>1. TypeOK'
  BY DEF TypeOK, Build
<1>2. \A q \in Pkg : Holding(q)'
  BY DEF TypeOK, Holding, Build
<1>3. \A q \in Pkg : Listed(q)'
  BY DEF TypeOK, Listed, Regular, Build
<1>4. \A q \in Pkg : Copied(q)'
  BY DEF TypeOK, Copied, Build
<1>5. QED
  BY <1>1, <1>2, <1>3, <1>4

\* Installing starts without an up-to-date stamp, and with a build.
LEMMA InstallIInv ==
  ASSUME IInv, NEW p \in Pkg, Install(p)
  PROVE  IInv'
<1> USE DEF IInv
<1>1. TypeOK'
  BY DEF TypeOK, Install, CallClean
<1>2. \A q \in Pkg : Holding(q)'
  BY DEF TypeOK, Holding, Install, CallClean
<1>3. \A q \in Pkg : Listed(q)'
  BY DEF TypeOK, Listed, Regular, Install, CallClean
<1>4. \A q \in Pkg : Copied(q)'
  BY DEF TypeOK, Copied, Install, CallClean
<1>5. QED
  BY <1>1, <1>2, <1>3, <1>4

\* Whoever is at the list or the copy holds the lock.
LEMMA LockIInv ==
  ASSUME IInv, NEW p \in Pkg, Lock(p)
  PROVE  IInv'
<1> USE DEF IInv
<1>1. TypeOK'
  BY DEF TypeOK, Lock
<1>2. \A q \in Pkg : Holding(q)'
  BY DEF TypeOK, Holding, Lock
<1>3. \A q \in Pkg : Listed(q)'
  BY DEF TypeOK, Listed, Regular, Lock
<1>4. \A q \in Pkg : Copied(q)'
  BY DEF TypeOK, Copied, Lock
<1>5. QED
  BY <1>1, <1>2, <1>3, <1>4

\* The list is replaced while p has no regular file, by what will be copied.
LEMMA MoveListIInv ==
  ASSUME IInv, NEW p \in Pkg, MoveList(p)
  PROVE  IInv'
<1> USE DEF IInv
<1>0. built[p] \in Builds[p]
  BY DEF Copied, MoveList
<1>1. TypeOK'
  BY <1>0, BuildFiles DEF TypeOK, MoveList
<1>2. \A q \in Pkg : Holding(q)'
  BY DEF TypeOK, Holding, MoveList
<1>3. \A q \in Pkg : Listed(q)'
  BY <1>0, BuildFiles DEF TypeOK, Listed, Regular, MoveList
<1>4. \A q \in Pkg : Copied(q)'
  BY BuildFiles DEF TypeOK, Copied, MoveList
<1>5. QED
  BY <1>1, <1>2, <1>3, <1>4

\* A copy without failure has brought everything the build installs.
LEMMA CopyEndsIInv ==
  ASSUME IInv, NEW p \in Pkg, CopyEnds(p)
  PROVE  IInv'
<1> USE DEF IInv
<1>1. TypeOK'
  BY DEF TypeOK, CopyEnds
<1>2. \A q \in Pkg : Holding(q)'
  BY DEF TypeOK, Holding, CopyEnds
<1>3. \A q \in Pkg : Listed(q)'
  BY DEF TypeOK, Listed, Regular, CopyEnds
<1>4. \A q \in Pkg : Copied(q)'
  BY DEF TypeOK, Copied, CopyEnds
<1>5. QED
  BY <1>1, <1>2, <1>3, <1>4

\* The directory found missing is missing still: only the holder of the lock makes one.
LEMMA MkdirIInv ==
  ASSUME IInv, NEW p \in Pkg, Mkdir(p)
  PROVE  IInv'
<1> USE DEF IInv
<1>1. TypeOK'
  <2>1. making[p] \in Dir /\ Host \in Dir
    BY DEF TypeOK
  <2>2. dirs' \subseteq Dir /\ \A f \in files' : DirOf[f] \in dirs'
    BY <2>1 DEF TypeOK, Mkdir
  <2>3. todo' \in [Pkg -> SUBSET (File \cup Dir)]
    BY DEF TypeOK, Mkdir
  <2>4. making' \in [Pkg -> Dir] /\ fail' \in [Pkg -> {"no", "exists", "gone"}]
    BY <2>1 DEF TypeOK, Mkdir
  <2>5. QED
    BY <2>2, <2>3, <2>4 DEF TypeOK, Mkdir
<1>2. \A q \in Pkg : Holding(q)'
  BY DEF TypeOK, Holding, Mkdir
<1>3. \A q \in Pkg : Listed(q)'
  BY DEF TypeOK, Listed, Regular, Mkdir
<1>4. \A q \in Pkg : Copied(q)'
  BY DEF TypeOK, Copied, Mkdir
<1>5. QED
  BY <1>1, <1>2, <1>3, <1>4

\* The stamp is made when everything is there.
LEMMA TouchIInv ==
  ASSUME IInv, NEW p \in Pkg, Touch(p)
  PROVE  IInv'
<1> USE DEF IInv
<1>1. TypeOK'
  BY DEF TypeOK, Touch
<1>2. \A q \in Pkg : Holding(q)'
  BY DEF TypeOK, Holding, Touch
<1>3. \A q \in Pkg : Listed(q)'
  BY DEF TypeOK, Listed, Regular, Touch
<1>4. \A q \in Pkg : Copied(q)'
  BY DEF TypeOK, Copied, Touch
<1>5. QED
  BY <1>1, <1>2, <1>3, <1>4

\* A killed recipe leaves the stamp away, and gives the lock back.
LEMMA KillIInv ==
  ASSUME IInv, NEW p \in Pkg, Kill(p)
  PROVE  IInv'
<1> USE DEF IInv
<1>1. TypeOK'
  BY DEF TypeOK, Kill
<1>2. \A q \in Pkg : Holding(q)'
  BY DEF TypeOK, Holding, Kill
<1>3. \A q \in Pkg : Listed(q)'
  BY DEF TypeOK, Listed, Regular, Kill
<1>4. \A q \in Pkg : Copied(q)'
  BY DEF TypeOK, Copied, Kill
<1>5. QED
  BY <1>1, <1>2, <1>3, <1>4

\* Cleaning removes only files of p, whose stamp is away.
LEMMA RemoveFileIInv ==
  ASSUME IInv, NEW p \in Pkg, NEW f \in File, RemoveFile(p, f)
  PROVE  IInv'
<1> USE DEF IInv
<1>1. TypeOK'
  BY DEF TypeOK, RemoveFile, IsFile
<1>2. \A q \in Pkg : Holding(q)'
  BY DEF TypeOK, Holding, RemoveFile, IsFile
<1>3. \A q \in Pkg : Listed(q)'
  BY DEF TypeOK, Listed, Regular, RemoveFile, IsFile
<1>4. \A q \in Pkg : Copied(q)'
  BY DEF TypeOK, Listed, Copied, RemoveFile, IsFile
<1>5. QED
  BY <1>1, <1>2, <1>3, <1>4

\* What is copied is on the list of p.
LEMMA CopyFileIInv ==
  ASSUME IInv, NEW p \in Pkg, NEW f \in File, CopyFile(p, f)
  PROVE  IInv'
<1> USE DEF IInv
<1>1. TypeOK'
  BY DEF TypeOK, CopyFile
<1>2. \A q \in Pkg : Holding(q)'
  BY DEF TypeOK, Holding, CopyFile
<1>3. \A q \in Pkg : Listed(q)'
  BY DEF TypeOK, Listed, Regular, CopyFile
<1>4. \A q \in Pkg : Copied(q)'
  BY DEF TypeOK, Copied, CopyFile
<1>5. QED
  BY <1>1, <1>2, <1>3, <1>4

\* Removing an empty directory removes no file.
LEMMA RemoveDirIInv ==
  ASSUME IInv, NEW p \in Pkg, NEW d \in Dir, RemoveDir(p, d)
  PROVE  IInv'
<1> USE DEF IInv
<1>1. TypeOK'
  BY DEF TypeOK, RemoveDir
<1>2. \A q \in Pkg : Holding(q)'
  BY DEF TypeOK, Holding, RemoveDir
<1>3. \A q \in Pkg : Listed(q)'
  BY DEF TypeOK, Listed, Regular, RemoveDir
<1>4. \A q \in Pkg : Copied(q)'
  BY DEF TypeOK, Copied, RemoveDir
<1>5. QED
  BY <1>1, <1>2, <1>3, <1>4

\* Looking for a directory changes none.
LEMMA CopyDirIInv ==
  ASSUME IInv, NEW p \in Pkg, NEW d \in Dir, CopyDir(p, d)
  PROVE  IInv'
<1> USE DEF IInv
<1>1. TypeOK'
  BY DEF TypeOK, CopyDir
<1>2. \A q \in Pkg : Holding(q)'
  BY DEF TypeOK, Holding, CopyDir
<1>3. \A q \in Pkg : Listed(q)'
  BY DEF TypeOK, Listed, Regular, CopyDir
<1>4. \A q \in Pkg : Copied(q)'
  BY DEF TypeOK, Copied, CopyDir
<1>5. QED
  BY <1>1, <1>2, <1>3, <1>4

\* Every step keeps the invariant.
LEMMA NextIInv == IInv /\ [Next]_vars => IInv'
<1> SUFFICES ASSUME IInv, [Next]_vars PROVE IInv'
  OBVIOUS
<1>1. ASSUME NEW p \in Pkg, NEW f \in File, RemoveFile(p, f) \/ CopyFile(p, f)
      PROVE  IInv'
  BY <1>1, RemoveFileIInv, CopyFileIInv
<1>2. ASSUME NEW p \in Pkg, NEW d \in Dir, RemoveDir(p, d) \/ CopyDir(p, d)
      PROVE  IInv'
  BY <1>2, RemoveDirIInv, CopyDirIInv
<1>3. CASE UNCHANGED vars
  BY <1>3 DEF IInv, TypeOK, Holding, Listed, Copied, Regular, vars
<1>4. QED
  BY <1>1, <1>2, <1>3, ConfigureIInv, CleanPackageIInv, CleanReturnsIInv, PurgeIInv, BuildIInv, InstallIInv,
     LockIInv, MoveListIInv, CopyEndsIInv, MkdirIInv, TouchIInv, KillIInv
     DEF Next

\* The inductive invariant holds throughout.
THEOREM Invariance == Spec => []IInv
<1>1. QED
  BY InitIInv, NextIInv, PTL DEF Spec

-----------------------------------------------------------------------------
(* The properties.                                                         *)

\* Every variable keeps its type.
THEOREM Typing == Spec => []TypeOK
<1>1. IInv => TypeOK
  BY DEF IInv
<1>2. QED
  BY <1>1, Invariance, PTL

\* An up-to-date STAMP_INSTALLED means that everything the build installs is
\* staged, for any packages that share directories and any kills.
THEOREM Staged == Spec => []StampMeansStaged
<1>1. IInv => StampMeansStaged
  BY DEF IInv, Copied, StampMeansStaged
<1>2. QED
  BY <1>1, Invariance, PTL

\* Every regular file in the staging directory is on the list clean-package.sh
\* will use.
THEOREM AllListed == Spec => []NothingUnlisted
<1>1. IInv => NothingUnlisted
  BY DEF IInv, TypeOK, Listed, Regular, NothingUnlisted
<1>2. QED
  BY <1>1, Invariance, PTL

\* No cp fails because another one made the same directory.
THEOREM NoClash == Spec => []NoMkdirClash
<1>1. IInv => NoMkdirClash
  BY DEF IInv, Holding, NoMkdirClash
<1>2. QED
  BY <1>1, Invariance, PTL

-----------------------------------------------------------------------------
(* The stamps of a package: a make during which nothing changed builds     *)
(* from the files as they are.  What make finds out it finds out step by   *)
(* step, so the invariant carries each finding from the step that made it  *)
(* to the end: what a stamp says of the tree (Unpacked, SetUp, Compiled),  *)
(* what make read when it started (Read, Looked), and what the checks it   *)
(* passed imply (Fresh, Current).                                          *)

Tree == [src : [Src -> Nat], edits : Nat, conf : Config \cup {NoConf}]

StampTypes ==
  /\ now \in Nat
  /\ dev \in [version : [Src -> Nat], mtime : [Src -> Nat], conf : Config, changes : Nat]
  /\ dir \in [tree : Tree, newest : Nat, prepared : [of : SUBSET Src, time : Int],
              configured : [Config -> Int], built : Int, outdated : BOOLEAN,
              dep_files : SUBSET SUBSET Src, output : Tree]
  /\ make \in [pc : {"idle", "check", "checked", "prepare", "wiping", "wiped", "copied",
                     "configure", "configuring", "build", "compiling", "compiled", "done"},
               list : SUBSET Src, conf : Config, checks : SUBSET {"prepared", "built"},
               need : SUBSET {"prepared", "built"}, kills : Nat]
  /\ past \in [quiet : BOOLEAN, raced : SUBSET {"prepared", "configured", "built"}, edited : Nat,
              torn : BOOLEAN]

(* No time is in the future. *)
Times ==
  /\ \A f \in Src : dev.mtime[f] <= now
  /\ dir.prepared.time <= now /\ dir.built <= now
  /\ past.edited <= now

(* While nothing changes, what make read when it started is still so. *)
Read == make.pc # "idle" /\ past.quiet => make.list = Listing /\ make.conf = dev.conf

(* The stamps that make found are there until it removes them. *)
Looked ==
  /\ make.pc \in {"check", "checked", "prepare"} /\ "prepared" \in make.checks =>
       dir.prepared.time # Missing /\ dir.prepared.of = make.list
  /\ make.pc \notin {"idle", "done"} /\ "built" \notin make.checks => dir.built = Missing

(* What .prepared says: the tree has the files as they were; a file that   *)
(* was changed later is as young as the stamp, or younger.                 *)
Unpacked ==
  dir.prepared.time # Missing /\ "prepared" \notin past.raced /\ ~past.torn =>
    /\ \A f \in Src : dir.tree.src[f] = dev.version[f] \/ dev.mtime[f] >= dir.prepared.time
    /\ dir.prepared.of = {f \in Src : dir.tree.src[f] # 0}

(* Between rm -rf of the build directory and .prepared. *)
Emptied ==
  make.pc \in {"wiped", "copied"} =>
    /\ dir.prepared.time = Missing /\ dir.built = Missing /\ ~past.torn
    /\ \A c \in Config : dir.configured[c] = Missing
    /\ "prepared" \notin past.raced =>
         make.list = Listing /\ (make.pc = "copied" => dir.tree.src = dev.version)

(* What .configured says: the tree was configured for these settings. *)
SetUp ==
  ~past.torn =>
  /\ \A c \in Config : dir.configured[c] # Missing =>
       dir.tree.conf = c \/ "configured" \in past.raced \/ make.pc = "configuring"
  /\ make.pc \in {"build", "compiling", "compiled", "done"} =>
       /\ dir.tree.conf = make.conf \/ "configured" \in past.raced
       /\ \E c \in Config : dir.configured[c] # Missing

(* What .built says: the output is made of the tree, unless the tree was   *)
(* touched in the second of the stamp or later.                            *)
Compiled ==
  ~past.torn =>
  /\ dir.built # Missing =>
       /\ dir.prepared.time # Missing
       /\ \E c \in Config : dir.configured[c] # Missing
       /\ \/ dir.output = dir.tree \/ past.raced \cap {"built", "configured"} # {}
          \/ dir.outdated \/ past.edited >= dir.built \/ make.pc = "configuring"
  /\ make.pc \in {"compiling", "compiled"} => dir.built = Missing
  /\ make.pc = "compiled" => dir.output = dir.tree \/ "built" \in past.raced

(* The newest file of the build directory is as young as the last edit.    *)
EditsSeen ==
  ~past.torn =>
  /\ dir.prepared.time # Missing => past.edited <= dir.newest
  /\ make.pc \in {"configure", "configuring", "build", "compiling", "compiled", "done"} =>
       dir.prepared.time # Missing

(* .prepared_check passed, or Build/Prepare was run. *)
Fresh ==
  /\ past.quiet /\ ~past.torn
  /\ \/ make.pc \in {"configure", "configuring", "build", "compiling", "compiled", "done"}
     \/ make.pc = "prepare" /\ ~Redo
  => \A f \in Src :
       \/ dir.tree.src[f] = dev.version[f]
       \/ "prepared" \in past.raced
       \/ dev.version[f] # 0 /\ dev.mtime[f] = dir.prepared.time

(* .built_check passed, or .built goes, or .configured is younger. *)
Current ==
  past.quiet /\ ~past.torn /\ "built" \notin make.need =>
    /\ make.pc \in {"checked", "prepare", "configure"} =>
         dir.built = Missing \/ dir.newest <= dir.built
    /\ make.pc = "build" => dir.built = Missing \/ dir.newest <= dir.built \/ dir.outdated

StampInv ==
  /\ StampTypes /\ Times /\ Read /\ Looked /\ Unpacked /\ Emptied /\ SetUp /\ Compiled
  /\ EditsSeen /\ Fresh /\ Current /\ BuiltFromFiles

-----------------------------------------------------------------------------
(* What rm -rf has removed is missing. *)
LEMMA Removed ==
  ASSUME StampTypes, NEW what, Remove(what)
  PROVE  /\ make.pc = "wiping" /\ UNCHANGED <<now, dev, make>>
         /\ past' = [past EXCEPT !.torn = TRUE]
         /\ dir'.prepared.time \in {dir.prepared.time, Missing}
         /\ dir'.built \in {dir.built, Missing}
         /\ StampTypes'
<1> DEFINE Dirs == [tree : Tree, newest : Nat, prepared : [of : SUBSET Src, time : Int],
                    configured : [Config -> Int], built : Int, outdated : BOOLEAN,
                    dep_files : SUBSET SUBSET Src, output : Tree]
<1>1. make.pc = "wiping" /\ UNCHANGED <<now, dev, make>> /\ past' = [past EXCEPT !.torn = TRUE]
  BY DEF Remove
<1>2. dir \in Dirs /\ Missing \in Int /\ -1 \in Int
  BY DEF StampTypes, Missing
<1>3. /\ NoTree \in Tree /\ Wiped.prepared = [of |-> {}, time |-> Missing]
      /\ Wiped.configured \in [Config -> Int] /\ {} \in SUBSET SUBSET Src
      /\ [of |-> {}, time |-> Missing] \in [of : SUBSET Src, time : Int]
  BY <1>2 DEF NoTree, Tree, Wiped
<1> HIDE DEF Dirs
<1>4. /\ dir'.prepared.time \in {dir.prepared.time, Missing}
      /\ dir'.built \in {dir.built, Missing} /\ dir' \in Dirs
  <2>1. ASSUME NEW t \in 0..dir.newest, dir' = [dir EXCEPT !.tree = NoTree, !.newest = t]
        PROVE  /\ dir'.prepared.time \in {dir.prepared.time, Missing}
              /\ dir'.built \in {dir.built, Missing} /\ dir' \in Dirs
    <3>1. t \in Nat /\ NoTree \in Tree
      BY <1>2, <1>3 DEF Dirs
    <3>2. /\ dir'.tree = NoTree /\ dir'.newest = t
          /\ dir'.prepared = dir.prepared /\ dir'.configured = dir.configured
          /\ dir'.built = dir.built /\ dir'.outdated = dir.outdated
          /\ dir'.dep_files = dir.dep_files /\ dir'.output = dir.output
      BY <1>2, <2>1 DEF Dirs
    <3>3. dir' = [tree |-> dir'.tree, newest |-> dir'.newest, prepared |-> dir.prepared,
                  configured |-> dir.configured, built |-> dir.built,
                  outdated |-> dir.outdated, dep_files |-> dir.dep_files,
                  output |-> dir.output]
      BY <1>2, <2>1, <3>2 DEF Dirs
    <3>4. QED
      BY <1>2, <3>1, <3>2, <3>3 DEF Dirs
  <2>2. ASSUME dir' = [dir EXCEPT !.prepared = [of |-> {}, time |-> Missing]]
        PROVE  /\ dir'.prepared.time \in {dir.prepared.time, Missing}
              /\ dir'.built \in {dir.built, Missing} /\ dir' \in Dirs
    BY <1>2, <1>3, <2>2 DEF Dirs
  <2>3. ASSUME dir' = [dir EXCEPT !.configured = Wiped.configured]
        PROVE  /\ dir'.prepared.time \in {dir.prepared.time, Missing}
              /\ dir'.built \in {dir.built, Missing} /\ dir' \in Dirs
    BY <1>2, <1>3, <2>3 DEF Dirs
  <2>4. ASSUME dir' = [dir EXCEPT !.built = Missing]
        PROVE  /\ dir'.prepared.time \in {dir.prepared.time, Missing}
              /\ dir'.built \in {dir.built, Missing} /\ dir' \in Dirs
    BY <1>2, <2>4 DEF Dirs
  <2>5. ASSUME dir' = [dir EXCEPT !.dep_files = {}]
        PROVE  /\ dir'.prepared.time \in {dir.prepared.time, Missing}
              /\ dir'.built \in {dir.built, Missing} /\ dir' \in Dirs
    BY <1>2, <1>3, <2>5 DEF Dirs
  <2>6. Wiped.prepared = [of |-> {}, time |-> Missing]
    BY <1>3
  <2>7. QED
    BY <2>1, <2>2, <2>3, <2>4, <2>5, <2>6 DEF Remove
<1>5. StampTypes'
  BY <1>1, <1>4 DEF StampTypes, Dirs
<1>6. QED
  BY <1>1, <1>4, <1>5

(* A step of make or of its developer, by name. *)
LEMMA StampSteps ==
  ASSUME [StampNext]_stampVars
  PROVE  \/ \E f \in Src, v \in {0, dev.changes + 2} : Edit(f, v)
         \/ \E c \in Config : SetConfig(c)
         \/ EditTree \/ Tick \/ Interrupt
         \/ Start \/ CheckBuilt \/ CheckPrepared \/ StartWipe \/ Wipe
         \/ \E what : Remove(what)
         \/ Keep \/ Copy \/ StampPrepared
         \/ StartConfigure \/ StampConfigured \/ Configured
         \/ StartCompile \/ Compile \/ StampBuilt \/ Built \/ Done
         \/ UNCHANGED stampVars
  BY DEF StampNext

LEMMA TypesKept ==
  ASSUME StampTypes, [StampNext]_stampVars
  PROVE  StampTypes'
<1> USE DEF StampTypes, Tree, Missing, NoConf
<1>0. /\ now \in Int /\ -1 \in Int
      /\ dev.changes + 1 \in Nat /\ dir.tree.edits + 1 \in Nat /\ make.kills + 1 \in Nat
      /\ dev.changes + 2 \in Nat
  <2>1. now \in Nat /\ dev.changes \in Nat /\ dir.tree.edits \in Nat /\ make.kills \in Nat
    OBVIOUS
  <2> QED
    BY <2>1
<1>1. ASSUME NEW f \in Src, NEW v \in {0, dev.changes + 2}, Edit(f, v) PROVE StampTypes'
  <2>1. v \in Nat
    BY <1>0
  <2>2. /\ [dev.version EXCEPT ![f] = v] \in [Src -> Nat]
        /\ [dev.mtime EXCEPT ![f] = now] \in [Src -> Nat]
    BY <2>1
  <2>3. /\ dev' = [dev EXCEPT !.version = [dev.version EXCEPT ![f] = v],
                             !.mtime = [dev.mtime EXCEPT ![f] = now], !.changes = dev.changes + 1]
        /\ past' = Raced("prepared", {"wiped", "copied"})
        /\ UNCHANGED <<now, dir, make>>
    BY <1>1 DEF Edit, Changes
  <2>q. QED
    BY <1>0, <2>2, <2>3 DEF Raced
<1>2. ASSUME NEW c \in Config, SetConfig(c) PROVE StampTypes'
  <2>1. dev' = [dev EXCEPT !.conf = c, !.changes = dev.changes + 1]
    BY <1>2 DEF SetConfig
  <2>2. past' = Raced("configured", {}) /\ UNCHANGED <<now, dir, make>>
    BY <1>2 DEF SetConfig, Changes
  <2>3. dev' \in [version : [Src -> Nat], mtime : [Src -> Nat], conf : Config, changes : Nat]
    <3>1. dev \in [version : [Src -> Nat], mtime : [Src -> Nat], conf : Config, changes : Nat]
      OBVIOUS
    <3>2. dev.changes + 1 \in Nat
      BY <1>0
    <3>q. QED
      BY ONLY <2>1, <3>1, <3>2, c \in Config
  <2>4. past' \in [quiet : BOOLEAN, raced : SUBSET {"prepared", "configured", "built"}, edited : Nat,
                   torn : BOOLEAN]
    BY <2>2 DEF Raced
  <2>q. QED
    BY <2>2, <2>3, <2>4
<1>3. CASE EditTree
  BY <1>0, <1>3 DEF EditTree, Changes, Raced
<1>4. CASE Tick
  BY <1>4 DEF Tick
<1>5. CASE Interrupt
  BY <1>0, <1>5 DEF Interrupt
<1>6. CASE Start
  BY <1>6 DEF Start, StampsOf, Listing
<1>7. CASE CheckBuilt
  BY <1>7 DEF CheckBuilt, Checked
<1>8. CASE CheckPrepared
  BY <1>8 DEF CheckPrepared, Checked, Listing
<1>9. CASE Wipe
  BY <1>0, <1>9 DEF Wipe, From, Wiped, NoTree
<1>22. CASE StartWipe
  BY <1>22 DEF StartWipe, From
<1>23. ASSUME NEW what, Remove(what) PROVE StampTypes'
  BY <1>23, Removed
<1>10. CASE Keep
  BY <1>10 DEF Keep, From
<1>11. CASE Copy
  BY <1>11 DEF Copy, From
<1>12. CASE StampPrepared
  BY <1>0, <1>12 DEF StampPrepared, From
<1>13. CASE StartConfigure
  BY <1>13 DEF StartConfigure, From
<1>14. CASE StampConfigured
  BY <1>0, <1>14 DEF StampConfigured, From
<1>15. CASE Configured
  BY <1>15 DEF Configured, From
<1>16. CASE StartCompile
  BY <1>16, SMTT(30) DEF StartCompile, From
<1>17. CASE Compile
  BY <1>17 DEF Compile, From
<1>18. CASE StampBuilt
  BY <1>0, <1>18 DEF StampBuilt, From
<1>19. CASE Built
  BY <1>19 DEF Built, From
<1>20. CASE Done
  BY <1>20 DEF Done, From
<1>21. CASE UNCHANGED stampVars
  BY <1>21 DEF stampVars
<1>q. QED
  BY StampSteps, <1>1, <1>2, <1>3, <1>4, <1>5, <1>6, <1>7, <1>8, <1>9, <1>10, <1>11,
    <1>12, <1>13, <1>14, <1>15, <1>16, <1>17, <1>18, <1>19, <1>20, <1>21, <1>22, <1>23,
    SMTT(30)

(* No step of make, no interruption and no change the developer makes      *)
(* between any two of them breaks what the stamps say.                     *)
LEMMA StampStepKeeps ==
  ASSUME StampInv, [StampNext]_stampVars
  PROVE  StampInv'
<1> USE DEF Missing, StampInv, StampTypes, Tree
<1>0. StampTypes /\ StampTypes'
  BY TypesKept
<1>1. ASSUME NEW f \in Src, NEW v \in {0, dev.changes + 2}, Edit(f, v) PROVE StampInv'
  <2>1. (/\ Times /\ Read /\ Looked /\ Emptied /\ SetUp
         /\ Compiled /\ EditsSeen /\ Fresh /\ Current /\ BuiltFromFiles)'
    BY <1>1, <1>0, SMTT(20) DEF Edit, Changes, Raced, Times, Read, Looked, Emptied,
        SetUp, Compiled, EditsSeen, Fresh, Current, BuiltFromFiles, Listing, Redo
  <2>2. Unpacked'
    BY <1>1, <1>0, SMTT(20) DEF Edit, Changes, Raced, Unpacked, Times, Listing
  <2>q. QED
    BY <1>0, <2>1, <2>2
<1>2. ASSUME NEW c \in Config, SetConfig(c) PROVE StampInv'
  <2>1. (/\ Times /\ Read /\ Looked /\ Unpacked /\ Emptied
         /\ SetUp /\ Compiled /\ EditsSeen /\ Fresh /\ Current /\ BuiltFromFiles)'
    BY <1>2, <1>0, SMTT(20) DEF SetConfig, Changes, Raced, Times, Read, Looked,
        Unpacked, Emptied, SetUp, Compiled, EditsSeen, Fresh, Current, BuiltFromFiles,
        Listing, Redo
  <2>q. QED
    BY <1>0, <2>1
<1>3. CASE EditTree
  <2>1. (/\ Times /\ Read /\ Looked /\ Unpacked /\ Emptied
         /\ SetUp /\ EditsSeen /\ Fresh /\ Current /\ BuiltFromFiles)'
    BY <1>3, <1>0, SMTT(20) DEF EditTree, Changes, Raced, Times, Read, Looked, Unpacked,
        Emptied, SetUp, EditsSeen, Fresh, Current, BuiltFromFiles, Listing, Redo
  <2>2. Compiled'
    BY <1>3, <1>0, SMTT(20) DEF EditTree, Changes, Raced, Compiled, Times, Listing
  <2>q. QED
    BY <1>0, <2>1, <2>2
<1>4. CASE Tick
  <2>1. (/\ Times /\ Read /\ Looked /\ Unpacked /\ Emptied
         /\ SetUp /\ Compiled /\ EditsSeen /\ Fresh /\ Current /\ BuiltFromFiles)'
    BY <1>4, <1>0, SMTT(20) DEF Tick, Times, Read, Looked, Unpacked, Emptied, SetUp,
        Compiled, EditsSeen, Fresh, Current, BuiltFromFiles, Listing, Redo
  <2>q. QED
    BY <1>0, <2>1
<1>5. CASE Interrupt
  <2>1. (/\ Times /\ Read /\ Looked /\ Unpacked /\ Emptied
         /\ SetUp /\ Compiled /\ EditsSeen /\ Fresh /\ Current /\ BuiltFromFiles)'
    BY <1>5, <1>0, SMTT(20) DEF Interrupt, Times, Read, Looked, Unpacked, Emptied,
        SetUp, Compiled, EditsSeen, Fresh, Current, BuiltFromFiles, Listing, Redo
  <2>q. QED
    BY <1>0, <2>1
<1>6. CASE Start
  <2>1. /\ make.pc = "idle" /\ make'.pc = "check"
        /\ make'.list = Listing /\ make'.conf = dev.conf
        /\ make'.checks = StampsOf(Listing) /\ make'.need = {}
        /\ past'.quiet = TRUE /\ past'.raced = past.raced /\ past'.edited = past.edited
        /\ past'.torn = past.torn
        /\ UNCHANGED <<now, dev, dir>>
    BY <1>6, <1>0 DEF Start
  <2>2. (/\ Times /\ Read /\ Looked /\ Unpacked /\ Emptied
         /\ SetUp /\ Compiled /\ EditsSeen /\ Fresh /\ Current /\ BuiltFromFiles)'
    BY ONLY <2>1, <1>0, StampInv, SMTT(20) DEF Missing, StampInv, StampTypes, Tree,
        Times, Read, Looked, Unpacked, Emptied, SetUp, Compiled, EditsSeen, Fresh,
        Current, BuiltFromFiles, Listing, Redo, UpToDate, StampsOf
  <2>q. QED
    BY <1>0, <2>2
<1>7. CASE CheckBuilt
  <2>1. (/\ Times /\ Read /\ Looked /\ Unpacked /\ Emptied
         /\ SetUp /\ Compiled /\ EditsSeen /\ Fresh /\ BuiltFromFiles)'
    BY <1>7, <1>0, SMTT(20) DEF CheckBuilt, Checked, UpToDate, Times, Read, Looked,
        Unpacked, Emptied, SetUp, Compiled, EditsSeen, Fresh, BuiltFromFiles, Listing,
        Redo
  <2>2. Current'
    BY <1>7, <1>0, SMTT(20) DEF CheckBuilt, Checked, UpToDate, Current, Looked, Listing
  <2>q. QED
    BY <1>0, <2>1, <2>2
<1>8. CASE CheckPrepared
  <2> DEFINE new == \A f \in Listing : UpToDate(dir.prepared.time, dev.mtime[f])
             good == dir.dep_files \subseteq {Listing} /\ new
  <2>1. make.pc = "checked" /\ make' = Checked("prepare", "prepared", good)
    BY <1>8 DEF CheckPrepared
  <2>2. good \in BOOLEAN /\ (good => new)
    BY Zenon
  <2> HIDE DEF good, new
  <2>3. /\ make.pc = "checked" /\ make'.pc = "prepare"
        /\ make'.list = make.list /\ make'.conf = make.conf /\ make'.checks = make.checks
        /\ "built" \notin make'.need => "built" \notin make.need
        /\ ("prepared" \in make.checks /\ "prepared" \notin make'.need) => new
    BY <2>1, <2>2, <1>0 DEF Checked
  <2>4. /\ dir'.tree = dir.tree /\ dir'.newest = dir.newest /\ dir'.prepared = dir.prepared
        /\ dir'.configured = dir.configured /\ dir'.built = dir.built
        /\ dir'.outdated = dir.outdated /\ dir'.output = dir.output
        /\ UNCHANGED <<now, dev, past>>
    BY <1>8, <1>0 DEF CheckPrepared
  <2> USE DEF new
  <2>5. (/\ Times /\ Read /\ Looked /\ Unpacked /\ Emptied
         /\ SetUp /\ Compiled /\ EditsSeen /\ Current /\ BuiltFromFiles)'
    BY ONLY <2>3, <2>4, <1>0, StampInv, SMTT(20) DEF Missing, StampInv, StampTypes,
        Tree, Times, Read, Looked, Unpacked, Emptied, SetUp, Compiled, EditsSeen,
        Current, BuiltFromFiles, Listing
  <2>6. Fresh'
    BY ONLY <2>3, <2>4, <1>0, StampInv, SMTT(20) DEF Missing, StampInv, StampTypes,
        Tree, Fresh, Unpacked, Looked, Read, Listing, Redo, UpToDate
  <2>q. QED
    BY <1>0, <2>5, <2>6
<1>9. CASE Wipe
  <2>1. (/\ Times /\ Read /\ Looked /\ Unpacked /\ SetUp
         /\ Compiled /\ EditsSeen /\ Fresh /\ Current /\ BuiltFromFiles)'
    BY <1>9, <1>0, SMTT(20) DEF Wipe, From, Wiped, NoTree, Redo, Times, Read, Looked,
        Unpacked, SetUp, Compiled, EditsSeen, Fresh, Current, BuiltFromFiles, Listing
  <2>2. Emptied'
    BY <1>9, <1>0, SMTT(20) DEF Wipe, From, Wiped, NoTree, Redo, Emptied, Read, Listing
  <2>q. QED
    BY <1>0, <2>1, <2>2
<1>22. CASE StartWipe
  <2>1. (/\ Times /\ Read /\ Looked /\ Unpacked /\ Emptied
         /\ SetUp /\ Compiled /\ EditsSeen /\ Fresh /\ Current /\ BuiltFromFiles)'
    BY <1>22, <1>0, SMTT(20) DEF StartWipe, From, Times, Read, Looked, Unpacked, Emptied,
        SetUp, Compiled, EditsSeen, Fresh, Current, BuiltFromFiles, Listing, Redo
  <2>q. QED
    BY <1>0, <2>1
<1>23. ASSUME NEW what, Remove(what) PROVE StampInv'
  <2>1. /\ make.pc = "wiping" /\ past'.torn /\ past'.edited = past.edited
        /\ UNCHANGED <<now, dev, make>>
        /\ dir'.prepared.time \in {Missing, dir.prepared.time}
        /\ dir'.built \in {Missing, dir.built}
        /\ past'.quiet = past.quiet
    BY <1>23, <1>0, Removed
  <2>2. (/\ Times /\ Read /\ Looked /\ Unpacked /\ Emptied
         /\ SetUp /\ Compiled /\ EditsSeen /\ Fresh /\ Current /\ BuiltFromFiles)'
    BY <2>1, <1>0, SMTT(20) DEF Times, Read, Looked, Unpacked, Emptied,
        SetUp, Compiled, EditsSeen, Fresh, Current, BuiltFromFiles, Listing
  <2>q. QED
    BY <1>0, <2>2
<1>10. CASE Keep
  <2>1. (/\ Times /\ Read /\ Looked /\ Unpacked /\ Emptied
         /\ SetUp /\ Compiled /\ Fresh /\ Current /\ BuiltFromFiles)'
    BY <1>10, <1>0, SMTT(20) DEF Keep, From, Redo, Times, Read, Looked, Unpacked,
        Emptied, SetUp, Compiled, Fresh, Current, BuiltFromFiles, Listing
  <2>2. EditsSeen'
    BY <1>10, <1>0, SMTT(20) DEF Keep, From, Redo, EditsSeen, Looked, Listing
  <2>q. QED
    BY <1>0, <2>1, <2>2
<1>11. CASE Copy
  <2>1. (/\ Times /\ Read /\ Looked /\ Emptied
         /\ SetUp /\ EditsSeen /\ Fresh /\ Current /\ BuiltFromFiles)'
    BY <1>11, <1>0, SMTT(20) DEF Copy, From, Times, Read, Looked, Emptied, SetUp,
        EditsSeen, Fresh, Current, BuiltFromFiles, Listing, Redo
  <2>2. Unpacked'
    BY <1>11, <1>0, SMTT(20) DEF Copy, From, Unpacked, Emptied, Listing
  <2>3. Compiled'
    BY <1>11, <1>0, SMTT(20) DEF Copy, From, Compiled, Emptied, Listing
  <2>q. QED
    BY <1>0, <2>1, <2>2, <2>3
<1>12. CASE StampPrepared
  <2>1. (Times /\ Read /\ Looked /\ Emptied /\ SetUp /\ Compiled /\ BuiltFromFiles)'
    BY <1>12, <1>0, SMTT(20) DEF StampPrepared, From, Times, Read, Looked, Emptied,
        SetUp, Compiled, BuiltFromFiles, Listing
  <2>2. Unpacked'
    BY <1>12, <1>0, SMTT(20) DEF StampPrepared, From, Unpacked, Emptied, Listing
  <2>3. EditsSeen'
    BY <1>12, <1>0, SMTT(20) DEF StampPrepared, From, EditsSeen, Times, Listing
  <2>4. Fresh'
    BY <1>12, <1>0, SMTT(20) DEF StampPrepared, From, Fresh, Emptied, Listing, Redo
  <2>5. Current'
    BY <1>12, <1>0, SMTT(20) DEF StampPrepared, From, Current, Emptied, Listing
  <2>q. QED
    BY <1>0, <2>1, <2>2, <2>3, <2>4, <2>5
<1>13. CASE StartConfigure
  <2>1. (/\ Times /\ Read /\ Looked /\ Unpacked /\ Emptied
         /\ SetUp /\ Compiled /\ Fresh /\ Current /\ BuiltFromFiles)'
    BY <1>13, <1>0, SMTT(20) DEF StartConfigure, From, Times, Read, Looked, Unpacked,
        Emptied, SetUp, Compiled, Fresh, Current, BuiltFromFiles, Listing, Redo
  <2>2. EditsSeen'
    BY <1>13, <1>0, SMTT(20) DEF StartConfigure, From, EditsSeen, Times, Listing
  <2>q. QED
    BY <1>0, <2>1, <2>2
<1>14. CASE StampConfigured
  <2>1. /\ make.pc = "configuring" /\ make' = [make EXCEPT !.pc = "build"]
        /\ dir'.tree = [dir.tree EXCEPT !.conf = make.conf] /\ dir'.newest = now
        /\ dir'.configured = [c \in Config |-> IF c = make.conf THEN now ELSE Missing]
        /\ dir'.outdated = TRUE /\ dir'.prepared = dir.prepared /\ dir'.built = dir.built
        /\ dir'.output = dir.output
        /\ past'.raced = past.raced \ {"configured"}
        /\ past'.quiet = past.quiet /\ past'.edited = past.edited /\ past'.torn = past.torn
        /\ UNCHANGED <<now, dev>>
    BY <1>14, <1>0, ZenonT(40) DEF StampConfigured, From
  <2>2. (/\ Times /\ Read /\ Looked /\ Unpacked /\ Emptied
         /\ SetUp /\ Compiled /\ Fresh /\ Current /\ BuiltFromFiles)'
    BY ONLY <2>1, <1>0, StampInv, SMTT(20) DEF Missing, StampInv, StampTypes, Tree,
        Times, Read, Looked, Unpacked, Emptied, SetUp, Compiled, Fresh, Current,
        BuiltFromFiles, Listing, Redo, UpToDate
  <2>3. EditsSeen'
    BY ONLY <2>1, <1>0, StampInv, SMTT(20) DEF Missing, StampInv, StampTypes, Tree,
        EditsSeen, Times, Listing
  <2>q. QED
    BY <1>0, <2>2, <2>3
<1>15. CASE Configured
  <2>1. (/\ Times /\ Read /\ Looked /\ Unpacked /\ Emptied
         /\ SetUp /\ Compiled /\ EditsSeen /\ Fresh /\ Current /\ BuiltFromFiles)'
    BY <1>15, <1>0, SMTT(20) DEF Configured, From, Times, Read, Looked, Unpacked,
        Emptied, SetUp, Compiled, EditsSeen, Fresh, Current, BuiltFromFiles, Listing,
        Redo
  <2>q. QED
    BY <1>0, <2>1
<1>16. CASE StartCompile
  <2>1. (/\ Times /\ Read /\ Looked /\ Unpacked /\ Emptied
         /\ SetUp /\ Compiled /\ EditsSeen /\ Fresh /\ Current /\ BuiltFromFiles)'
    BY <1>16, <1>0, SMTT(20) DEF StartCompile, From, Times, Read, Looked, Unpacked,
        Emptied, SetUp, Compiled, EditsSeen, Fresh, Current, BuiltFromFiles, Listing,
        Redo
  <2>q. QED
    BY <1>0, <2>1
<1>17. CASE Compile
  <2>1. (/\ Times /\ Read /\ Looked /\ Unpacked /\ Emptied
         /\ SetUp /\ Compiled /\ Fresh /\ Current /\ BuiltFromFiles)'
    BY <1>17, <1>0, SMTT(20) DEF Compile, From, Times, Read, Looked, Unpacked, Emptied,
        SetUp, Compiled, Fresh, Current, BuiltFromFiles, Listing, Redo
  <2>2. EditsSeen'
    BY <1>17, <1>0, SMTT(20) DEF Compile, From, EditsSeen, Times, Listing
  <2>q. QED
    BY <1>0, <2>1, <2>2
<1>18. CASE StampBuilt
  <2>1. (/\ Times /\ Read /\ Looked /\ Unpacked
         /\ Emptied /\ SetUp /\ EditsSeen /\ Fresh /\ Current)'
    BY <1>18, <1>0, SMTT(20) DEF StampBuilt, From, Times, Read, Looked, Unpacked,
        Emptied, SetUp, EditsSeen, Fresh, Current, Listing, Redo
  <2>2. Compiled'
    BY <1>18, <1>0, SMTT(20) DEF StampBuilt, From, Compiled, SetUp, EditsSeen, Listing
  <2>3. BuiltFromFiles'
    BY <1>18, <1>0, SMTT(20) DEF StampBuilt, From, BuiltFromFiles, Fresh, SetUp,
        Compiled, Read, Listing
  <2>q. QED
    BY <1>0, <2>1, <2>2, <2>3
<1>19. CASE Built
  <2>1. (/\ Times /\ Read /\ Looked /\ Unpacked /\ Emptied
         /\ SetUp /\ Compiled /\ EditsSeen /\ Fresh /\ Current)'
    BY <1>19, <1>0, SMTT(20) DEF Built, From, Remade, Times, Read, Looked, Unpacked,
        Emptied, SetUp, Compiled, EditsSeen, Fresh, Current, Listing, Redo
  <2>2. BuiltFromFiles'
    BY <1>19, <1>0, SMTT(20) DEF Built, From, Remade, BuiltFromFiles, Fresh, SetUp,
        Compiled, Current, EditsSeen, Looked, Times, Read, Listing
  <2>q. QED
    BY <1>0, <2>1, <2>2
<1>20. CASE Done
  <2>1. (/\ Times /\ Read /\ Looked /\ Unpacked /\ Emptied
         /\ SetUp /\ Compiled /\ EditsSeen /\ Fresh /\ Current /\ BuiltFromFiles)'
    BY <1>20, <1>0, SMTT(20) DEF Done, From, Times, Read, Looked, Unpacked, Emptied,
        SetUp, Compiled, EditsSeen, Fresh, Current, BuiltFromFiles, Listing, Redo
  <2>q. QED
    BY <1>0, <2>1
<1>21. CASE UNCHANGED stampVars
  BY <1>21 DEF stampVars, Redo, Listing, Times, Read, Looked, Unpacked, Emptied, SetUp,
      Compiled, EditsSeen, Fresh, Current, BuiltFromFiles
<1>q. QED
  BY StampSteps, <1>1, <1>2, <1>3, <1>4, <1>5, <1>6, <1>7, <1>8, <1>9, <1>10, <1>11,
      <1>12, <1>13, <1>14, <1>15, <1>16, <1>17, <1>18, <1>19, <1>20, <1>21, <1>22, <1>23

(* "Automatically rebuild packages when their files change"                *)
(* (config/Config-devel.in:32): with any files and settings, a make during *)
(* which nothing was changed ends with everything built from the files as  *)
(* they are, but for the three kinds of changes and the one kind of damage *)
(* that BuiltFromFiles names.                                              *)
THEOREM Rebuilt == StampSpec => []BuiltFromFiles
<1>1. ASSUME StampInit PROVE StampInv
  BY <1>1 DEF StampInit, StampInv, StampTypes, Tree, Wiped, NoTree, NoConf, Missing,
      Redo, Listing, Times, Read, Looked, Unpacked, Emptied, SetUp, Compiled, EditsSeen,
      Fresh, Current, BuiltFromFiles
<1>2. StampInv /\ [StampNext]_stampVars => StampInv'
  BY StampStepKeeps
<1>3. StampInv => BuiltFromFiles
  BY DEF StampInv
<1>q. QED
  BY <1>1, <1>2, <1>3, PTL DEF StampSpec
=============================================================================
