------------------------------- MODULE Stamps -------------------------------
(***************************************************************************)
(* The stamps of a package and when they are taken to be out of date       *)
(* (include/package.mk with CONFIG_AUTOREBUILD, include/depends.mk,        *)
(* scripts/timestamp.pl): .prepared is named after the list of the         *)
(* package's files, .configured after its configuration options, and files *)
(* are compared with .prepared and .built by whole seconds.                *)
(*                                                                         *)
(* One make at a time works on the package; its developer edits the        *)
(* package's files and the unpacked sources whenever they like.            *)
(***************************************************************************)
EXTENDS Integers

CONSTANTS Src,           \* files of the package
          Config,        \* settings of PKG_CONFIG_DEPENDS
          MaxTime,       \* bound: seconds
          MaxChanges,    \* bound: changes the developer makes
          MaxInterrupts  \* bound: makes interrupted

VARIABLES
  now,   \* the clock, in seconds
  dev,   \* the developer's side: version and mtime of each file of the package (version 0:
         \* there is none), the configuration, and how many changes were made
  dir,   \* the build directory: the unpacked tree, the time of its newest file but .built,
         \* the stamps and their times, whether .configured is younger than .built, the list
         \* in .dep_files if there is one, and the tree that was last compiled
  make,  \* where make is and what it found so far
  past   \* history: nothing changed since make was started; stamps that were raced by a
         \* change while their recipe was running; the time of the last edit of the tree;
         \* the build directory was begun to be removed and is not gone

stampVars == <<now, dev, dir, make, past>>

Missing == -1
NoConf == "none"
NoTree == [src |-> [f \in Src |-> 0], edits |-> 0, conf |-> NoConf]
Wiped ==
  [tree |-> NoTree, newest |-> 0, prepared |-> [of |-> {}, time |-> Missing],
   configured |-> [c \in Config |-> Missing], built |-> Missing, outdated |-> FALSE,
   dep_files |-> {}, output |-> NoTree]
Listing == {f \in Src : dev.version[f] # 0}

StampInit ==
  /\ now = 0
  /\ \E c \in Config, v \in [Src -> {0, 1}] :
       /\ dev = [version |-> v, mtime |-> [f \in Src |-> 0], conf |-> c, changes |-> 0]
       /\ make = [pc |-> "idle", list |-> {}, conf |-> c, checks |-> {}, need |-> {}, kills |-> 0]
  /\ dir = Wiped
  /\ past = [quiet |-> TRUE, raced |-> {}, edited |-> 0, torn |-> FALSE]

-----------------------------------------------------------------------------
(* The developer.                                                          *)
Changes == dev.changes < MaxChanges /\ UNCHANGED <<now, make>>
Raced(which, during) ==
  [past EXCEPT !.quiet = FALSE, !.raced = IF make.pc \in during THEN @ \cup {which} ELSE @]

(* Edits, adds or, with v = 0, removes a file of the package. *)
Edit(f, v) ==
  /\ Changes /\ v # dev.version[f]
  /\ dev' = [dev EXCEPT !.version[f] = v, !.mtime[f] = now, !.changes = @ + 1]
  /\ past' = Raced("prepared", {"wiped", "copied"})
  /\ UNCHANGED dir

SetConfig(c) ==
  /\ Changes /\ c # dev.conf
  /\ dev' = [dev EXCEPT !.conf = c, !.changes = @ + 1]
  /\ past' = Raced("configured", {})
  /\ UNCHANGED dir

(* Edits the unpacked sources. *)
EditTree ==
  /\ Changes /\ dir.prepared.time # Missing
  /\ dev' = [dev EXCEPT !.changes = @ + 1]
  /\ dir' = [dir EXCEPT !.tree.edits = @ + 1, !.newest = now]
  /\ past' = [Raced("built", {"compiling", "compiled"}) EXCEPT !.edited = now]

Tick == now < MaxTime /\ now' = now + 1 /\ UNCHANGED <<dev, dir, make, past>>

-----------------------------------------------------------------------------
(* make compile.                                                           *)
From(a, b) == make.pc = a /\ make' = [make EXCEPT !.pc = b] /\ UNCHANGED <<now, dev>>

(* Mutant: the stamp has a name without the list. *)
StampsOfAny(names) ==
  {x \in {"prepared", "built"} :
     IF x = "built" THEN dir.built # Missing ELSE dir.prepared.time # Missing}
(* The stamps that are there, by their names. *)
StampsOf(names) ==
  {x \in {"prepared", "built"} :
     IF x = "built" THEN dir.built # Missing
     ELSE dir.prepared.time # Missing /\ dir.prepared.of = names}

(* The names of the stamps, and which checks have a recipe, are settled    *)
(* when the Makefile is read.                                              *)
Start ==
  /\ make.pc = "idle"
  /\ make' = [make EXCEPT !.pc = "check", !.list = Listing, !.conf = dev.conf,
                          !.checks = StampsOf(Listing), !.need = {}]
  /\ past' = [past EXCEPT !.quiet = TRUE]
  /\ UNCHANGED <<now, dev, dir>>

(* timestamp.pl -n: nothing is newer than the stamp, in whole seconds. *)
UpToDate(since, time) == ~(time > since)

Checked(next, which, good) ==
  [make EXCEPT !.pc = next, !.need = IF which \in make.checks /\ ~good THEN @ \cup {which} ELSE @]

(* .built_check: is anything in the build directory newer? *)
CheckBuilt ==
  /\ make.pc = "check"
  /\ make' = Checked("checked", "built", UpToDate(dir.built, dir.newest))
  /\ UNCHANGED <<now, dev, dir, past>>

(* .prepared_check: the list as it was at the last check, and the times. *)
CheckPrepared ==
  /\ make.pc = "checked"
  /\ make' = Checked("prepare", "prepared",
                /\ dir.dep_files \subseteq {Listing}
                /\ \A f \in Listing : UpToDate(dir.prepared.time, dev.mtime[f]))
  /\ dir' = [dir EXCEPT !.dep_files = IF "prepared" \in make.checks THEN {Listing} ELSE {}]
  /\ UNCHANGED <<now, dev, past>>

(* rm -rf of the build directory takes what is there in any order; of the  *)
(* tree, the first file that goes stands for the others, and the newest of *)
(* those left may be older.                                                *)
Redo == "prepared" \notin make.checks \/ "prepared" \in make.need
StartWipe == Redo /\ From("prepare", "wiping") /\ UNCHANGED <<dir, past>>
Remove(what) ==
  /\ make.pc = "wiping"
  /\ \/ what = "tree" /\ \E t \in 0..dir.newest :
          dir' = [dir EXCEPT !.tree = NoTree, !.newest = t]
     \/ what = "prepared" /\ dir' = [dir EXCEPT !.prepared = Wiped.prepared]
     \/ what = "configured" /\ dir' = [dir EXCEPT !.configured = Wiped.configured]
     \/ what = "built" /\ dir' = [dir EXCEPT !.built = Missing]
     \/ what = "dep_files" /\ dir' = [dir EXCEPT !.dep_files = {}]
  /\ dir' # dir
  /\ past' = [past EXCEPT !.torn = TRUE]
  /\ UNCHANGED <<now, dev, make>>
Wipe ==
  /\ From("wiping", "wiped")
  /\ dir' = [Wiped EXCEPT !.output = dir.output]
  /\ past' = [past EXCEPT !.raced = IF past.quiet THEN {} ELSE {"prepared"}, !.torn = FALSE]
Keep == ~Redo /\ From("prepare", "configure") /\ UNCHANGED <<dir, past>>

(* Build/Prepare. *)
Copy ==
  /\ From("wiped", "copied")
  /\ dir' = [dir EXCEPT !.tree.src = dev.version]
  /\ UNCHANGED past
StampPrepared ==
  /\ From("copied", "configure")
  /\ dir' = [dir EXCEPT !.prepared = [of |-> make.list, time |-> now], !.newest = now]
  /\ UNCHANGED past

(* Build/Configure; the stamps of other settings go only after it. *)
StartConfigure ==
  /\ dir.configured[make.conf] = Missing /\ From("configure", "configuring")
  /\ dir' = [dir EXCEPT !.tree.conf = NoConf, !.newest = now]
  /\ UNCHANGED past
StampConfigured ==
  /\ From("configuring", "build")
  /\ dir' = [dir EXCEPT !.tree.conf = make.conf, !.newest = now, !.outdated = TRUE,
                        !.configured = [c \in Config |-> IF c = make.conf THEN now ELSE Missing]]
  /\ past' = [past EXCEPT !.raced = @ \ {"configured"}]
Configured == dir.configured[make.conf] # Missing /\ From("configure", "build") /\ UNCHANGED <<dir, past>>

(* Build/Compile. *)
Remade == dir.built = Missing \/ dir.outdated \/ "built" \in make.need
StartCompile ==
  /\ Remade /\ From("build", "compiling")
  /\ dir' = [dir EXCEPT !.built = Missing]
  /\ past' = [past EXCEPT !.raced = @ \ {"built"}]
Compile ==
  /\ From("compiling", "compiled")
  /\ dir' = [dir EXCEPT !.output = dir.tree, !.newest = now]
  /\ UNCHANGED past
StampBuilt ==
  /\ From("compiled", "done")
  /\ dir' = [dir EXCEPT !.built = now, !.outdated = FALSE]
  /\ UNCHANGED past
Built == ~Remade /\ From("build", "done") /\ UNCHANGED <<dir, past>>

Done == From("done", "idle") /\ UNCHANGED <<dir, past>>

(* make is interrupted; the stamps are .PRECIOUS. *)
Interrupt ==
  /\ make.pc \notin {"idle", "done"} /\ make.kills < MaxInterrupts
  /\ make' = [make EXCEPT !.pc = "idle", !.kills = @ + 1]
  /\ past' = [past EXCEPT !.raced =
       IF make.pc = "configuring" /\ \E c \in Config : dir.configured[c] # Missing
       THEN @ \cup {"configured"} ELSE @]
  /\ UNCHANGED <<now, dev, dir>>

StampNext ==
  \/ \E f \in Src, v \in {0, dev.changes + 2} : Edit(f, v)
  \/ \E c \in Config : SetConfig(c)
  \/ EditTree \/ Tick \/ Interrupt
  \/ Start \/ CheckBuilt \/ CheckPrepared \/ StartWipe \/ Wipe
  \/ \E what \in {"tree", "prepared", "configured", "built", "dep_files"} : Remove(what)
  \/ Keep \/ Copy \/ StampPrepared
  \/ StartConfigure \/ StampConfigured \/ Configured
  \/ StartCompile \/ Compile \/ StampBuilt \/ Built \/ Done

StampSpec == StampInit /\ [][StampNext]_stampVars

-----------------------------------------------------------------------------
(* "Automatically rebuild packages when their files change"                *)
(* (config/Config-devel.in:32): a make during which nothing was changed    *)
(* ends with everything built from the files as they are, whatever was     *)
(* interrupted before.  Three kinds of changes are missed: in the second a *)
(* stamp was made, while its recipe was running, and back to the old       *)
(* settings after a Build/Configure was interrupted.  So is one kind of    *)
(* damage: the stamps that an interrupted removal of the build directory   *)
(* leaves are trusted once the list of files is theirs.                    *)
BuiltFromFiles ==
  make.pc = "done" /\ past.quiet /\ ~past.torn =>
    /\ \A f \in Src :
         \/ dir.tree.src[f] = dev.version[f]
         \/ "prepared" \in past.raced
         \/ dev.version[f] # 0 /\ dev.mtime[f] = dir.prepared.time
    /\ dir.tree.conf = dev.conf \/ "configured" \in past.raced
    /\ \/ dir.output = dir.tree
       \/ past.raced \cap {"built", "configured"} # {} \/ past.edited = dir.built
=============================================================================
