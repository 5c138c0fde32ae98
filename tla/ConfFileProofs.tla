--------------------------- MODULE ConfFileProofs ---------------------------
(***************************************************************************)
(* conf_write() implements ConfStore, for any number of writers and any    *)
(* configurations; the files conf_write_autoconf() makes lead to every     *)
(* rebuild they should, for every set of symbols and values; and a session *)
(* of menuconfig ends quietly only when nothing is lost, and shows the     *)
(* titles of the menus it is in.                                           *)
(***************************************************************************)
EXTENDS ConfFile, AutoConf, Mconf, TLAPS, WellFoundedInduction

(* A file that is about to be renamed to .config holds the configuration,  *)
(* unless the disk is full.                                                *)
PrintedWhole ==
  \A w \in Writer :
    pc[w] \in {"backup", "publish"}
    => /\ ~overwrite
       /\ tmp[w] = arg[w] \/ (full /\ tmp[w] = Broken)

IInv == Types /\ PrintedWhole

(* Nothing is printed at the start.                                        *)
LEMMA InitHolds == Init => IInv
  BY DEF Init, IInv, Types, File, Places, PrintedWhole

(* Every step of a writer keeps what the other writers have printed: each  *)
(* prints to a file named after its process.                               *)
LEMMA StepKeeps == IInv /\ [Next]_vars => IInv'
  <1> SUFFICES ASSUME IInv, [Next]_vars PROVE IInv'
    OBVIOUS
  <1> USE DEF IInv, Goto, Exit
  <1>1. ASSUME NEW w \in Writer, NEW v \in Config, Call(w, v) PROVE IInv'
    <2>1. Types'
      BY <1>1 DEF Call, Types, Places
    <2> QED
      BY <1>1, <2>1 DEF Call, Types, PrintedWhole
  <1>2. ASSUME NEW w \in Writer, Open(w) PROVE IInv'
    <2>1. Types'
      BY <1>2 DEF Open, Types, File, Places
    <2> QED
      BY <1>2, <2>1 DEF Open, Types, PrintedWhole
  <1>3. ASSUME NEW w \in Writer, PrintLines(w) PROVE IInv'
    <2>1. PICK data \in {arg[w]} \cup (IF full THEN {Broken} ELSE {}) :
            IF overwrite THEN config' = data /\ UNCHANGED tmp
                         ELSE tmp' = [tmp EXCEPT ![w] = data] /\ UNCHANGED config
      BY <1>3 DEF PrintLines
    <2>2. data \in File /\ (data = arg[w] \/ (full /\ data = Broken))
      BY DEF Types, File
    <2>3. Types'
      BY <1>3, <2>1, <2>2 DEF PrintLines, Types, Places
    <2> QED
      BY <1>3, <2>1, <2>2, <2>3 DEF PrintLines, Types, PrintedWhole
  <1>4. ASSUME NEW w \in Writer, Backup(w) PROVE IInv'
    <2>1. Types'
      BY <1>4 DEF Backup, Types, File, Places
    <2> QED
      BY <1>4, <2>1 DEF Backup, Types, PrintedWhole
  <1>5. ASSUME NEW w \in Writer, Publish(w) PROVE IInv'
    <2>1. Types'
      BY <1>5 DEF Publish, Types, File, Places
    <2> QED
      BY <1>5, <2>1 DEF Publish, Types, PrintedWhole
  <1>6. ASSUME NEW w \in Writer, OpenFails(w) \/ PublishFails(w) \/ Return(w) \/ Kill(w)
        PROVE  IInv'
    <2>1. \E r \in {"none", "ok", "error"} : Exit(w, r)
      BY <1>6 DEF OpenFails, PublishFails, Return, Kill
    <2>2. UNCHANGED <<config, old, tmp, arg, full, overwrite>>
      BY <1>6 DEF OpenFails, PublishFails, Return, Kill
    <2>3. Types'
      BY <2>1, <2>2 DEF Types, Places
    <2> QED
      BY <2>1, <2>2, <2>3 DEF Types, PrintedWhole
  <1>7. CASE UNCHANGED vars
    BY <1>7 DEF vars, Types, PrintedWhole
  <1> QED
    BY <1>1, <1>2, <1>3, <1>4, <1>5, <1>6, <1>7 DEF Next

-----------------------------------------------------------------------------
(* What a return, an error and a kill do to the calls of ConfStore. *)
LEMMA ExitReturns ==
  ASSUME IInv, NEW w \in Writer, NEW r \in {"none", "ok", "error"},
         Exit(w, r), UNCHANGED <<config, old, tmp, arg, full, overwrite>>,
         \/ r = "ok" /\ CallOf(w) = "stored"
         \/ r = "error" /\ CallOf(w) = "called"
         \/ r = "none" /\ CallOf(w) # "none"
  PROVE  Store!Return(w, r)
  <1>1. [x \in Writer |-> CallOf(x)]' = [[x \in Writer |-> CallOf(x)] EXCEPT ![w] = "none"]
    BY DEF Exit, Goto, CallOf, IInv, Types
  <1> QED
    BY <1>1 DEF Store!Return, Exit, Had

(* A step of conf_write() is a step of ConfStore, or none. *)
LEMMA StepRefines == IInv /\ [Next]_vars => [Store!Next]_(Store!storeVars)
  <1> SUFFICES ASSUME IInv, [Next]_vars PROVE [Store!Next]_(Store!storeVars)
    OBVIOUS
  <1> DEFINE calls == [x \in Writer |-> CallOf(x)]
  <1> USE DEF IInv, Goto
  <1>1. ASSUME NEW w \in Writer, NEW v \in Config, Call(w, v) PROVE Store!Call(w, v)
    <2>1. calls' = [calls EXCEPT ![w] = "called"] /\ calls[w] = "none"
      BY <1>1 DEF Call, CallOf, Types
    <2> QED
      BY <1>1, <2>1 DEF Call, Store!Call, Had
  <1>2. ASSUME NEW w \in Writer, Open(w)
        PROVE  Store!Damage(w) \/ UNCHANGED Store!storeVars
    <2>1. calls' = calls /\ calls[w] = "called"
      BY <1>2 DEF Open, CallOf, Types
    <2>2. CASE overwrite
      BY <1>2, <2>1, <2>2, FileAssumption DEF Open, Store!Damage, Had
    <2>3. CASE ~overwrite
      BY <1>2, <2>1, <2>3 DEF Open, Store!storeVars, Had
    <2> QED
      BY <2>2, <2>3
  <1>3. ASSUME NEW w \in Writer, PrintLines(w)
        PROVE  Store!Store(w) \/ UNCHANGED Store!storeVars
    <2>1. PICK data \in {arg[w]} \cup (IF full THEN {Broken} ELSE {}) :
            IF overwrite THEN config' = data /\ UNCHANGED tmp
                         ELSE tmp' = [tmp EXCEPT ![w] = data] /\ UNCHANGED config
      BY <1>3 DEF PrintLines
    <2>2. data # Missing
      BY FileAssumption DEF Types
    <2>3. CASE overwrite
      <3>1. calls' = [calls EXCEPT ![w] = "stored"] /\ calls[w] = "called"
        BY <1>3, <2>3 DEF PrintLines, CallOf, Types
      <3>2. Had' = data
        BY <2>1, <2>2, <2>3 DEF Had
      <3> QED
        BY <1>3, <2>1, <2>3, <3>1, <3>2 DEF PrintLines, Store!Store
    <2>4. CASE ~overwrite
      <3>1. calls' = calls
        BY <1>3, <2>4 DEF PrintLines, CallOf, Types
      <3> QED
        BY <1>3, <2>1, <2>4, <3>1 DEF PrintLines, Store!storeVars, Had
    <2> QED
      BY <2>3, <2>4
  <1>4. ASSUME NEW w \in Writer, Backup(w) PROVE UNCHANGED Store!storeVars
    <2>1. calls' = calls
      BY <1>4 DEF Backup, CallOf, Types
    <2> QED
      BY <1>4, <2>1 DEF Backup, Store!storeVars, Had
  <1>5. ASSUME NEW w \in Writer, Publish(w) PROVE Store!Store(w)
    <2>1. calls' = [calls EXCEPT ![w] = "stored"] /\ calls[w] = "called"
      BY <1>5 DEF Publish, CallOf, Types
    <2>2. tmp[w] = arg[w] \/ (full /\ tmp[w] = Broken)
      BY <1>5 DEF Publish, PrintedWhole
    <2>3. Had' = tmp[w]
      BY <1>5, <2>2, FileAssumption DEF Publish, Had, Types
    <2> QED
      BY <1>5, <2>1, <2>2, <2>3 DEF Publish, Store!Store
  <1>6. ASSUME NEW w \in Writer, OpenFails(w) \/ PublishFails(w) PROVE Store!Return(w, "error")
    <2>1. CallOf(w) = "called"
      BY <1>6 DEF OpenFails, PublishFails, CallOf
    <2> QED
      BY <1>6, <2>1, ExitReturns DEF OpenFails, PublishFails
  <1>7. ASSUME NEW w \in Writer, Return(w) PROVE Store!Return(w, "ok")
    <2>1. CallOf(w) = "stored"
      BY <1>7 DEF Return, CallOf
    <2> QED
      BY <1>7, <2>1, ExitReturns DEF Return
  <1>8. ASSUME NEW w \in Writer, Kill(w) PROVE Store!Return(w, "none")
    <2>1. CallOf(w) # "none"
      BY <1>8 DEF Kill, CallOf
    <2> QED
      BY <1>8, <2>1, ExitReturns DEF Kill
  <1>9. CASE UNCHANGED vars
    BY <1>9 DEF vars, Store!storeVars, Had, CallOf
  <1> QED
    BY <1>1, <1>2, <1>3, <1>4, <1>5, <1>6, <1>7, <1>8, <1>9 DEF Next, Store!Next

(* The files conf_write() leaves are, seen together, a store that saves at *)
(* one moment (confdata.c:744-842).                                        *)
THEOREM ConfWriteSavesAtOnce == Spec => SavesAtOnce
  <1>1. Init => Store!Init
    BY FileAssumption DEF Init, Store!Init, Had, CallOf
  <1> QED
    BY <1>1, InitHolds, StepKeeps, StepRefines, PTL DEF Spec, SavesAtOnce, Store!Spec

-----------------------------------------------------------------------------
(* The files made from it: conf_write_autoconf().                          *)

(* auto.conf never says no: the printers leave no out.                     *)
NoPrintedNo == \A s \in Sym : auto[s] # "n"

(* A symbol whose file was not touched is compiled as auto.conf says,      *)
(* whatever header and .config say by now.                                 *)
BuiltAsAuto == \A s \in Sym \ touched : built[s] = auto[s]

(* A symbol that changed is touched, or still to be touched in the split.  *)
ChangesMarked ==
  /\ step # "idle" => \A s \in Sym : Changed(s) => s \in touched \cup todo
  /\ step \notin {"idle", "split"} => todo = {}

(* What each step leaves is there in the next ones. *)
RenamedInOrder ==
  /\ step \in {"tristate", "auto"} => header = Printed(dotconfig)
  /\ step = "auto" => tristate = PrintedTristate(dotconfig)

FreshMeansAll ==
  fresh => /\ step = "idle"
           /\ auto = Printed(dotconfig) /\ header = Printed(dotconfig)
           /\ tristate = PrintedTristate(dotconfig)

AutoInv ==
  AutoTypes /\ NoPrintedNo /\ BuiltAsAuto /\ ChangesMarked /\ RenamedInOrder /\ FreshMeansAll

-----------------------------------------------------------------------------
(* A printed configuration is one (conf_write_autoconf(), 989-1008). *)
LEMMA PrintedIsConfig ==
  ASSUME NEW c \in Configs
  PROVE  Printed(c) \in Configs /\ PrintedTristate(c) \in Configs
  <1> DEFINE All == UNION {ValuesOf(s) : s \in Sym}
  <1>1. \A s \in Sym : c[s] \in ValuesOf(s) /\ "none" \in ValuesOf(s)
    BY DEF Configs, ValuesOf
  <1>2. \A s \in Sym : ValuesOf(s) \subseteq All
    OBVIOUS
  <1>3. \A s \in Sym : Printed(c)[s] \in ValuesOf(s)
    BY <1>1 DEF Printed
  <1>4. Printed(c) \in [Sym -> All]
    BY <1>2, <1>3 DEF Printed
  <1>5. \A s \in Sym : PrintedTristate(c)[s] \in ValuesOf(s)
    BY <1>1, <1>3 DEF PrintedTristate
  <1>6. PrintedTristate(c) \in [Sym -> All]
    BY <1>2, <1>5 DEF PrintedTristate
  <1> QED
    BY <1>3, <1>4, <1>5, <1>6 DEF Configs

(* conf_split_config() passes over a symbol only if auto.conf is going to  *)
(* say the same of it.                                                     *)
LEMMA UnchangedPrintsSame ==
  ASSUME NoPrintedNo, NEW s \in Sym, ~Changed(s)
  PROVE  Printed(dotconfig)[s] = auto[s]
  BY DEF NoPrintedNo, Changed, Printed

(* A value at one symbol replaced by one of the symbol is a configuration. *)
LEMMA ExceptIsConfig ==
  ASSUME NEW b \in Configs, NEW c \in Configs, NEW s \in Sym
  PROVE  [b EXCEPT ![s] = c[s]] \in Configs
  BY DEF Configs

(* At the start there is nothing built and no file.                        *)
LEMMA AutoInitHolds == AutoInit => AutoInv
  <1> SUFFICES ASSUME AutoInit PROVE AutoInv
    OBVIOUS
  <1>1. auto \in Configs
    BY DEF AutoInit, Configs, ValuesOf
  <1> QED
    BY <1>1 DEF AutoInit, AutoInv, AutoTypes, NoPrintedNo, BuiltAsAuto, ChangesMarked, RenamedInOrder,
                FreshMeansAll, Configs

(* Every step of conf_write_autoconf(), of the user and of make keeps it.  *)
LEMMA AutoStepKeeps == AutoInv /\ [AutoNext]_autoVars => AutoInv'
  <1> SUFFICES ASSUME AutoInv, [AutoNext]_autoVars PROVE AutoInv'
    OBVIOUS
  <1> USE DEF AutoInv
  <1>1. ASSUME NEW c \in Configs, Edit(c) PROVE AutoInv'
    BY <1>1 DEF Edit, files, AutoTypes, NoPrintedNo, BuiltAsAuto, ChangesMarked, RenamedInOrder,
                FreshMeansAll
  <1>2. CASE Begin
    <2>1. AutoTypes'
      BY <1>2 DEF Begin, files, AutoTypes
    <2>2. ChangesMarked'
      BY <1>2 DEF Begin, files, ChangesMarked, Changed
    <2> QED
      BY <1>2, <2>1, <2>2 DEF Begin, files, NoPrintedNo, BuiltAsAuto, RenamedInOrder,
                              FreshMeansAll
  <1>3. CASE PrintAll
    <2>1. ChangesMarked'
      BY <1>3 DEF PrintAll, files, ChangesMarked, Changed
    <2> QED
      BY <1>3, <2>1 DEF PrintAll, files, AutoTypes, NoPrintedNo, BuiltAsAuto, RenamedInOrder,
                        FreshMeansAll
  <1>4. CASE RenameHeader
    <2>1. AutoTypes'
      BY <1>4, PrintedIsConfig DEF RenameHeader, AutoTypes
    <2>2. ChangesMarked'
      BY <1>4 DEF RenameHeader, ChangesMarked, Changed
    <2>3. RenamedInOrder'
      BY <1>4 DEF RenameHeader, Printed, RenamedInOrder
    <2> QED
      BY <1>4, <2>1, <2>2, <2>3 DEF RenameHeader, NoPrintedNo, BuiltAsAuto, FreshMeansAll
  <1>5. CASE RenameTristate
    <2>1. AutoTypes'
      BY <1>5, PrintedIsConfig DEF RenameTristate, AutoTypes
    <2>2. ChangesMarked'
      BY <1>5 DEF RenameTristate, ChangesMarked, Changed
    <2>3. RenamedInOrder'
      BY <1>5 DEF RenameTristate, PrintedTristate, Printed, RenamedInOrder
    <2> QED
      BY <1>5, <2>1, <2>2, <2>3 DEF RenameTristate, NoPrintedNo, BuiltAsAuto, FreshMeansAll
  <1>6. CASE RenameAuto
    <2>1. AutoTypes'
      BY <1>6, PrintedIsConfig DEF RenameAuto, AutoTypes
    <2>2. NoPrintedNo'
      BY <1>6 DEF RenameAuto, NoPrintedNo, Printed
    <2>3. BuiltAsAuto'
      <3>1. SUFFICES ASSUME NEW s \in Sym \ touched PROVE built[s] = Printed(dotconfig)[s]
        BY <1>6 DEF RenameAuto, BuiltAsAuto
      <3>2. ~Changed(s)
        BY <1>6 DEF RenameAuto, ChangesMarked
      <3> QED
        BY <3>2, UnchangedPrintsSame DEF BuiltAsAuto
    <2>4. ChangesMarked' /\ RenamedInOrder'
      BY <1>6 DEF RenameAuto, ChangesMarked, RenamedInOrder
    <2>5. FreshMeansAll'
      BY <1>6 DEF RenameAuto, RenamedInOrder, FreshMeansAll, Printed, PrintedTristate
    <2> QED
      BY <2>1, <2>2, <2>3, <2>4, <2>5
  <1>7. CASE Abort
    BY <1>7 DEF Abort, files, AutoTypes, NoPrintedNo, BuiltAsAuto, ChangesMarked, RenamedInOrder,
                FreshMeansAll
  <1>8. ASSUME NEW s \in Sym, Touch(s) PROVE AutoInv'
    <2>1. ChangesMarked'
      BY <1>8 DEF Touch, files, ChangesMarked, Changed
    <2> QED
      BY <1>8, <2>1 DEF Touch, files, AutoTypes, NoPrintedNo, BuiltAsAuto, RenamedInOrder,
                        FreshMeansAll
  <1>9. ASSUME NEW s \in Sym, Compile(s) PROVE AutoInv'
    <2>1. AutoTypes'
      BY <1>9, ExceptIsConfig DEF Compile, files, AutoTypes
    <2>2. BuiltAsAuto'
      BY <1>9 DEF Compile, files, BuiltAsAuto, FreshMeansAll, AutoTypes, Configs
    <2>3. ChangesMarked'
      BY <1>9 DEF Compile, files, ChangesMarked
    <2> QED
      BY <1>9, <2>1, <2>2, <2>3 DEF Compile, files, NoPrintedNo, RenamedInOrder, FreshMeansAll
  <1>10. CASE UNCHANGED autoVars
    BY <1>10 DEF autoVars, AutoTypes, NoPrintedNo, BuiltAsAuto, ChangesMarked, Changed,
                 RenamedInOrder, FreshMeansAll
  <1> QED
    BY <1>1, <1>2, <1>3, <1>4, <1>5, <1>6, <1>7, <1>8, <1>9, <1>10 DEF AutoNext

-----------------------------------------------------------------------------
(* An auto.conf newer than .config means that all the other files are of   *)
(* the same configuration and that no user of a changed symbol is missed   *)
(* by make (confdata.c:849-1032).                                          *)
THEOREM AutoConfRebuilds == AutoSpec => []Rebuilds
  <1>1. AutoInv => Rebuilds
    BY DEF AutoInv, BuiltAsAuto, FreshMeansAll, Rebuilds
  <1> QED
    BY <1>1, AutoInitHolds, AutoStepKeeps, PTL DEF AutoSpec

(* conf_split_config() (849) compares with the auto.conf of the last call  *)
(* that went to its end, so that what an interrupted call touched is never *)
(* forgotten: outside of the touched symbols, auto.conf is what was built. *)
THEOREM AutoConfIsBuilt == AutoSpec => []BuiltAsAuto
  <1>1. AutoInv => BuiltAsAuto
    BY DEF AutoInv
  <1> QED
    BY <1>1, AutoInitHolds, AutoStepKeeps, PTL DEF AutoSpec

-----------------------------------------------------------------------------
(* A session of menuconfig.                                                *)

Fields ==
  {"stack", "trail", "subtitles", "mem", "changed", "file", "filename", "end", "unnoticed"}
IsConf(c) == c = [f \in Fields |-> c[f]]

(* Where neither sym_change_count nor a step that misses it tells of a     *)
(* change, the file a save would go to has what is in memory: what         *)
(* handle_exit() counts on, whatever functions wait for a dialog.  It must *)
(* hold before the program ends, and a quiet end keeps it.                 *)
Noticed(c) ==
  (~c.changed \/ c.end = "quiet") /\ ~c.unnoticed
  => c.mem = c.file[c.filename]
GoodConf(c) ==
  /\ IsConf(c)
  /\ c.mem \in Settings /\ c.file \in [Name -> Settings \cup {NoFile}] /\ c.filename \in Name
  /\ c.changed \in BOOLEAN /\ c.unnoticed \in BOOLEAN
  /\ Noticed(c)
SessionInv == GoodConf(conf)

(* A file that exists is not taken for one that does not.                  *)
LEMMA FilesAreSettings == NoFile \notin Settings /\ Defaults \in Settings
BY SessionAssumption DEF NoFile, Settings, Defaults

(* What the stack and the titles are does not matter, nor how the program  *)
(* ends when it has asked.                                                 *)
SameSymbols(c, d) ==
  /\ IsConf(d)
  /\ d.mem = c.mem /\ d.file = c.file /\ d.filename = c.filename
  /\ d.changed = c.changed /\ d.unnoticed = c.unnoticed
  /\ d.end = "quiet" => c.end = "quiet"

LEMMA TitlesDoNotMatter ==
  ASSUME NEW c, NEW d, GoodConf(c), SameSymbols(c, d) PROVE GoodConf(d)
BY DEF GoodConf, SameSymbols, Noticed

(* set_subtitle() and reset_subtitle().                                    *)
LEMMA TitlesSame ==
  ASSUME NEW c, IsConf(c)
  PROVE  SameSymbols(c, SetSubtitle(c)) /\ SameSymbols(c, ResetSubtitle(c))
BY DEF IsConf, Fields, SameSymbols, SetSubtitle, ResetSubtitle

(* A function is called, which waits for a dialog.                         *)
LEMMA PushSame ==
  ASSUME NEW c, IsConf(c), NEW fn, NEW title
  PROVE  SameSymbols(c, Push(c, fn, title))
BY DEF IsConf, Fields, SameSymbols, Push

(* And a function that returns.                                            *)
LEMMA PopSame == ASSUME NEW c, IsConf(c) PROVE SameSymbols(c, Pop(c))
<1> DEFINE d == [c EXCEPT !.stack = Front(@)]
<1>1. SameSymbols(c, d)
  <2> HIDE DEF Front
  <2> QED BY DEF IsConf, Fields, SameSymbols
<1>2. SameSymbols(d, SetSubtitle(d)) BY <1>1, TitlesSame DEF SameSymbols
<1>3. Pop(c) = d \/ Pop(c) = SetSubtitle(d) BY DEF Pop
<1> HIDE DEF d
<1> QED BY <1>1, <1>2, <1>3 DEF SameSymbols

(* conf(): the title of a menu.                                            *)
LEMMA EnterConfSame ==
  ASSUME NEW c, IsConf(c), NEW title PROVE SameSymbols(c, EnterConf(c, title))
<1> DEFINE d == Push(c, "conf", title)
           t == [d EXCEPT !.trail = Append(@, title)]
<1>1. SameSymbols(c, d) BY PushSame
<1>2. SameSymbols(d, t)
  <2> HIDE DEF d
  <2> QED BY <1>1 DEF IsConf, Fields, SameSymbols
<1>3. SameSymbols(t, SetSubtitle(t)) BY <1>2, TitlesSame DEF SameSymbols
<1>4. EnterConf(c, title) = SetSubtitle(t) BY DEF EnterConf
<1> HIDE DEF d, t
<1> QED BY <1>1, <1>2, <1>3, <1>4 DEF SameSymbols

(* Any change of the symbols, and a file that is written and named as the  *)
(* one to save to.                                                         *)
LEMMA MemGood ==
  ASSUME NEW c, GoodConf(c), c.end # "quiet", NEW new \in Settings
  PROVE  GoodConf(Mem(c, new))
BY DEF GoodConf, Noticed, IsConf, Fields, Mem

LEMMA WrittenGood ==
  ASSUME NEW c, GoodConf(c), NEW name \in Name
  PROVE  GoodConf([Written(c, name) EXCEPT !.filename = name])
<1> DEFINE d == [Written(c, name) EXCEPT !.filename = name]
<1>1. IsConf(d) /\ d.mem = c.mem /\ d.filename = name /\ d.changed = FALSE /\ d.unnoticed = FALSE
      /\ d.file = [c.file EXCEPT ![name] = c.mem]
  BY DEF GoodConf, IsConf, Fields, Written
<1>2. c.mem \in Settings /\ c.file \in [Name -> Settings \cup {NoFile}] BY DEF GoodConf
<1>3. d.file \in [Name -> Settings \cup {NoFile}] /\ d.file[name] = c.mem
  <2> HIDE DEF d
  <2> QED BY <1>1, <1>2
<1>4. c.mem # NoFile BY <1>2, FilesAreSettings
<1> HIDE DEF d
<1>5. GoodConf(d) BY <1>1, <1>2, <1>3, <1>4 DEF GoodConf, Noticed
<1> QED BY <1>5 DEF d

(* main() reads .config, where there is one.                               *)
LEMMA StartedGood ==
  ASSUME NEW file \in [Name -> Settings \cup {NoFile}] PROVE GoodConf(Started(file))
<1> DEFINE first == [stack |-> <<>>, trail |-> <<>>, subtitles |-> <<>>,
                     changed |-> file[DotConfig] = NoFile, file |-> file,
                     filename |-> DotConfig, end |-> "no", unnoticed |-> FALSE,
                     mem |-> IF file[DotConfig] = NoFile THEN Defaults ELSE file[DotConfig]]
<1>1. file[DotConfig] \in Settings \cup {NoFile} BY SessionAssumption
<1>2. IsConf(first) BY DEF IsConf, Fields
<1>3. GoodConf(first)
  BY <1>1, <1>2, FilesAreSettings, SessionAssumption DEF GoodConf, Noticed
<1>4. SameSymbols(first, EnterConf(first, "none")) BY <1>2, EnterConfSame
<1>5. Started(file) = EnterConf(first, "none") BY DEF Started
<1> HIDE DEF first
<1> QED BY <1>3, <1>4, <1>5, TitlesDoNotMatter

(* The session starts with what is in .config.                             *)
LEMMA SessionStarts == SessionInit => SessionInv
BY StartedGood DEF SessionInit, SessionInv

(* No dialog and no answer lets a change go unnoticed, but for the two     *)
(* that the code misses.                                                   *)
LEMMA SessionStepKeeps == SessionInv /\ [SessionNext]_conf => SessionInv'
<1> SUFFICES ASSUME GoodConf(conf), [SessionNext]_conf PROVE GoodConf(conf')
  BY DEF SessionInv, GoodConf, IsConf, Noticed
<1> USE DEF GoodConf
<1>0. IsConf(conf) OBVIOUS
<1>p. GoodConf(Pop(conf)) /\ (conf.end = "no" => Pop(conf).end # "quiet")
  BY PopSame, TitlesDoNotMatter DEF SameSymbols
<1>1. ASSUME NEW title, Submenu(title) \/ Jump(title) PROVE GoodConf(conf')
  <2> HIDE DEF GoodConf
  <2>1. conf' = EnterConf(conf, title) BY <1>1 DEF Submenu, Jump
  <2> QED BY <2>1, <1>0, EnterConfSame, TitlesDoNotMatter
<1>2. ASSUME NEW fn, Enter(fn) PROVE GoodConf(conf')
  <2> HIDE DEF GoodConf
  <2> DEFINE c == IF fn \in {"load", "save"} THEN ResetSubtitle(conf) ELSE conf
  <2>1. GoodConf(c) BY <1>0, TitlesSame, TitlesDoNotMatter
  <2>2. conf' = Push(c, fn, "none") BY <1>2 DEF Enter
  <2>3. IsConf(c) BY <2>1 DEF GoodConf
  <2> HIDE DEF c
  <2> QED BY <2>1, <2>2, <2>3, PushSame, TitlesDoNotMatter
<1>3. ASSUME NEW a \in Answer \cup {Unset}, SetAnswer(a) PROVE GoodConf(conf')
  <2>1. [conf.mem EXCEPT !.other = a] \in Settings BY DEF Settings
  <2> HIDE DEF GoodConf
  <2> QED BY <2>1, <1>3, MemGood DEF SetAnswer, In, Runs
<1>4. ASSUME NEW a \in Answer \cup {Unset}, StringEntered(a) PROVE GoodConf(conf')
  <2>1. [conf.mem EXCEPT !.other = a] \in Settings BY DEF Settings
  <2> HIDE DEF GoodConf
  <2> QED BY <2>1, <1>4, <1>p, MemGood DEF StringEntered, In, Runs
<1>5. ASSUME NEW v \in Value, ChoiceSelect(v) PROVE GoodConf(conf')
  <2> DEFINE reset == [Defaults EXCEPT !.choice = v]
  <2>1. reset \in Settings BY FilesAreSettings DEF Settings
  <2>2. CASE v = Pop(conf).mem.choice
    <3> HIDE DEF GoodConf
    <3> QED BY <2>2, <1>5, <1>p DEF ChoiceSelect
  <2>3. CASE v # Pop(conf).mem.choice /\ v # Default
    <3>1. conf' = Mem(Pop(conf), reset) BY <2>3, <1>5 DEF ChoiceSelect
    <3>2. conf.end = "no" BY <1>5 DEF ChoiceSelect, In, Runs
    <3> HIDE DEF GoodConf, reset
    <3> QED BY <3>1, <3>2, <2>1, <1>p, MemGood
  <2>4. CASE v # Pop(conf).mem.choice /\ v = Default
    <3>1. conf' = [Pop(conf) EXCEPT !.mem = reset, !.unnoticed = TRUE]
      BY <2>4, <1>5 DEF ChoiceSelect
    <3> DEFINE c == Pop(conf)
    <3>2. GoodConf(c) BY <1>p
    <3> HIDE DEF c, reset
    <3>3. conf' = [c EXCEPT !.mem = reset, !.unnoticed = TRUE] BY <3>1 DEF c
    <3> QED BY <3>2, <3>3, <2>1 DEF Noticed, IsConf, Fields
  <2> QED BY <2>2, <2>3, <2>4
<1>6. ASSUME NEW name \in Name, Load(name) PROVE GoodConf(conf')
  <2> DEFINE c == Mem(Pop(conf), conf.file[name])
  <2>1. conf.file[name] \in Settings /\ conf.end = "no" BY <1>6 DEF Load, In, Runs
  <2>2. GoodConf(c)
    <3> HIDE DEF GoodConf
    <3> QED BY <1>p, <2>1, MemGood
  <2>3. conf' = [c EXCEPT !.filename = name] BY <1>6 DEF Load
  <2>4. c.changed = TRUE /\ c.end # "quiet" BY <1>p, <2>1 DEF Mem, IsConf, Fields
  <2> HIDE DEF c
  <2> QED BY <2>2, <2>3, <2>4 DEF Noticed, IsConf, Fields
<1>7. ASSUME NEW name \in Name, LoadMissing(name) PROVE GoodConf(conf')
  BY <1>7 DEF LoadMissing, In, Runs, Noticed, IsConf, Fields
<1>8. ASSUME NEW name \in Name, Save(name) PROVE GoodConf(conf')
  <2> HIDE DEF GoodConf
  <2> QED BY <1>8, <1>p, WrittenGood DEF Save
<1>9. CASE LeaveConf \/ LeaveResults
  <2> DEFINE c == [conf EXCEPT !.trail = Front(@)]
  <2>1. SameSymbols(conf, c)
    <3> HIDE DEF Front
    <3> QED BY DEF IsConf, Fields, SameSymbols
  <2>2. conf' = Pop(c) BY <1>9 DEF LeaveConf, LeaveResults
  <2> HIDE DEF c, GoodConf
  <2>3. GoodConf(c) BY <2>1, TitlesDoNotMatter, <1>0 DEF GoodConf
  <2> QED BY <2>2, <2>3, PopSame, TitlesDoNotMatter DEF GoodConf
<1>10. CASE Escape
  <2> HIDE DEF GoodConf
  <2> QED BY <1>10, <1>p DEF Escape
<1>11. CASE Search
  <2> DEFINE c == Push(Pop(conf), "results", "search")
             t == [c EXCEPT !.trail = Append(@, "search")]
  <2>1. GoodConf(c)
    <3>1. IsConf(Pop(conf)) BY <1>p
    <3> HIDE DEF GoodConf
    <3> QED BY <3>1, <1>p, PushSame, TitlesDoNotMatter
  <2>2. conf' = SetSubtitle(t) BY <1>11 DEF Search
  <2> HIDE DEF c
  <2>3. SameSymbols(c, t) BY <2>1 DEF IsConf, Fields, SameSymbols
  <2> HIDE DEF t, GoodConf
  <2>4. GoodConf(t) BY <2>1, <2>3, TitlesDoNotMatter
  <2>5. IsConf(t) BY <2>4 DEF GoodConf
  <2> QED BY <2>2, <2>4, <2>5, TitlesSame, TitlesDoNotMatter
<1>12. CASE Start
  <2> QED BY <1>12, StartedGood DEF Start
<1>13. ASSUME NEW fn, conf' = HandleExit(conf, fn) PROVE GoodConf(conf')
  <2> DEFINE c == Push(conf, fn, "none")
             quiet == [ResetSubtitle(conf) EXCEPT !.end = "quiet"]
  <2>1. conf' = ResetSubtitle(c) \/ (~conf.changed /\ conf' = quiet) BY <1>13 DEF HandleExit
  <2>2. SameSymbols(conf, c) BY <1>0, PushSame
  <2>3. SameSymbols(c, ResetSubtitle(c)) BY <2>2, TitlesSame DEF SameSymbols
  <2>4. ~conf.changed => GoodConf(quiet)
    <3> DEFINE d == ResetSubtitle(conf)
    <3>1. SameSymbols(conf, d) BY <1>0, TitlesSame
    <3> HIDE DEF d
    <3>2. ~conf.changed => GoodConf([d EXCEPT !.end = "quiet"])
      BY <3>1 DEF IsConf, Fields, SameSymbols, Noticed
    <3> QED BY <3>2 DEF d
  <2> HIDE DEF c, quiet, GoodConf
  <2>5. GoodConf(ResetSubtitle(c)) BY <2>2, <2>3, TitlesDoNotMatter
  <2> QED BY <2>1, <2>4, <2>5
<1>14. CASE ExitSaves
  <2>1. CASE conf' = [Written(conf, conf.filename) EXCEPT !.end = "saved"]
    <3> DEFINE c == [Written(conf, conf.filename) EXCEPT !.filename = conf.filename]
    <3>1. GoodConf(c)
      <4>1. conf.filename \in Name OBVIOUS
      <4> HIDE DEF GoodConf
      <4> QED BY <4>1, WrittenGood
    <3>2. SameSymbols(c, conf') BY <2>1 DEF IsConf, Fields, SameSymbols, Written
    <3> HIDE DEF c, GoodConf
    <3> QED BY <3>1, <3>2, TitlesDoNotMatter
  <2>2. CASE conf' = [conf EXCEPT !.end = "failed"]
    <3>1. SameSymbols(conf, conf') BY <2>2 DEF IsConf, Fields, SameSymbols
    <3> HIDE DEF GoodConf
    <3> QED BY <3>1, TitlesDoNotMatter DEF GoodConf
  <2> QED BY <1>14, <2>1, <2>2 DEF ExitSaves
<1>15. CASE conf' = [conf EXCEPT !.end = "discarded"]
  <2>1. SameSymbols(conf, conf') BY <1>15 DEF IsConf, Fields, SameSymbols
  <2> HIDE DEF GoodConf
  <2> QED BY <2>1, TitlesDoNotMatter DEF GoodConf
<1>16. CASE conf' = EnterConf([conf EXCEPT !.stack = Front(@)], "none")
  <2> DEFINE c == [conf EXCEPT !.stack = Front(@)]
  <2>1. SameSymbols(conf, c)
    <3> HIDE DEF Front
    <3> QED BY DEF IsConf, Fields, SameSymbols
  <2> HIDE DEF c, GoodConf
  <2>2. GoodConf(c) /\ IsConf(c) BY <2>1, TitlesDoNotMatter, <1>0 DEF GoodConf
  <2>3. conf' = EnterConf(c, "none") BY <1>16 DEF c
  <2> QED BY <2>2, <2>3, EnterConfSame, TitlesDoNotMatter
<1>17. CASE UNCHANGED conf BY <1>17
<1> HIDE DEF GoodConf
<1> QED
  BY <1>1, <1>2, <1>3, <1>4, <1>5, <1>6, <1>7, <1>8, <1>9, <1>10, <1>11, <1>12, <1>13, <1>14,
     <1>15, <1>16, <1>17
  DEF SessionNext, MainExits, Interrupt, ExitDiscards, ExitEscape

(* handle_exit() (968) asks nothing only if the file that a save would go  *)
(* to is there and has the configuration, for any files, values and        *)
(* answers, through loads, saves, searches, signals and restarts.          *)
THEOREM ExitKeeps == SessionSpec => []QuietExitKeeps
<1>1. SessionInv => QuietExitKeeps
  BY DEF SessionInv, GoodConf, Noticed, QuietExitKeeps
<1> QED BY <1>1, SessionStarts, SessionStepKeeps, PTL DEF SessionSpec

-----------------------------------------------------------------------------
(* What holds of 0, and of each number up to n if of the one before.       *)
LEMMA UpTo ==
  ASSUME NEW n \in Nat, NEW P, 0 \in P, \A i \in 1..n : i - 1 \in P => i \in P
  PROVE  \A i \in 0..n : i \in P
<1> DEFINE Wrong == {i \in 0..n : i \notin P}
<1>1. SUFFICES ASSUME Wrong # {} PROVE FALSE
  OBVIOUS
<1>5. Wrong \subseteq Nat
  OBVIOUS
<1>2. PICK m \in Wrong : \A x \in Wrong : ~(<<x, m>> \in OpToRel(<, Nat))
  <2> HIDE DEF Wrong
  <2>q. QED
    BY <1>1, <1>5, NatLessThanWellFounded, WFMin
<1>3. \A x \in Wrong : ~(x < m)
  <2> HIDE DEF Wrong
  <2>q. QED
    BY <1>2, <1>5 DEF OpToRel
<1>4. m \in 1..n /\ m - 1 \in 0..n /\ m - 1 \notin Wrong
  BY <1>3
<1>q. QED
  BY <1>3, <1>4

-----------------------------------------------------------------------------
(* The titles above a dialog.                                              *)

(* The loop of set_subtitle() over the first n titles of s.                *)
Shown(s, n, f) ==
  f = [i \in 0..n |-> IF i = 0 THEN <<>>
                      ELSE IF s[i] = "none" THEN f[i - 1] ELSE Append(f[i - 1], s[i])]

LEMMA ShownRuns == ASSUME NEW s, NEW n \in Nat PROVE \E f : Shown(s, n, f)
<1> DEFINE P == {m \in 0..n : \E f : Shown(s, m, f)}
<1>1. 0 \in P
  <2> DEFINE f == [i \in 0..0 |-> <<>>]
  <2>1. f = [i \in 0..0 |-> IF i = 0 THEN <<>>
                            ELSE IF s[i] = "none" THEN f[i - 1] ELSE Append(f[i - 1], s[i])]
    OBVIOUS
  <2> HIDE DEF f
  <2>q. QED
    BY <2>1 DEF Shown
<1>2. ASSUME NEW m \in 1..n, m - 1 \in P PROVE m \in P
  <2>1. PICK f : Shown(s, m - 1, f)
    BY <1>2
  <2> DEFINE new == IF s[m] = "none" THEN f[m - 1] ELSE Append(f[m - 1], s[m])
             g == [i \in 0..m |-> IF i = m THEN new ELSE f[i]]
  <2>2. g = [i \in 0..m |-> g[i]] /\ g[m] = new /\ \A i \in 0..(m - 1) : g[i] = f[i]
    OBVIOUS
  <2> HIDE DEF g
  <2>3. ASSUME NEW i \in 0..m
        PROVE  g[i] = IF i = 0 THEN <<>>
                      ELSE IF s[i] = "none" THEN g[i - 1] ELSE Append(g[i - 1], s[i])
    <3>1. CASE i = m
      <4>1. m # 0 /\ m - 1 \in 0..(m - 1)
        OBVIOUS
      <4>2. g[m - 1] = f[m - 1]
        BY <2>2, <4>1
      <4>q. QED
        BY <2>2, <3>1, <4>1, <4>2, Zenon
    <3>2. CASE i # m
      <4>1. i \in 0..(m - 1) /\ (i # 0 => i - 1 \in 0..(m - 1))
        BY <3>2
      <4>2. f[i] = IF i = 0 THEN <<>>
                   ELSE IF s[i] = "none" THEN f[i - 1] ELSE Append(f[i - 1], s[i])
        BY <2>1, <4>1 DEF Shown
      <4>q. QED
        BY <2>2, <4>1, <4>2
    <3>q. QED
      BY <3>1, <3>2
  <2>4. Shown(s, m, g)
    BY <2>2, <2>3 DEF Shown
  <2>q. QED
    BY <2>4
<1>3. \A m \in 0..n : m \in P
  <2> HIDE DEF P
  <2>q. QED
    BY <1>1, <1>2, UpTo
<1>q. QED
  BY <1>3

TitleText == {"none", "a", "b", "search"}

LEMMA TitlesIs ==
  ASSUME NEW s \in Seq(TitleText)
  PROVE  \E f : Shown(s, Len(s), f) /\ Titles(s) = f[Len(s)]
<1>1. Len(s) \in Nat
  OBVIOUS
<1> DEFINE f == CHOOSE g : Shown(s, Len(s), g)
<1>2. Shown(s, Len(s), f)
  BY <1>1, ShownRuns
<1>3. Titles(s) = f[Len(s)]
  BY DEF Titles, Shown
<1> HIDE DEF f
<1>q. QED
  BY <1>2, <1>3

LEMMA NoTitles == Titles(<<>>) = <<>>
<1>2. <<>> \in Seq(TitleText) /\ Len(<<>>) = 0 /\ 0 \in 0..0
  OBVIOUS
<1>1. PICK f : Shown(<<>>, Len(<<>>), f) /\ Titles(<<>>) = f[Len(<<>>)]
  BY <1>2, TitlesIs
<1>q. QED
  BY <1>1, <1>2 DEF Shown

LEMMA OneTitleMore ==
  ASSUME NEW s \in Seq(TitleText), NEW x \in TitleText
  PROVE  Titles(Append(s, x)) = IF x = "none" THEN Titles(s) ELSE Append(Titles(s), x)
<1> DEFINE t == Append(s, x)
           n == Len(s)
<1>1. t \in Seq(TitleText) /\ Len(t) = n + 1 /\ t[n + 1] = x /\ n \in Nat /\ \A i \in 1..n : t[i] = s[i]
  OBVIOUS
<1>2. PICK f : Shown(s, n, f) /\ Titles(s) = f[n]
  BY TitlesIs
<1> HIDE DEF t
<1>3. PICK g : Shown(t, n + 1, g) /\ Titles(t) = g[n + 1]
  BY <1>1, TitlesIs
<1> HIDE DEF n
<1> DEFINE P == {i \in 0..n : g[i] = f[i]}
<1>4. 0 \in P
  <2>1. 0 \in 0..n /\ 0 \in 0..(n + 1)
    BY <1>1
  <2>q. QED
    BY <1>2, <1>3, <2>1 DEF Shown
<1>5. ASSUME NEW i \in 1..n, i - 1 \in P PROVE i \in P
  <2>1. i \in 0..n /\ i \in 0..(n + 1) /\ i > 0 /\ i # 0
    BY <1>1
  <2>2. g[i] = IF t[i] = "none" THEN g[i - 1] ELSE Append(g[i - 1], t[i])
    BY <1>3, <2>1 DEF Shown
  <2>3. f[i] = IF s[i] = "none" THEN f[i - 1] ELSE Append(f[i - 1], s[i])
    BY <1>2, <2>1 DEF Shown
  <2>q. QED
    BY <1>1, <1>5, <2>1, <2>2, <2>3
<1>6. \A i \in 0..n : i \in P
  <2> HIDE DEF P
  <2>q. QED
    BY <1>1, <1>4, <1>5, UpTo
<1>7. g[n] = f[n]
  BY <1>1, <1>6
<1>8. g[n + 1] = IF x = "none" THEN g[n] ELSE Append(g[n], x)
  <2>1. n + 1 \in 0..(n + 1) /\ n + 1 > 0 /\ n + 1 # 0 /\ (n + 1) - 1 = n
    BY <1>1
  <2>q. QED
    BY <1>1, <1>3, <2>1 DEF Shown
<1>q. QED
  BY <1>2, <1>3, <1>7, <1>8 DEF t

-----------------------------------------------------------------------------
(* The stack of calls.                                                     *)

Menus == {"conf", "results"}
Bare == {"load", "save", "exit", "sigint"}
Frame == [fn : Menus \cup Bare \cup {"choice", "string", "search"}, title : TitleText]

(* Only menus and results have called others, but the handler of SIGINT may *)
(* run anywhere; and only they have a title.                               *)
Nested(stack) ==
  /\ stack \in Seq(Frame)
  /\ \A i \in 1..Len(stack) :
       /\ stack[i].fn \notin Menus => stack[i].title = "none"
       /\ i < Len(stack) =>
            /\ stack[i].fn # "sigint"
            /\ stack[i].fn \in Menus \/ (stack[i + 1].fn = "sigint" /\ i + 1 = Len(stack))
       /\ stack[i].fn = "exit" => i = 1

(* The trail has the titles of the menus and results that wait, tr those   *)
(* of the first so many calls.                                             *)
Trails(stack, trail, tr) ==
  /\ tr \in [0..Len(stack) -> Seq(TitleText)]
  /\ tr[0] = <<>> /\ tr[Len(stack)] = trail
  /\ \A i \in 1..Len(stack) :
       tr[i] = IF stack[i].fn \in Menus THEN Append(tr[i - 1], stack[i].title) ELSE tr[i - 1]

Path(stack) == [i \in DOMAIN stack |-> stack[i].title]

LEMMA TrailIsPath ==
  ASSUME NEW stack, NEW trail, NEW tr, Nested(stack), Trails(stack, trail, tr)
  PROVE  trail \in Seq(TitleText) /\ Titles(trail) = Titles(Path(stack))
<1> DEFINE n == Len(stack)
           path(i) == [k \in 1..i |-> stack[k].title]
           P == {i \in 0..n : Titles(tr[i]) = Titles(path(i))}
<1>1. n \in Nat /\ DOMAIN stack = 1..n /\ \A i \in 1..n : stack[i].title \in TitleText
  <2>1. stack \in Seq(Frame)
    BY DEF Nested
  <2>2. \A call \in Frame : call.title \in TitleText
    BY DEF Frame
  <2> HIDE DEF Frame
  <2>q. QED
    BY <2>1, <2>2
<1>2. 0 \in P
  <2>1. path(0) = <<>>
    OBVIOUS
  <2>2. 0 \in 0..n
    BY <1>1
  <2>q. QED
    BY <2>1, <2>2, NoTitles DEF Trails
<1>3. ASSUME NEW i \in 1..n, i - 1 \in P PROVE i \in P
  <2>1. i \in Nat /\ i - 1 \in 0..n /\ i \in 0..n
    BY <1>1
  <2>2. path(i - 1) \in Seq(TitleText) /\ Len(path(i - 1)) = i - 1
    BY <1>1, <2>1
  <2>3. path(i) = Append(path(i - 1), stack[i].title)
    BY <1>1, <2>1
  <2> DEFINE was == path(i - 1)
             new == path(i)
             x == stack[i].title
  <2>4. was \in Seq(TitleText) /\ new = Append(was, x) /\ x \in TitleText /\ Titles(tr[i - 1]) = Titles(was)
    BY <1>1, <1>3, <2>2, <2>3
  <2>5. tr[i] = IF stack[i].fn \in Menus THEN Append(tr[i - 1], x) ELSE tr[i - 1]
    BY DEF Trails
  <2>6. stack[i].fn \notin Menus => x = "none"
    BY DEF Nested
  <2>7. tr[i - 1] \in Seq(TitleText)
    BY <2>1 DEF Trails
  <2> HIDE DEF was, new, x
  <2>8. Titles(tr[i]) = Titles(new)
    BY <2>4, <2>5, <2>6, <2>7, OneTitleMore, ZenonT(40)
  <2>q. QED
    BY <2>1, <2>8 DEF new
<1>4. \A i \in 0..n : i \in P
  <2> HIDE DEF P
  <2>q. QED
    BY <1>1, <1>2, <1>3, UpTo
<1>5. Titles(tr[n]) = Titles(path(n))
  BY <1>1, <1>4
<1>6. path(n) = Path(stack)
  BY <1>1 DEF Path
<1>7. tr[n] = trail /\ tr[n] \in Seq(TitleText)
  <2>1. n \in 0..n
    BY <1>1
  <2>q. QED
    BY <2>1 DEF Trails
<1>q. QED
  BY <1>5, <1>6, <1>7

(* The titles on the screen.                                               *)
Titled(c) ==
  /\ IsConf(c)
  /\ Nested(c.stack) /\ \E tr : Trails(c.stack, c.trail, tr)
  /\ c.stack # <<>> =>
       c.subtitles = IF c.stack[Len(c.stack)].fn \in Bare THEN <<>> ELSE Titles(c.trail)

TitleInv == IsConf(conf) /\ (conf.end = "no" => Titled(conf))

LEMMA TitledShows == TitleInv => TitlesArePath
<1> SUFFICES ASSUME TitleInv, Runs PROVE
      conf.subtitles = IF Top \in {"load", "save", "exit", "sigint"} THEN <<>>
                       ELSE Titles([i \in DOMAIN conf.stack |-> conf.stack[i].title])
  BY DEF TitlesArePath
<1>1. Titled(conf) /\ conf.stack # <<>>
  BY DEF TitleInv, Runs
<1>2. Titles(conf.trail) = Titles(Path(conf.stack))
  BY <1>1, TrailIsPath DEF Titled
<1>q. QED
  BY <1>1, <1>2 DEF Titled, Top, Bare, Path

(* What a step does to the stack and the titles, the rest being any.       *)
SameTitles(c, d) == IsConf(d) /\ d.stack = c.stack /\ d.trail = c.trail /\ d.subtitles = c.subtitles

LEMMA OtherFields == ASSUME NEW c, NEW d, Titled(c), SameTitles(c, d) PROVE Titled(d)
BY DEF Titled, SameTitles

(* One more call.                                                          *)
LEMMA PushNests ==
  ASSUME NEW stack, NEW trail, NEW tr, Nested(stack), Trails(stack, trail, tr), NEW call \in Frame,
         stack = <<>> \/ stack[Len(stack)].fn \in Menus
           \/ (call.fn = "sigint" /\ stack[Len(stack)].fn # "sigint"),
         call.fn = "exit" => stack = <<>>,
         call.fn \notin Menus => call.title = "none"
  PROVE  /\ Nested(Append(stack, call))
         /\ \E new : Trails(Append(stack, call),
                            IF call.fn \in Menus THEN Append(trail, call.title) ELSE trail, new)
<1> DEFINE n == Len(stack)
           longer == Append(stack, call)
           after == IF call.fn \in Menus THEN Append(trail, call.title) ELSE trail
           new == [i \in 0..(n + 1) |-> IF i = n + 1 THEN after ELSE tr[i]]
<1>1. /\ stack \in Seq(Frame) /\ n \in Nat /\ longer \in Seq(Frame) /\ Len(longer) = n + 1
      /\ longer[n + 1] = call /\ \A i \in 1..n : longer[i] = stack[i]
      /\ (stack = <<>> <=> n = 0)
  BY DEF Nested
<1>2. after \in Seq(TitleText)
  <2>1. tr[n] = trail /\ tr[n] \in Seq(TitleText) /\ call.title \in TitleText
    BY <1>1 DEF Trails, Frame
  <2>q. QED
    BY <2>1
<1>3. new \in [0..(n + 1) -> Seq(TitleText)] /\ new[n + 1] = after /\ \A i \in 0..n : new[i] = tr[i]
  BY <1>1, <1>2 DEF Trails
<1> HIDE DEF longer, n, new
<1>4. ASSUME NEW i \in 1..(n + 1)
      PROVE  /\ longer[i].fn \notin Menus => longer[i].title = "none"
             /\ i < n + 1 =>
                  /\ longer[i].fn # "sigint"
                  /\ longer[i].fn \in Menus \/ (longer[i + 1].fn = "sigint" /\ i + 1 = n + 1)
             /\ longer[i].fn = "exit" => i = 1
  <2>1. CASE i = n + 1
    BY <1>1, <2>1
  <2>2. CASE i = n
    <3>1. i \in 1..n
      BY <1>1, <2>2
    <3>q. QED
      BY <1>1, <2>2, <3>1 DEF Nested, Menus, n
  <2>3. CASE i < n
    <3>1. i \in 1..n /\ i + 1 \in 1..n /\ n # 0
      BY <1>1, <2>3
    <3>2. /\ stack[i].fn \notin Menus => stack[i].title = "none"
          /\ stack[i].fn # "sigint"
          /\ stack[i].fn \in Menus \/ (stack[i + 1].fn = "sigint" /\ i + 1 = n)
          /\ stack[i].fn = "exit" => i = 1
      BY <2>3, <3>1 DEF Nested, n
    <3>3. stack[n].fn # "sigint" \/ call.fn = "sigint"
      BY <1>1, <3>1 DEF n, Menus
    <3>4. stack[n].fn # "sigint"
      BY <1>1, <3>1 DEF n, Menus
    <3>q. QED
      BY <1>1, <2>3, <3>1, <3>2, <3>4
  <2>q. QED
    BY <1>1, <2>1, <2>2, <2>3
<1>5. Nested(longer)
  BY <1>1, <1>4 DEF Nested
<1>6. Trails(longer, after, new)
  <2>1. new[0] = <<>>
    BY <1>1, <1>3 DEF Trails
  <2>2. ASSUME NEW i \in 1..(n + 1)
        PROVE  new[i] = IF longer[i].fn \in Menus THEN Append(new[i - 1], longer[i].title) ELSE new[i - 1]
    <3>1. CASE i = n + 1
      <4>1. new[i - 1] = trail
        BY <1>1, <1>3, <3>1 DEF Trails, n
      <4>q. QED
        BY <1>1, <1>3, <3>1, <4>1
    <3>2. CASE i # n + 1
      <4>1. i \in 1..n /\ i \in 0..n /\ i - 1 \in 0..n
        BY <1>1, <3>2
      <4>q. QED
        BY <1>1, <1>3, <4>1 DEF Trails, n
    <3>q. QED
      BY <3>1, <3>2
  <2>q. QED
    BY <1>1, <1>3, <2>1, <2>2 DEF Trails
<1>q. QED
  BY <1>5, <1>6 DEF longer

(* A call that returns, and takes its title with it.                       *)
LEMMA PopNests ==
  ASSUME NEW stack, NEW trail, NEW tr, Nested(stack), Trails(stack, trail, tr), stack # <<>>
  PROVE  LET after == IF stack[Len(stack)].fn \in Menus THEN Front(trail) ELSE trail
         IN  /\ Nested(Front(stack)) /\ \E new : Trails(Front(stack), after, new)
             /\ Front(stack) # <<>> /\ stack[Len(stack)].fn # "sigint"
                  => Front(stack)[Len(Front(stack))].fn \in Menus
             /\ stack[Len(stack)].fn = "exit" => Front(stack) = <<>>
<1> DEFINE n == Len(stack) - 1
           shorter == Front(stack)
           after == IF stack[Len(stack)].fn \in Menus THEN Front(trail) ELSE trail
           new == [i \in 0..n |-> tr[i]]
<1>1. /\ stack \in Seq(Frame) /\ Len(stack) = n + 1 /\ n \in Nat /\ Len(stack) \in Nat \ {0}
  BY DEF Nested
<1>2. shorter \in Seq(Frame) /\ Len(shorter) = n /\ \A i \in 1..n : shorter[i] = stack[i]
  BY <1>1 DEF Front
<1>3. tr[n + 1] = trail /\ trail \in Seq(TitleText) /\ tr[n] \in Seq(TitleText) /\ stack[n + 1].title \in TitleText
      /\ tr[n + 1] = IF stack[n + 1].fn \in Menus THEN Append(tr[n], stack[n + 1].title) ELSE tr[n]
  <2>1. n + 1 \in 1..Len(stack) /\ n + 1 \in 0..Len(stack) /\ n \in 0..Len(stack) /\ (n + 1) - 1 = n
    BY <1>1
  <2>2. stack[n + 1] \in Frame
    BY <1>1, <2>1
  <2>q. QED
    BY <1>1, <2>1, <2>2 DEF Trails, Frame
<1> HIDE DEF shorter, n
<1>4. after = tr[n]
  <2>1. \A s \in Seq(TitleText), x \in TitleText : Front(Append(s, x)) = s
    BY DEF Front
  <2>q. QED
    BY <1>1, <1>3, <2>1
<1>5. Nested(shorter)
  BY <1>1, <1>2 DEF Nested
<1>6. new[0] = <<>> /\ new[n] = after /\ new \in [0..n -> Seq(TitleText)]
  BY <1>1, <1>4 DEF Trails
<1>7. Trails(shorter, after, new)
  <2>1. ASSUME NEW i \in 1..n
        PROVE  new[i] = IF shorter[i].fn \in Menus THEN Append(new[i - 1], shorter[i].title) ELSE new[i - 1]
    <3>1. i \in 0..n /\ i - 1 \in 0..n /\ i \in 1..Len(stack)
      BY <1>1
    <3>q. QED
      BY <1>2, <3>1 DEF Trails
  <2>q. QED
    BY <1>2, <1>6, <2>1 DEF Trails
<1>8. shorter # <<>> /\ stack[Len(stack)].fn # "sigint" => shorter[Len(shorter)].fn \in Menus
  <2> SUFFICES ASSUME shorter # <<>>, stack[Len(stack)].fn # "sigint" PROVE shorter[Len(shorter)].fn \in Menus
    OBVIOUS
  <2>1. n \in 1..n
    BY <1>1, <1>2
  <2>q. QED
    BY <1>1, <1>2, <2>1 DEF Nested
<1>9. stack[Len(stack)].fn = "exit" => shorter = <<>>
  BY <1>1, <1>2 DEF Nested
<1>q. QED
  BY <1>5, <1>7, <1>8, <1>9 DEF shorter

-----------------------------------------------------------------------------
(* Steps.                                                                  *)

(* A call that returns, to a menu or to results, which set the titles; or  *)
(* to main().                                                              *)
LEMMA PopTitled ==
  ASSUME NEW c, IsConf(c), NEW was, c.stack = was.stack, Titled(was), c.stack # <<>>,
         was.stack[Len(was.stack)].fn # "sigint",
         c.trail = IF c.stack[Len(c.stack)].fn \in Menus THEN Front(was.trail) ELSE was.trail
  PROVE  Titled(Pop(c))
<1> DEFINE d == [c EXCEPT !.stack = Front(@)]
<1>1. PICK tr : Trails(c.stack, was.trail, tr)
  BY DEF Titled
<1>2. Nested(c.stack)
  BY DEF Titled
<1>3. /\ Nested(Front(c.stack)) /\ \E new : Trails(Front(c.stack), c.trail, new)
      /\ Front(c.stack) # <<>> => Front(c.stack)[Len(Front(c.stack))].fn \in Menus
  BY <1>1, <1>2, PopNests
<1>4. IsConf(d) /\ d.stack = Front(c.stack) /\ d.trail = c.trail
  <2> HIDE DEF Front
  <2>q. QED
    BY DEF IsConf, Fields
<1> HIDE DEF d
<1>5. CASE d.stack = <<>>
  <2>1. Pop(c) = d
    BY <1>5 DEF Pop, d
  <2>q. QED
    BY <1>3, <1>4, <1>5, <2>1 DEF Titled
<1>6. CASE d.stack # <<>>
  <2>1. d.stack[Len(d.stack)].fn \in Menus
    BY <1>3, <1>4, <1>6
  <2>2. Pop(c) = SetSubtitle(d)
    BY <1>6, <2>1 DEF Pop, d, Menus
  <2> DEFINE e == SetSubtitle(d)
  <2>3. IsConf(e) /\ e.stack = d.stack /\ e.trail = d.trail /\ e.subtitles = Titles(d.trail)
    <3> HIDE DEF Titles
    <3>q. QED
      BY <1>4 DEF SetSubtitle, IsConf, Fields
  <2> HIDE DEF e
  <2>4. e.stack[Len(e.stack)].fn \notin Bare
    BY <2>1, <2>3 DEF Menus, Bare
  <2>5. Titled(e)
    BY <1>3, <1>4, <2>3, <2>4 DEF Titled
  <2>q. QED
    BY <2>2, <2>5 DEF e
<1>q. QED
  BY <1>5, <1>6

(* A menu, or results, from main(), a menu or results.                     *)
LEMMA MenuTitled ==
  ASSUME NEW c, Titled(c), c.stack = <<>> \/ c.stack[Len(c.stack)].fn \in Menus,
         NEW fn \in Menus, NEW title \in TitleText
  PROVE  Titled(SetSubtitle([Push(c, fn, title) EXCEPT !.trail = Append(@, title)]))
<1> DEFINE call == [fn |-> fn, title |-> title]
           d == [Push(c, fn, title) EXCEPT !.trail = Append(@, title)]
           e == SetSubtitle(d)
<1>1. call \in Frame /\ call.fn = fn /\ call.title = title /\ call.fn # "exit"
  BY DEF Frame, Menus
<1>2. PICK tr : Trails(c.stack, c.trail, tr)
  BY DEF Titled
<1>3. Nested(Append(c.stack, call)) /\ \E new : Trails(Append(c.stack, call), Append(c.trail, title), new)
  <2>1. Nested(c.stack)
    BY DEF Titled
  <2> HIDE DEF call
  <2>q. QED
    BY <1>1, <1>2, <2>1, PushNests
<1>4. /\ IsConf(e) /\ e.stack = Append(c.stack, call) /\ e.trail = Append(c.trail, title)
      /\ e.subtitles = Titles(e.trail)
  <2>1. IsConf(c)
    BY DEF Titled
  <2> HIDE DEF Titles
  <2>q. QED
    BY <2>1 DEF SetSubtitle, Push, IsConf, Fields
<1>5. e.stack # <<>> /\ e.stack[Len(e.stack)].fn \notin Bare
  <2>1. c.stack \in Seq(Frame)
    BY DEF Titled, Nested
  <2> HIDE DEF e, call
  <2>2. Len(e.stack) = Len(c.stack) + 1 /\ e.stack[Len(c.stack) + 1] = call /\ Len(c.stack) \in Nat
    BY <1>1, <1>4, <2>1
  <2>q. QED
    BY <1>1, <2>2 DEF Menus, Bare
<1> HIDE DEF e, d, call
<1>6. Titled(e)
  BY <1>3, <1>4, <1>5 DEF Titled
<1>q. QED
  BY <1>6 DEF e, d

LEMMA EnterTitled ==
  ASSUME NEW c, Titled(c), c.stack = <<>> \/ c.stack[Len(c.stack)].fn \in Menus, NEW title \in TitleText
  PROVE  Titled(EnterConf(c, title))
<1>1. "conf" \in Menus
  BY DEF Menus
<1>q. QED
  BY <1>1, MenuTitled DEF EnterConf

(* A call that has no title.                                               *)
LEMMA PlainTitled ==
  ASSUME NEW c, Titled(c), NEW fn \in {"choice", "string", "search"},
         c.stack # <<>>, c.stack[Len(c.stack)].fn \in Menus
  PROVE  Titled(Push(c, fn, "none"))
<1> DEFINE call == [fn |-> fn, title |-> "none"]
           e == Push(c, fn, "none")
<1>1. call \in Frame /\ call.fn = fn /\ call.title = "none" /\ call.fn # "exit" /\ call.fn \notin Menus
  BY DEF Frame, Menus, TitleText
<1>2. PICK tr : Trails(c.stack, c.trail, tr)
  BY DEF Titled
<1>3. Nested(Append(c.stack, call)) /\ \E new : Trails(Append(c.stack, call), c.trail, new)
  <2>1. Nested(c.stack)
    BY DEF Titled
  <2> HIDE DEF call
  <2>q. QED
    BY <1>1, <1>2, <2>1, PushNests
<1>4. /\ IsConf(e) /\ e.stack = Append(c.stack, call) /\ e.trail = c.trail
      /\ e.subtitles = c.subtitles
  BY DEF Titled, Push, IsConf, Fields
<1>5. c.subtitles = Titles(c.trail)
  BY DEF Titled, Menus, Bare
<1>6. e.stack # <<>> /\ e.stack[Len(e.stack)].fn \notin Bare
  <2>1. c.stack \in Seq(Frame)
    BY DEF Titled, Nested
  <2> HIDE DEF e, call
  <2>2. Len(e.stack) = Len(c.stack) + 1 /\ e.stack[Len(c.stack) + 1] = call /\ Len(c.stack) \in Nat
    BY <1>1, <1>4, <2>1
  <2>q. QED
    BY <1>1, <2>2 DEF Bare
<1> HIDE DEF e, call
<1>7. Titled(e)
  BY <1>3, <1>4, <1>5, <1>6 DEF Titled
<1>q. QED
  BY <1>7 DEF e

(* A file is named, or the program is left: the titles are taken away.     *)
LEMMA BareTitled ==
  ASSUME NEW c, Titled(c), NEW fn \in Bare,
         c.stack = <<>> \/ c.stack[Len(c.stack)].fn \in Menus
           \/ (fn = "sigint" /\ c.stack[Len(c.stack)].fn # "sigint"),
         fn = "exit" => c.stack = <<>>,
         NEW e, IsConf(e), e.stack = Append(c.stack, [fn |-> fn, title |-> "none"]),
         e.trail = c.trail, e.subtitles = <<>>
  PROVE  Titled(e)
<1> DEFINE call == [fn |-> fn, title |-> "none"]
<1>1. call \in Frame /\ call.fn = fn /\ call.title = "none" /\ call.fn \notin Menus
  BY DEF Frame, Menus, TitleText, Bare
<1>2. PICK tr : Trails(c.stack, c.trail, tr)
  BY DEF Titled
<1>3. Nested(Append(c.stack, call)) /\ \E new : Trails(Append(c.stack, call), c.trail, new)
  <2>1. Nested(c.stack)
    BY DEF Titled
  <2> HIDE DEF call
  <2>q. QED
    BY <1>1, <1>2, <2>1, PushNests
<1>4. e.stack[Len(e.stack)].fn \in Bare
  <2>1. c.stack \in Seq(Frame)
    BY DEF Titled, Nested
  <2>0. e.stack = Append(c.stack, call)
    OBVIOUS
  <2> HIDE DEF call
  <2>2. Len(e.stack) = Len(c.stack) + 1 /\ e.stack[Len(c.stack) + 1] = call /\ Len(c.stack) \in Nat
    BY <1>1, <2>0, <2>1
  <2>q. QED
    BY <1>1, <2>2
<1>q. QED
  BY <1>3, <1>4 DEF Titled

(* main() starts with the root menu.                                       *)
LEMMA StartedTitled == ASSUME NEW file PROVE Titled(Started(file))
<1> DEFINE first == [stack |-> <<>>, trail |-> <<>>, subtitles |-> <<>>,
                     changed |-> file[DotConfig] = NoFile, file |-> file,
                     filename |-> DotConfig, end |-> "no", unnoticed |-> FALSE,
                     mem |-> IF file[DotConfig] = NoFile THEN Defaults ELSE file[DotConfig]]
<1>1. IsConf(first) /\ first.stack = <<>> /\ first.trail = <<>>
  BY DEF IsConf, Fields
<1>2. Nested(<<>>)
  BY DEF Nested
<1>3. Trails(<<>>, <<>>, [i \in 0..0 |-> <<>>])
  <2>1. Len(<<>>) = 0 /\ <<>> \in Seq(TitleText)
    OBVIOUS
  <2>q. QED
    BY <2>1 DEF Trails
<1> HIDE DEF first
<1>4. Titled(first)
  BY <1>1, <1>2, <1>3 DEF Titled
<1>5. Titled(EnterConf(first, "none"))
  BY <1>1, <1>4, EnterTitled DEF TitleText
<1>q. QED
  BY <1>5 DEF Started, first

LEMMA TitlesStart == SessionInit => TitleInv
BY StartedTitled DEF SessionInit, TitleInv, Titled

LEMMA TitlesKept == TitleInv /\ [SessionNext]_conf => TitleInv'
<1> SUFFICES ASSUME TitleInv, [SessionNext]_conf PROVE TitleInv'
  OBVIOUS
<1>0. ASSUME Titled(conf') PROVE TitleInv'
  BY <1>0 DEF TitleInv, Titled, IsConf
<1>s. CASE conf.end = "no"
  <2>0. Titled(conf)
    BY <1>s DEF TitleInv
  <2>c. IsConf(conf)
    BY DEF TitleInv
  <2>p. ASSUME In({"choice", "string", "load", "save", "search"}) PROVE Titled(Pop(conf)) /\ IsConf(Pop(conf))
    BY <2>0, <2>c, <2>p, PopTitled DEF In, Runs, Top, Menus, Titled
  <2>1. ASSUME NEW title \in {"a", "b"}, Submenu(title) \/ Jump(title) PROVE TitleInv'
    BY <1>0, <2>0, <2>1, EnterTitled DEF Submenu, Jump, In, Runs, Top, Menus, TitleText
  <2>2. ASSUME NEW fn \in {"choice", "string", "load", "save", "search"}, Enter(fn) PROVE TitleInv'
    <3>1. conf.stack # <<>> /\ conf.stack[Len(conf.stack)].fn \in Menus
      BY <2>2 DEF Enter, In, Runs, Top, Menus
    <3>2. CASE fn \in {"load", "save"}
      <4>1. conf' = Push(ResetSubtitle(conf), fn, "none")
        BY <2>2, <3>2 DEF Enter
      <4>2. /\ IsConf(conf') /\ conf'.stack = Append(conf.stack, [fn |-> fn, title |-> "none"])
            /\ conf'.trail = conf.trail /\ conf'.subtitles = <<>>
        BY <2>c, <4>1 DEF Push, ResetSubtitle, IsConf, Fields
      <4>3. fn \in Bare /\ fn # "exit"
        BY <3>2 DEF Bare
      <4>q. QED
        BY <1>0, <2>0, <3>1, <4>2, <4>3, BareTitled
    <3>3. CASE fn \notin {"load", "save"}
      <4>1. conf' = Push(conf, fn, "none") /\ fn \in {"choice", "string", "search"}
        BY <2>2, <3>3 DEF Enter
      <4>q. QED
        BY <1>0, <2>0, <3>1, <4>1, PlainTitled
    <3>q. QED
      BY <3>2, <3>3
  <2>3. ASSUME NEW a, SetAnswer(a) PROVE TitleInv'
    <3>1. SameTitles(conf, conf')
      BY <2>c, <2>3 DEF SetAnswer, Mem, SameTitles, IsConf, Fields
    <3>q. QED
      BY <1>0, <2>0, <3>1, OtherFields
  <2>4. ASSUME NEW c, Titled(c), NEW new PROVE Titled(Mem(c, new))
    <3>1. IsConf(c)
      BY <2>4 DEF Titled
    <3>2. SameTitles(c, Mem(c, new))
      BY <3>1 DEF Mem, SameTitles, IsConf, Fields
    <3>q. QED
      BY <2>4, <3>2, OtherFields
  <2>5. ASSUME NEW a, StringEntered(a) PROVE TitleInv'
    BY <1>0, <2>4, <2>5, <2>p DEF StringEntered, In
  <2>6. ASSUME NEW v, ChoiceSelect(v) PROVE TitleInv'
    <3> DEFINE c == Pop(conf)
               reset == [Defaults EXCEPT !.choice = v]
    <3>1. Titled(c) /\ IsConf(c)
      BY <2>6, <2>p DEF ChoiceSelect, In
    <3>2. conf' = c \/ conf' = Mem(c, reset) \/ conf' = [c EXCEPT !.mem = reset, !.unnoticed = TRUE]
      BY <2>6 DEF ChoiceSelect
    <3> HIDE DEF c, reset
    <3>3. ASSUME conf' = [c EXCEPT !.mem = reset, !.unnoticed = TRUE] PROVE SameTitles(c, conf')
      BY <3>1, <3>3 DEF SameTitles, IsConf, Fields
    <3>q. QED
      BY <1>0, <2>4, <3>1, <3>2, <3>3, OtherFields
  <2>7. ASSUME NEW name, Load(name) PROVE TitleInv'
    <3> DEFINE c == Mem(Pop(conf), conf.file[name])
    <3>1. Titled(c)
      BY <2>4, <2>7, <2>p DEF Load, In
    <3>2. conf' = [c EXCEPT !.filename = name]
      BY <2>7 DEF Load
    <3> HIDE DEF c
    <3>3. SameTitles(c, conf')
      BY <3>1, <3>2 DEF Titled, SameTitles, IsConf, Fields
    <3>q. QED
      BY <1>0, <3>1, <3>3, OtherFields
  <2>8. ASSUME NEW name, LoadMissing(name) PROVE TitleInv'
    <3>1. SameTitles(conf, conf')
      BY <2>c, <2>8 DEF LoadMissing, SameTitles, IsConf, Fields
    <3>q. QED
      BY <1>0, <2>0, <3>1, OtherFields
  <2>9. ASSUME NEW name, Save(name) PROVE TitleInv'
    <3> DEFINE c == Pop(conf)
    <3>1. Titled(c) /\ IsConf(c)
      BY <2>9, <2>p DEF Save, In
    <3>2. conf' = [Written(c, name) EXCEPT !.filename = name]
      BY <2>9 DEF Save
    <3> HIDE DEF c
    <3>3. SameTitles(c, conf')
      BY <3>1, <3>2 DEF Written, SameTitles, IsConf, Fields
    <3>q. QED
      BY <1>0, <3>1, <3>3, OtherFields
  <2>10. CASE LeaveConf \/ LeaveResults
    <3> DEFINE c == [conf EXCEPT !.trail = Front(@)]
    <3>1. conf' = Pop(c) /\ conf.stack # <<>> /\ conf.stack[Len(conf.stack)].fn \in Menus
      BY <2>10 DEF LeaveConf, LeaveResults, In, Runs, Top, Menus
    <3>2. IsConf(c) /\ c.stack = conf.stack /\ c.trail = Front(conf.trail)
      <4> HIDE DEF Front
      <4>q. QED
        BY <2>c DEF IsConf, Fields
    <3>3. conf.stack[Len(conf.stack)].fn # "sigint"
      BY <3>1 DEF Menus
    <3> HIDE DEF c
    <3>4. Titled(Pop(c))
      BY <2>0, <3>1, <3>2, <3>3, PopTitled
    <3>q. QED
      BY <1>0, <3>1, <3>4
  <2>11. CASE Escape
    BY <1>0, <2>11, <2>p DEF Escape
  <2>12. CASE Search
    <3> DEFINE c == Pop(conf)
    <3>1. Titled(c)
      BY <2>12, <2>p DEF Search, In
    <3>2. c.stack = <<>> \/ c.stack[Len(c.stack)].fn \in Menus
      <4>1. conf.stack # <<>> /\ conf.stack[Len(conf.stack)].fn # "sigint"
        BY <2>12 DEF Search, In, Runs, Top
      <4>2. Front(conf.stack) # <<>> => Front(conf.stack)[Len(Front(conf.stack))].fn \in Menus
        BY <2>0, <4>1, PopNests DEF Titled
      <4>3. c.stack = Front(conf.stack)
        <5> HIDE DEF Front, Titles
        <5>q. QED
          BY <2>c DEF Pop, SetSubtitle, IsConf, Fields
      <4>q. QED
        BY <4>2, <4>3
    <3>3. conf' = SetSubtitle([Push(c, "results", "search") EXCEPT !.trail = Append(@, "search")])
      BY <2>12 DEF Search
    <3> HIDE DEF c
    <3>q. QED
      BY <1>0, <3>1, <3>2, <3>3, MenuTitled DEF Menus, TitleText
  <2>13. ASSUME NEW fn \in {"exit", "sigint"}, conf' = HandleExit(conf, fn),
                fn = "exit" => conf.stack = <<>>,
                fn = "sigint" => conf.stack = <<>> \/ conf.stack[Len(conf.stack)].fn # "sigint"
         PROVE  TitleInv'
    <3>1. CASE conf.changed
      <4>1. /\ IsConf(conf') /\ conf'.stack = Append(conf.stack, [fn |-> fn, title |-> "none"])
            /\ conf'.trail = conf.trail /\ conf'.subtitles = <<>>
        BY <2>c, <2>13, <3>1 DEF HandleExit, Push, ResetSubtitle, IsConf, Fields
      <4>2. fn \in Bare
        BY DEF Bare
      <4>q. QED
        BY <1>0, <2>0, <2>13, <4>1, <4>2, BareTitled
    <3>2. CASE ~conf.changed
      <4>1. IsConf(conf') /\ conf'.end = "quiet"
        BY <2>c, <2>13, <3>2 DEF HandleExit, ResetSubtitle, IsConf, Fields
      <4>q. QED
        BY <4>1 DEF TitleInv, IsConf
    <3>q. QED
      BY <3>1, <3>2
  <2>14. CASE MainExits
    BY <2>13, <2>14 DEF MainExits
  <2>15. CASE Interrupt
    BY <2>13, <2>15 DEF Interrupt, Top
  <2>16. ASSUME IsConf(conf'), conf'.end # "no" PROVE TitleInv'
    BY <2>16 DEF TitleInv, IsConf
  <2>17. CASE ExitSaves \/ ExitDiscards
    <3>1. IsConf(conf') /\ conf'.end # "no"
      BY <2>c, <2>17 DEF ExitSaves, ExitDiscards, Written, IsConf, Fields
    <3>q. QED
      BY <2>16, <3>1
  <2>18. CASE ExitEscape
    <3>1. CASE Top = "exit"
      <4> DEFINE c == [conf EXCEPT !.stack = Front(@)]
      <4>1. conf' = EnterConf(c, "none") /\ conf.stack # <<>>
        BY <2>18, <3>1 DEF ExitEscape, In, Runs
      <4>2. IsConf(c) /\ c.stack = Front(conf.stack) /\ c.trail = conf.trail
        <5> HIDE DEF Front
        <5>q. QED
          BY <2>c DEF IsConf, Fields
      <4>3. /\ Nested(Front(conf.stack)) /\ Front(conf.stack) = <<>>
            /\ \E new : Trails(Front(conf.stack), conf.trail, new)
        <5>1. conf.stack[Len(conf.stack)].fn = "exit" /\ "exit" \notin Menus
          BY <3>1 DEF Top, Menus
        <5>q. QED
          BY <2>0, <4>1, <5>1, PopNests DEF Titled
      <4> HIDE DEF c
      <4>4. Titled(c)
        BY <4>2, <4>3 DEF Titled
      <4>q. QED
        BY <1>0, <4>1, <4>2, <4>3, <4>4, EnterTitled DEF TitleText
    <3>2. CASE Top # "exit"
      <4>1. conf' = [conf EXCEPT !.end = "discarded"]
        BY <2>18, <3>2 DEF ExitEscape
      <4>2. IsConf(conf') /\ conf'.end # "no"
        BY <2>c, <4>1 DEF IsConf, Fields
      <4>q. QED
        BY <2>16, <4>2
    <3>q. QED
      BY <3>1, <3>2
  <2>19. CASE Start
    BY <1>s, <2>19 DEF Start
  <2>20. CASE UNCHANGED conf
    BY <2>20, SMTT(30) DEF TitleInv, Titled, IsConf
  <2>q. QED
    BY <2>1, <2>2, <2>3, <2>5, <2>6, <2>7, <2>8, <2>9, <2>10, <2>11, <2>12, <2>14, <2>15, <2>17,
       <2>18, <2>19, <2>20 DEF SessionNext
<1>e. CASE conf.end # "no"
  <2>1. CASE Start
    BY <1>0, <2>1, StartedTitled DEF Start
  <2>2. CASE UNCHANGED conf
    BY <2>2 DEF TitleInv, Titled, IsConf
  <2>q. QED
    BY <1>e, <2>1, <2>2 DEF SessionNext, Submenu, Jump, Enter, SetAnswer, StringEntered, ChoiceSelect,
       Load, LoadMissing, Save, LeaveConf, Escape, Search, LeaveResults, MainExits, Interrupt,
       ExitSaves, ExitDiscards, ExitEscape, In, Runs
<1>q. QED
  BY <1>s, <1>e

(* However menus, searches, questions, saves, loads and signals nest, the  *)
(* titles above a dialog are those of the menus and searches that wait     *)
(* below it, and are away while a file is named or the program is left     *)
(* (mconf.c:316-352), for any number of files and values.                  *)
THEOREM TitlesFollow == SessionSpec => []TitlesArePath
<1>1. SessionSpec => []TitleInv
  BY TitlesStart, TitlesKept, PTL DEF SessionSpec
<1>q. QED
  BY <1>1, TitledShows, PTL

=============================================================================
