-------------------------------- MODULE Mconf -------------------------------
(***************************************************************************)
(* A session of menuconfig (mconf.c): the functions that call one another, *)
(* each waiting in a dialog, the trail of titles above it, and what        *)
(* becomes of the configuration when files are loaded and saved and the    *)
(* program is left.  The symbols are two: a choice with `reset' (such as   *)
(* the target profile of metadata.pl) and one other answer.                *)
(***************************************************************************)
EXTENDS Sequences, Naturals

CONSTANTS Value,     \* values of the choice
          Default,   \* the one that it has by default
          Answer,    \* what may be answered to everything else
          Unset,     \* its default
          Name,      \* file names
          DotConfig, \* conf_get_configname()
          MaxDepth   \* bound: functions calling one another

ASSUME SessionAssumption ==
  /\ Default \in Value /\ DotConfig \in Name
  /\ "none" \notin Value   \* what NoFile has instead

VARIABLE conf   \* stack: the functions that wait for a dialog, with their titles
                \* trail, subtitles: the titles kept and the titles on the screen
                \* mem, changed: the symbols, and sym_change_count # 0
                \* file, filename: the files, and the name to save to
                \* end: how the program has ended
                \* unnoticed: a change that sym_change_count has missed

NoFile == [choice |-> "none", other |-> "none"]
Defaults == [choice |-> Default, other |-> Unset]
Settings == [choice : Value, other : Answer \cup {Unset}]

Top == conf.stack[Len(conf.stack)].fn
Runs == conf.end = "no" /\ conf.stack # <<>>
In(fns) == Runs /\ Top \in fns

Front(s) == SubSeq(s, 1, Len(s) - 1)

(* set_subtitle() and reset_subtitle(): the titles of the trail that have a *)
(* text, one after the other.                                              *)
Titles(s) ==
  LET shown[n \in 0..Len(s)] ==
        IF n = 0 THEN <<>>
        ELSE IF s[n] = "none" THEN shown[n - 1] ELSE Append(shown[n - 1], s[n])
  IN  shown[Len(s)]
SetSubtitle(c) == [c EXCEPT !.subtitles = Titles(c.trail)]
ResetSubtitle(c) == [c EXCEPT !.subtitles = <<>>]

Push(c, fn, title) == [c EXCEPT !.stack = Append(@, [fn |-> fn, title |-> title])]

(* The function on top returns.  conf() and the loop of search_conf() then *)
(* set the titles again.                                                   *)
Pop(c) ==
  LET d == [c EXCEPT !.stack = Front(@)]
  IN  IF d.stack # <<>> /\ d.stack[Len(d.stack)].fn \in {"conf", "results"} THEN SetSubtitle(d) ELSE d

Mem(c, new) == [c EXCEPT !.mem = new, !.changed = TRUE, !.unnoticed = FALSE]

-----------------------------------------------------------------------------
(* conf(): a menu, shown until it is left.                                 *)

EnterConf(c, title) == SetSubtitle([Push(c, "conf", title) EXCEPT !.trail = Append(@, title)])

Submenu(title) ==
  /\ In({"conf"}) /\ Len(conf.stack) < MaxDepth
  /\ conf' = EnterConf(conf, title)

(* Exit, ESC, or a display that is too small. *)
LeaveConf ==
  /\ In({"conf"})
  /\ conf' = Pop([conf EXCEPT !.trail = Front(@)])

(* sym_set_tristate_value() and sym_toggle_tristate_value() *)
SetAnswer(a) ==
  /\ In({"conf"}) /\ a # conf.mem.other
  /\ conf' = Mem(conf, [conf.mem EXCEPT !.other = a])

(* The keys that call another function; the buttons Save and Load take the *)
(* titles off the screen.                                                  *)
Enter(fn) ==
  /\ In({"conf"}) /\ Len(conf.stack) < MaxDepth
  /\ conf' = Push(IF fn \in {"load", "save"} THEN ResetSubtitle(conf) ELSE conf, fn, "none")

(* ESC, an empty file name, or a display that is too small for conf_choice() *)
(* and search_conf(); the others try again until it is not.                *)
Escape ==
  /\ In({"choice", "string", "load", "save", "search"})
  /\ conf' = Pop(conf)

(* conf_choice(): another value resets every answer, and then sets it.     *)
(* sym_set_tristate_value() counts a change only if the value has one.     *)
ChoiceSelect(v) ==
  /\ In({"choice"})
  /\ LET c     == Pop(conf)
         reset == [Defaults EXCEPT !.choice = v]
     IN  conf' = CASE v = c.mem.choice -> c
                   [] v # c.mem.choice /\ v # Default -> Mem(c, reset)
                   [] OTHER -> [c EXCEPT !.mem = reset, !.unnoticed = TRUE]

(* conf_string(): sym_set_string_value() refuses a value, or counts a change. *)
StringEntered(a) ==
  /\ In({"string"})
  /\ conf' = Mem(Pop(conf), [conf.mem EXCEPT !.other = a])

-----------------------------------------------------------------------------
(* search_conf(): the results are shown again after a jump to one of them. *)

Search ==
  /\ In({"search"})
  /\ conf' = SetSubtitle([Push(Pop(conf), "results", "search") EXCEPT !.trail = Append(@, "search")])

Jump(title) ==
  /\ In({"results"}) /\ Len(conf.stack) < MaxDepth
  /\ conf' = EnterConf(conf, title)

(* Mutant: the title of the search stays. *)
LeaveResultsTitled ==
  /\ In({"results"})
  /\ conf' = Pop(conf)
LeaveResults ==
  /\ In({"results"})
  /\ conf' = Pop([conf EXCEPT !.trail = Front(@)])

-----------------------------------------------------------------------------
(* conf_load() and conf_save().                                            *)

Load(name) ==
  /\ In({"load"}) /\ conf.file[name] # NoFile
  /\ conf' = [Mem(Pop(conf), conf.file[name]) EXCEPT !.filename = name]

(* conf_read() clears the count before it finds that there is no file. *)
LoadMissing(name) ==
  /\ In({"load"}) /\ conf.file[name] = NoFile
  /\ conf' = [conf EXCEPT !.changed = FALSE, !.unnoticed = @ \/ conf.changed]

Written(c, name) == [c EXCEPT !.file[name] = c.mem, !.changed = FALSE, !.unnoticed = FALSE]

(* Mutant: the name is not kept. *)
SaveElsewhere(name) ==
  /\ In({"save"})
  /\ conf' = Written(Pop(conf), name)
(* conf_write() may fail, and conf_save() then asks for a name again. *)
Save(name) ==
  /\ In({"save"})
  /\ conf' = [Written(Pop(conf), name) EXCEPT !.filename = name]

-----------------------------------------------------------------------------
(* handle_exit(), from main() or the handler of SIGINT.                    *)

HandleExit(c, fn) ==
  IF c.changed THEN ResetSubtitle(Push(c, fn, "none"))
  ELSE [ResetSubtitle(c) EXCEPT !.end = "quiet"]

MainExits ==
  /\ conf.end = "no" /\ conf.stack = <<>>
  /\ conf' = HandleExit(conf, "exit")

Interrupt ==
  /\ Runs /\ Top # "sigint"
  /\ conf' = HandleExit(conf, "sigint")

ExitSaves ==
  /\ In({"exit", "sigint"})
  /\ \/ conf' = [Written(conf, conf.filename) EXCEPT !.end = "saved"]
     \/ conf' = [conf EXCEPT !.end = "failed"]

(* No, or a display that is too small for the question. *)
ExitDiscards ==
  /\ In({"exit", "sigint"})
  /\ conf' = [conf EXCEPT !.end = "discarded"]

(* ESC: main() goes on with the root menu, the handler exits. *)
ExitEscape ==
  /\ In({"exit", "sigint"})
  /\ conf' = IF Top = "exit" THEN EnterConf([conf EXCEPT !.stack = Front(@)], "none")
             ELSE [conf EXCEPT !.end = "discarded"]

-----------------------------------------------------------------------------
(* conf_read(NULL) reads .config, or counts a change if there is none, and  *)
(* the root menu comes up.                                                 *)
Started(file) ==
  EnterConf(
    [stack |-> <<>>, trail |-> <<>>, subtitles |-> <<>>, changed |-> file[DotConfig] = NoFile, file |-> file,
     filename |-> DotConfig, end |-> "no", unnoticed |-> FALSE,
     mem |-> IF file[DotConfig] = NoFile THEN Defaults ELSE file[DotConfig]], "none")

Start == conf.end # "no" /\ conf' = Started(conf.file)

SessionInit == \E file \in [Name -> Settings \cup {NoFile}] : conf = Started(file)

SessionNext ==
  \/ \E title \in {"a", "b"} : Submenu(title) \/ Jump(title)
  \/ \E fn \in {"choice", "string", "load", "save", "search"} : Enter(fn)
  \/ \E a \in Answer \cup {Unset} : SetAnswer(a) \/ StringEntered(a)
  \/ \E v \in Value : ChoiceSelect(v)
  \/ \E name \in Name : Load(name) \/ LoadMissing(name) \/ Save(name)
  \/ LeaveConf \/ Escape \/ Search \/ LeaveResults
  \/ Start \/ MainExits \/ Interrupt \/ ExitSaves \/ ExitDiscards \/ ExitEscape

SessionSpec == SessionInit /\ [][SessionNext]_conf

-----------------------------------------------------------------------------
(* The titles on the screen are those of the menus and searches that wait  *)
(* below the dialog, in their order, and none while a file is named or the *)
(* program is left, however deeply searches and menus are nested (316-352).*)
TitlesArePath ==
  LET path == Titles([i \in DOMAIN conf.stack |-> conf.stack[i].title])
  IN  Runs => conf.subtitles = IF Top \in {"load", "save", "exit", "sigint"} THEN <<>> ELSE path

(* The program ends without a question only if the file it would save to   *)
(* is there and has the configuration (968).  Two changes escape it: a     *)
(* name that cannot be loaded clears the count, and a reset to the default *)
(* value of the choice is not counted.                                     *)
QuietExitKeeps == conf.end = "quiet" /\ ~conf.unnoticed => conf.mem = conf.file[conf.filename]

=============================================================================
