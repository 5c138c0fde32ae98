------------------------------ MODULE AutoConf ------------------------------
(***************************************************************************)
(* conf_write_autoconf() of confdata.c: from the configuration it makes    *)
(* the header, tristate.conf and auto.conf, and one empty file per symbol  *)
(* under include/config, touched whenever the symbol has changed since     *)
(* auto.conf, for make to rebuild what depends on the symbol.              *)
(***************************************************************************)
CONSTANTS Sym,       \* symbols
          Tristate,  \* the tristate ones; the others are strings
          Strings    \* values of strings

VARIABLES dotconfig,    \* values in .config; "none" for a symbol it does not have
          auto,      \* auto.conf
          header,    \* autoconf.h
          tristate,  \* tristate.conf
          touched,   \* symbols whose file is newer than what was compiled with them
          built,     \* built[s]: the macro of s that its users were compiled with
          fresh,     \* auto.conf is newer than .config
          step, todo   \* conf_write_autoconf(): the next step, and the files left to touch

autoVars == <<dotconfig, auto, header, tristate, touched, built, fresh, step, todo>>
files == <<auto, header, tristate>>

ValuesOf(s) == {"none"} \cup IF s \in Tristate THEN {"n", "m", "y"} ELSE Strings
Configs == {c \in [Sym -> UNION {ValuesOf(s) : s \in Sym}] : \A s \in Sym : c[s] \in ValuesOf(s)}

(* The three printers: no is printed nowhere, and a string not in          *)
(* tristate.conf.                                                          *)
Printed(c) == [s \in Sym |-> IF c[s] = "n" THEN "none" ELSE c[s]]
PrintedTristate(c) == [s \in Sym |-> IF s \in Tristate THEN Printed(c)[s] ELSE "none"]

(* Mutant: a symbol that is not written any more is skipped. *)
ChangedWritten(s) == dotconfig[s] \notin {"none", "n"} /\ dotconfig[s] # auto[s]
(* conf_split_config(): the old value is the one in auto.conf. *)
Changed(s) ==
  \/ dotconfig[s] # "none" /\ auto[s] # "none" /\ dotconfig[s] # auto[s]
  \/ dotconfig[s] # "none" /\ auto[s] = "none" /\ ~(s \in Tristate /\ dotconfig[s] = "n")
  \/ dotconfig[s] = "none" /\ auto[s] # "none"

AutoTypes ==
  /\ dotconfig \in Configs /\ auto \in Configs /\ header \in Configs /\ tristate \in Configs
  /\ built \in Configs /\ touched \subseteq Sym /\ todo \subseteq Sym /\ fresh \in BOOLEAN
  /\ step \in {"idle", "split", "header", "tristate", "auto"}

(* Nothing was built, and there are no files. *)
AutoInit ==
  /\ dotconfig \in Configs
  /\ auto = [s \in Sym |-> "none"] /\ header = auto /\ tristate = auto
  /\ touched = {} /\ built = auto /\ fresh = FALSE
  /\ step = "idle" /\ todo = {}

-----------------------------------------------------------------------------
(* The user saves another configuration.                                   *)
Edit(c) ==
  /\ step = "idle"
  /\ dotconfig' = c /\ fresh' = FALSE
  /\ UNCHANGED <<files, touched, built, step, todo>>

Begin ==
  /\ step = "idle" /\ ~fresh
  /\ step' = "split" /\ todo' = {s \in Sym : Changed(s)}
  /\ UNCHANGED <<dotconfig, files, touched, built, fresh>>

Touch(s) ==
  /\ step = "split" /\ s \in todo
  /\ touched' = touched \cup {s} /\ todo' = todo \ {s}
  /\ UNCHANGED <<dotconfig, files, built, fresh, step>>

(* The three temporary files are printed. *)
PrintAll ==
  /\ step = "split" /\ todo = {}
  /\ step' = "header"
  /\ UNCHANGED <<dotconfig, files, touched, built, fresh, todo>>

RenameHeader ==
  /\ step = "header" /\ step' = "tristate"
  /\ header' = Printed(dotconfig)
  /\ UNCHANGED <<dotconfig, auto, tristate, touched, built, fresh, todo>>

RenameTristate ==
  /\ step = "tristate" /\ step' = "auto"
  /\ tristate' = PrintedTristate(dotconfig)
  /\ UNCHANGED <<dotconfig, auto, header, touched, built, fresh, todo>>

RenameAuto ==
  /\ step = "auto" /\ step' = "idle"
  /\ auto' = Printed(dotconfig) /\ fresh' = TRUE
  /\ UNCHANGED <<dotconfig, header, tristate, touched, built, todo>>

(* A mkdir(), open(), fopen() or rename() fails, or the process is killed. *)
Abort ==
  /\ step # "idle" /\ step' = "idle" /\ todo' = {}
  /\ UNCHANGED <<dotconfig, files, touched, built, fresh>>

(* make compiles what uses s, once auto.conf is up to date.                *)
Compile(s) ==
  /\ step = "idle" /\ fresh /\ s \in touched
  /\ built' = [built EXCEPT ![s] = header[s]] /\ touched' = touched \ {s}
  /\ UNCHANGED <<dotconfig, files, fresh, step, todo>>

AutoNext ==
  \/ \E c \in Configs : Edit(c)
  \/ Begin \/ PrintAll \/ RenameHeader \/ RenameTristate \/ RenameAuto \/ Abort
  \/ \E s \in Sym : Touch(s) \/ Compile(s)

AutoSpec == AutoInit /\ [][AutoNext]_autoVars

-----------------------------------------------------------------------------
(* `This must be the last step ... this marks the successful completion of *)
(* the previous steps' (1021): an auto.conf newer than .config means that  *)
(* the header and tristate.conf are of the same configuration, and that    *)
(* every symbol whose users saw another value is marked for them to be     *)
(* compiled again, whatever was changed, interrupted and tried again.      *)
Rebuilds ==
  fresh => /\ header = Printed(dotconfig)
           /\ tristate = PrintedTristate(dotconfig)
           /\ \A s \in Sym \ touched : built[s] = header[s]
=============================================================================
