---------------------------- MODULE ConfSession ----------------------------
(***************************************************************************)
(* Runs of the configuration tools over one .config (confdata.c, conf.c):  *)
(* reading it, answering questions, saving it; and the check of            *)
(* toplevel.mk that stops a build whose .config is out of sync.            *)
(*                                                                         *)
(* A file maps each symbol to the value on its line, or to NoLine.  A read *)
(* or a write computes every symbol, one CalcSym or CalcChoice at a time,  *)
(* between its two steps; nothing else happens meanwhile.                  *)
(***************************************************************************)
EXTENDS Kconfig

CONSTANTS InitFiles,  \* what .config may hold before the tools are first run
          MaxOps      \* bound: answers and saves in one interactive run

NoLine == -1
File == [Sym \ Choices -> Tristate \cup {NoLine}]

ASSUME FilesAssumption == InitFiles \subseteq File
ASSUME OpsAssumption   == MaxOps \in Nat

VARIABLES
  mode,     \* where the process is
  session,  \* what it was started for
  config,   \* .config
  bytool,   \* .config is the work of a tool, not of an editor
  tmp,      \* tmp/.config, which the sync check writes
  asked,    \* history: the last answer accepted, while nothing else changed
  ops       \* answers and saves so far in this run

sessionVars == <<mode, session, config, bytool, tmp, asked, ops>>
vars == <<symVars, sessionVars>>

NoAnswer == [sym |-> NoSym, val |-> no]

TypeOK ==
  /\ SymTypeOK
  /\ mode \in {"start", "read", "idle", "new", "pass", "write", "done"}
  /\ session \in {"menu", "defconfig", "sync"}
  /\ config \in File /\ tmp \in File
  /\ bytool \in BOOLEAN
  /\ asked \in [sym : Sym \cup {NoSym}, val : Tristate]
  /\ ops \in 0..MaxOps

Init ==
  /\ Fresh
  /\ mode = "start" /\ session = "menu"
  /\ config \in InitFiles /\ bytool = FALSE
  /\ tmp = [s \in Sym \ Choices |-> NoLine]
  /\ asked = NoAnswer /\ ops = 0

-----------------------------------------------------------------------------
(* conf_read() and conf_write().                                           *)

\* conf_set_sym_val(): the line is there and its value fits the type.
Parsed(s) == config[s] # NoLine /\ ~(config[s] = mod /\ Type[s] = "bool")

\* Lines of choice c with value t, and a y line before an m line.
Lines(c, t) == {v \in Values(c) : Parsed(v) /\ config[v] = t}
Inconsistent(c) ==
  \E v \in Lines(c, yes), w \in Lines(c, mod) : MenuPos[v] < MenuPos[w]

\* conf_warnings: unfit lines, and choices with several answers.
Warned ==
  \/ \E s \in DOMAIN config : config[s] # NoLine /\ ~Parsed(s)
  \/ \E c \in Choices :
       \/ Inconsistent(c)
       \/ \E v \in Lines(c, yes), w \in Lines(c, yes) \cup Lines(c, mod) :
            MenuPos[w] < MenuPos[v]

\* conf_read_simple(): conf_reset(), then line by line; a choice takes its value
\* from the lines of its values, and the last y line is the one selected.
ReadBegin(what) ==
  /\ mode = "start"
  /\ user' = [s \in Sym |->
       IF s \in Choices
       THEN IF Lines(s, yes) # {} THEN yes ELSE IF Lines(s, mod) # {} THEN mod ELSE no
       ELSE IF Parsed(s) THEN config[s] ELSE no]
  /\ userSel' = [c \in Choices |->
       IF Lines(c, yes) = {} THEN NoSym ELSE LastSym(Lines(c, yes))]
  /\ hasUser' = {s \in Sym \ Choices : Parsed(s)} \cup {c \in Choices : ~Inconsistent(c)}
  /\ valid' = {} /\ changed' = FALSE
  /\ mode' = "read" /\ session' = what
  /\ UNCHANGED <<curr, sel, visible, dirDep, revDep, write, early>>
  /\ UNCHANGED <<config, bytool, tmp, asked, ops>>

\* A symbol whose line and computed value disagree (427-449).
Unsaved(s) ==
  /\ ~(s \in hasUser /\ s \in write /\ user[s] = curr[s])
  /\ s \in hasUser \/ s \in write

\* The end of conf_read(): when everything agrees, values that cannot be seen
\* no longer count as the user's.
ReadEnd ==
  /\ mode = "read" /\ valid = Sym
  /\ LET unsaved == \E s \in Sym \ Choices : Unsaved(s)
     IN  /\ hasUser' = IF unsaved THEN hasUser
                       ELSE hasUser \ {s \in Sym \ ChoiceVals : visible[s] = no}
         /\ changed' = (unsaved \/ Warned)
  /\ mode' = IF session = "menu" THEN "idle" ELSE "new"
  /\ UNCHANGED <<curr, sel, visible, dirDep, revDep, valid, user, userSel, write, early>>
  /\ UNCHANGED <<session, config, bytool, tmp, asked, ops>>

\* Mutant: trusts what is cached even when nothing changed.
WriteBeginCached ==
  /\ \/ mode = "idle" /\ ops < MaxOps /\ ops' = ops + 1
     \/ mode = "pass" /\ Choices \subseteq hasUser \cup valid /\ ops' = ops
  /\ mode' = "write"
  /\ UNCHANGED <<symVars, session, config, bytool, tmp, asked>>

\* conf_write() begins: unless something changed, all is computed afresh.
WriteBegin ==
  /\ \/ mode = "idle" /\ ops < MaxOps /\ ops' = ops + 1
     \/ mode = "pass" /\ Choices \subseteq hasUser \cup valid /\ ops' = ops
  /\ IF changed THEN UNCHANGED <<valid, changed>> ELSE ClearAllValid
  /\ mode' = "write"
  /\ UNCHANGED <<curr, sel, visible, dirDep, revDep, hasUser, user, userSel, write, early>>
  /\ UNCHANGED <<session, config, bytool, tmp, asked>>

\* The lines conf_write() prints: symbols with SYMBOL_WRITE, m as n without
\* modules (sym_get_string_value).
Output ==
  [s \in Sym \ Choices |->
     IF s \notin write THEN NoLine
     ELSE IF curr[s] = mod /\ Modules = no THEN no
     ELSE curr[s]]

\* conf_write() ends: SYMBOL_WRITE is cleared on what was printed.
WriteEnd ==
  /\ mode = "write" /\ valid = Sym
  /\ write' = write \cap Choices
  /\ changed' = FALSE
  /\ IF session = "sync"
     THEN tmp' = Output /\ UNCHANGED <<config, bytool>>
     ELSE config' = Output /\ bytool' = TRUE /\ UNCHANGED tmp
  /\ mode' = IF session = "menu" THEN "idle" ELSE "done"
  /\ UNCHANGED <<curr, sel, visible, dirDep, revDep, valid, hasUser, user, userSel, early>>
  /\ UNCHANGED <<session, asked, ops>>

-----------------------------------------------------------------------------
(* The runs: menuconfig or oldconfig, defconfig, the sync check.           *)

\* sym_calc_value(), called for any entry that is drawn, read or written.
Calc(s) ==
  /\ mode \in {"read", "idle", "pass", "write"}
  /\ mode = "pass" /\ s \in Choices => s \in hasUser
  /\ CalcSym(s) \/ CalcChoice(s)
  /\ UNCHANGED sessionVars

\* An answer in an interactive run.
Answer(s) ==
  /\ mode = "idle" /\ ops < MaxOps
  /\ \/ \E val \in Tristate : SetTristateValue(s, val)
     \/ ToggleTristateValue(s)
  /\ ops' = ops + 1
  /\ asked' = [sym |-> s, val |-> user'[s]]
  /\ UNCHANGED <<mode, session, config, bytool, tmp>>

\* conf --defconfig, --allyesconfig and the like, after the read: all at once, and
\* then the choices in the order of the symbol table.
AnswerAll(answer) ==
  /\ mode = "new"
  /\ SetAllNewSymbols(answer)
  /\ mode' = "pass"
  /\ UNCHANGED <<session, config, bytool, tmp, asked, ops>>

AnswerChoice(c) ==
  /\ mode = "pass"
  /\ SetAllChoiceValues(c)
  /\ UNCHANGED sessionVars

\* The process ends; the next one starts from zeroed symbols.
Exit ==
  /\ mode \in {"idle", "done"}
  /\ Restart
  /\ mode' = "start" /\ asked' = NoAnswer /\ ops' = 0
  /\ UNCHANGED <<session, config, bytool, tmp>>

Next ==
  \/ \E what \in {"menu", "defconfig", "sync"} : ReadBegin(what)
  \/ ReadEnd \/ WriteBegin \/ WriteEnd \/ Exit
  \/ \E s \in Sym : Calc(s) \/ Answer(s)
  \/ \E answer \in Tristate : session = "defconfig" /\ AnswerAll(answer)
  \/ AnswerAll(def_default)
  \/ \E c \in Choices : AnswerChoice(c)

Spec == Init /\ [][Next]_vars

-----------------------------------------------------------------------------
(* Properties.                                                             *)

\* OpenWrt's rule for selects (symbol.c:402): whatever was answered, cached or
\* reloaded, no symbol is on while its own `depends on' is off in the values
\* now in force.
DependenciesMet ==
  \A s \in valid \ ChoiceVals :
    curr[s] # no => ExprVal(DirDep[s], curr) # no

\* A select is obeyed wherever the dependencies of the selected symbol allow.
SelectsObeyed ==
  \A s \in valid \ ChoiceVals :
    ExprVal(DirDep[s], curr) # no /\ s \notin Choices
      => curr[s] >= ExprVal(RevDep[s], curr)

\* When a choice is at y and its values are computed, exactly one value is on,
\* and it is the one the choice selected.
OneChosen ==
  \A c \in Choices \cap valid :
    curr[c] = yes /\ Values(c) \subseteq valid
      => {v \in Values(c) : curr[v] # no} = {sel[c]}

\* An answer that was accepted is the value the symbol has when it is computed
\* again.
AnswersStick == asked.sym \in valid => curr[asked.sym] = asked.val

\* No valid value is stale: computed again, a symbol would keep its value, and so
\* would a choice that counts as answered.  Only an entry inside a tristate choice
\* may go by what its prompt saw of the choice before that was answered
\* (confdata.c:1123); a value of the choice never does.
CacheCoherent ==
  /\ \A s \in valid \ Choices :
       LET seen == IF s \in ChoiceVals THEN curr ELSE View(s)
       IN  curr[s] = NewValAt(s, Visibility(s, seen), curr)
  /\ \A c \in valid \cap Choices \cap hasUser :
       curr[c] = FinalVal(c) /\ sel[c] = FinalSel(c)

\* A .config a tool has written passes the sync check of toplevel.mk: the lines
\* conf --defconfig makes of it are lines it has.
InSync ==
  session = "sync" /\ mode = "done" /\ bytool
    => \A s \in DOMAIN tmp : tmp[s] \in {NoLine, config[s]}

=============================================================================
