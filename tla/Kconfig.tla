------------------------------ MODULE Kconfig ------------------------------
(***************************************************************************)
(* The symbol engine of the configuration tools (scripts/config/symbol.c): *)
(* bool and tristate symbols, choices, select, defaults, and the cache of  *)
(* computed values behind SYMBOL_VALID.                                    *)
(*                                                                         *)
(* sym_calc_value() recurses into the symbols an expression mentions and   *)
(* stops at the valid ones.  Here each symbol is computed by a step of its *)
(* own, taken once the symbols it reads are valid: the order in which the  *)
(* recursion returns.  Expressions are opaque: ExprVal(e, c) is            *)
(* expr_calc_value() on the values c, Reads(e) the symbols e mentions.     *)
(***************************************************************************)
EXTENDS Symbols, Sequences, FiniteSets

CONSTANTS
  NoSym,          \* the NULL symbol
  Choices,        \* the symbols with SYMBOL_CHOICE
  ChoiceOf,       \* ChoiceOf[v]: the choice that v is a value of
  MenuPos,        \* MenuPos[s]: place of s in the menu and in .config
  Prompt,         \* Prompt[s]: when the prompt is visible; "n" without one
  DirDep,         \* DirDep[s]: depends on; "y" without one
  RevDep,         \* RevDep[s]: the selects of s; "n" without one
  Defaults,       \* Defaults[s]: sequence of [val, cond], in the order written
  Expr,           \* the expressions
  ExprVal(_, _),  \* expr_calc_value()
  Reads(_)        \* symbols mentioned in an expression

ChoiceVals == DOMAIN ChoiceOf
Values(c)  == {v \in ChoiceVals : ChoiceOf[v] = c}

\* The first of a non-empty set of symbols or of positions.
FirstSym(S) == CHOOSE s \in S : \A t \in S : MenuPos[s] <= MenuPos[t]
LastSym(S)  == CHOOSE s \in S : \A t \in S : MenuPos[t] <= MenuPos[s]
FirstPos(I) == CHOOSE i \in I : \A j \in I : i <= j

\* The symbols sym_calc_value(s) computes before s.
DefaultReads(s) ==
  UNION {Reads(Defaults[s][i].cond)
           \cup (IF s \in Choices THEN {} ELSE Reads(Defaults[s][i].val)) :
         i \in DOMAIN Defaults[s]}
Deps(s) ==
  Reads(Prompt[s]) \cup DefaultReads(s)
    \cup (IF s \in ChoiceVals THEN {ChoiceOf[s]}
          ELSE Reads(DirDep[s]) \cup Reads(RevDep[s]))
    \cup (IF s \in Choices THEN (UNION {Reads(Prompt[v]) : v \in Values(s)}) \ {s}
          ELSE {})

ASSUME StructureAssumption ==
  /\ NoSym \notin Sym
  /\ Type \in [Sym -> {"bool", "tri"}]
  /\ Choices \subseteq Sym
  /\ ChoiceVals \subseteq Sym \ Choices
  /\ ChoiceOf \in [ChoiceVals -> Choices]
  /\ MenuPos \in [Sym -> Nat]
  /\ \A s, t \in Sym : MenuPos[s] = MenuPos[t] => s = t
  /\ \E last \in Sym : \A s \in Sym : MenuPos[s] <= MenuPos[last]
  /\ Prompt \in [Sym -> Expr] /\ DirDep \in [Sym -> Expr]
  /\ RevDep \in [Sym -> Expr]
  /\ \A s \in Sym : \A i \in DOMAIN Defaults[s] :
       /\ i \in Nat
       /\ Defaults[s][i].cond \in Expr
       /\ Defaults[s][i].val \in IF s \in Choices THEN Values(s) ELSE Expr
  /\ Modules \in {no, yes}

\* An expression has a tristate value that depends on the symbols it mentions.
ASSUME ExprAssumption ==
  \A e \in Expr :
    /\ Reads(e) \subseteq Sym
    /\ \A c \in [Sym -> Tristate] : ExprVal(e, c) \in Tristate
    /\ \A c \in [Sym -> Tristate] :
         ExprVal(e, c) = ExprVal(e, [s \in Sym |-> IF s \in Reads(e) THEN c[s] ELSE no])

\* sym_check_deps() reports a symbol that depends on itself, through whatever
\* other symbols.
ASSUME AcyclicAssumption ==
  \A s \in Sym : \E D \in SUBSET (Sym \ {s}) :
    Deps(s) \subseteq D /\ \A t \in D : Deps(t) \subseteq D

\* menu_finalize() puts `depends on' into the condition of every property.
ASSUME FinalizedAssumption ==
  \A s \in Sym \ ChoiceVals : \A c \in [Sym -> Tristate] :
    ExprVal(DirDep[s], c) = no =>
      /\ ExprVal(Prompt[s], c) = no
      /\ \A i \in DOMAIN Defaults[s] : ExprVal(Defaults[s][i].cond, c) = no

\* A choice that can be seen is at m at least, since none is optional; its values
\* are seen as far as it is on, and bool ones of a tristate choice when it is y.
ASSUME ChoiceAssumption ==
  \A c \in [Sym -> Tristate] :
    /\ \A s \in Choices : ExprVal(Prompt[s], c) # no => ExprVal(RevDep[s], c) # no
    /\ \A v \in ChoiceVals :
         LET s == ChoiceOf[v] vis == ExprVal(Prompt[v], c)
         IN  /\ vis # no => c[s] # no
             /\ vis = yes => c[s] = yes
             /\ vis # no /\ Type[v] = "bool" /\ Type[s] = "tri" => c[s] = yes

\* menu_finalize() puts the choice into the prompt of every entry of its block, so
\* there it is read first.  Of what a choice looks at only its own values read it,
\* for no Config.in has a choice in the block of another.
ASSUME ReadersAssumption ==
  \A s \in Sym : \A c \in Choices \cap Deps(s) :
    /\ c \in Reads(Prompt[s]) \/ s \in Values(c)
    /\ s \notin Choices
    /\ s \in ChoiceVals => s \in Values(c)

\* "defaults for choice values not supported" (menu.c:384).
ASSUME ChoiceValueAssumption == \A v \in ChoiceVals : DOMAIN Defaults[v] = {}

VARIABLES
  curr,      \* curr[s]: curr.tri, the computed value
  sel,       \* sel[c]: curr.val of a choice, the value it selects
  visible,   \* visible[s]: the prompt can be seen
  dirDep,    \* dirDep[s]: dir_dep.tri
  revDep,    \* revDep[s]: rev_dep.tri
  valid,     \* symbols with SYMBOL_VALID
  hasUser,   \* symbols with SYMBOL_DEF_USER
  user,      \* user[s]: def[S_DEF_USER].tri
  userSel,   \* userSel[c]: def[S_DEF_USER].val of a choice
  write,     \* symbols with SYMBOL_WRITE
  changed,   \* sym_change_count is not 0
  early      \* early[c]: who has read a choice before it was answered, and what

symVars == <<curr, sel, visible, dirDep, revDep, valid, hasUser, user, userSel,
             write, changed, early>>

\* Nobody has.
NotRead == [c \in Choices |-> [sym |-> NoSym, val |-> no]]

SymTypeOK ==
  /\ curr \in [Sym -> Tristate]
  /\ sel \in [Choices -> ChoiceVals \cup {NoSym}]
  /\ visible \in [Sym -> Tristate]
  /\ dirDep \in [Sym -> Tristate]
  /\ revDep \in [Sym -> Tristate]
  /\ valid \subseteq Sym
  /\ hasUser \subseteq Sym
  /\ user \in [Sym -> Tristate]
  /\ userSel \in [Choices -> ChoiceVals \cup {NoSym}]
  /\ write \subseteq Sym
  /\ changed \in BOOLEAN
  /\ early \in [Choices -> [sym : Sym \cup {NoSym}, val : Tristate]]

\* A new process: symbols are allocated zeroed (sym_lookup).
Fresh ==
  /\ curr = [s \in Sym |-> no]
  /\ sel = [c \in Choices |-> NoSym]
  /\ visible = [s \in Sym |-> no]
  /\ dirDep = [s \in Sym |-> no]
  /\ revDep = [s \in Sym |-> no]
  /\ valid = {}
  /\ hasUser = {}
  /\ user = [s \in Sym |-> no]
  /\ userSel = [c \in Choices |-> NoSym]
  /\ write = {}
  /\ changed = FALSE
  /\ early = NotRead

\* The same, for the process after this one.
Restart ==
  /\ curr' = [s \in Sym |-> no]
  /\ sel' = [c \in Choices |-> NoSym]
  /\ visible' = [s \in Sym |-> no]
  /\ dirDep' = [s \in Sym |-> no]
  /\ revDep' = [s \in Sym |-> no]
  /\ valid' = {}
  /\ hasUser' = {}
  /\ user' = [s \in Sym |-> no]
  /\ userSel' = [c \in Choices |-> NoSym]
  /\ write' = {}
  /\ changed' = FALSE
  /\ early' = NotRead

-----------------------------------------------------------------------------
(* What sym_calc_value() computes from the values c of other symbols.      *)

\* sym_get_type() is S_BOOLEAN, for a symbol with visibility vis.
IsBool(s, vis) ==
  \/ Type[s] = "bool"
  \/ s \in ChoiceVals /\ vis = yes
  \/ Modules = no

\* Mutant: a module is visible among the values of a choice at y.
VisibilityOfModules(s, c) ==
  LET tri == ExprVal(Prompt[s], c)
  IN  IF tri = mod /\ (Type[s] # "tri" \/ Modules = no) THEN yes ELSE tri

\* sym_calc_visibility(): visible, dir_dep.tri and rev_dep.tri.
Visibility(s, c) ==
  LET tri == ExprVal(Prompt[s], c)
      hidden == /\ s \in ChoiceVals /\ Type[s] = "tri"
                /\ tri = mod /\ c[ChoiceOf[s]] = yes
  IN  IF hidden THEN no
      ELSE IF tri = mod /\ (Type[s] # "tri" \/ Modules = no) THEN yes
      ELSE tri

DirDepVal(s, c) == IF ExprVal(DirDep[s], c) = no THEN no ELSE yes

\* The operators named ...At take the visibility found, which of a symbol in `early'
\* is not that of the values c; the others are for all the other symbols.
RevDepAt(s, vis, c) ==
  LET tri == ExprVal(RevDep[s], c)
  IN  IF tri = mod /\ IsBool(s, vis) THEN yes ELSE tri
RevDepVal(s, c) == RevDepAt(s, Visibility(s, c), c)

\* sym_get_default_prop(): the first default whose condition is not n.
VisibleDefaults(s, c) ==
  {i \in DOMAIN Defaults[s] : ExprVal(Defaults[s][i].cond, c) # no}

DefaultVal(s, c) ==
  LET D == VisibleDefaults(s, c)
      d == Defaults[s][FirstPos(D)]
  IN  IF D = {} THEN no ELSE EXPR_AND(ExprVal(d.val, c), ExprVal(d.cond, c))

\* The user's value within the visibility, or else the default.
BaseVal(s, vis, c) ==
  IF vis # no /\ s \in hasUser THEN EXPR_AND(user[s], vis)
  ELSE IF s \in Choices THEN no
  ELSE DefaultVal(s, c)

\* Mutants: a select beats unmet dependencies, as in the kernel's own tools; a
\* value beats a select.
SelectWins(base, dir, rev) == EXPR_OR(base, rev)
ValueWins(base, dir, rev) ==
  IF dir = no THEN no ELSE IF base # no THEN base ELSE rev

\* calc_newval: (402-406) unmet direct dependencies beat a select.
WithSelect(base, dir, rev) ==
  IF dir = no /\ rev # no THEN no ELSE EXPR_OR(base, rev)

\* The new tristate value of s.
NewValAt(s, vis, c) ==
  LET dir == IF s \in ChoiceVals THEN no ELSE DirDepVal(s, c)
      rev == IF s \in ChoiceVals THEN no ELSE RevDepAt(s, vis, c)
      tri == WithSelect(BaseVal(s, vis, c), dir, rev)
  IN  IF s \in ChoiceVals /\ vis = yes
      THEN IF sel[ChoiceOf[s]] = s THEN yes ELSE no
      ELSE IF tri = mod /\ IsBool(s, vis) THEN yes ELSE tri
NewVal(s, c) == NewValAt(s, Visibility(s, c), c)

\* SYMBOL_WRITE as sym_calc_value() sets it for s itself.
NewWriteAt(s, vis, c) ==
  LET default == s \notin Choices /\ VisibleDefaults(s, c) # {}
  IN  IF s \in ChoiceVals
      THEN s \in write \/ (vis # yes /\ (vis # no \/ default))
      ELSE vis # no \/ RevDepAt(s, vis, c) # no \/ default
NewWrite(s, c) == NewWriteAt(s, Visibility(s, c), c)

\* sym_choice_default(): the first visible default, or the first visible value.
ChoiceDefault(s, shown, c) ==
  LET D == {i \in VisibleDefaults(s, c) : Defaults[s][i].val \in shown}
  IN  IF D # {} THEN Defaults[s][FirstPos(D)].val
      ELSE IF shown # {} THEN FirstSym(shown)
      ELSE NoSym

\* Conditions on a menu that some promises need: no default is above what the
\* prompt lets the user answer; a choice at y has a value to show; no choice is
\* tristate; the block of a tristate choice holds nothing but its values.
DefaultsShown ==
  \A s \in Sym \ (Choices \cup ChoiceVals) : \A c \in [Sym -> Tristate] :
    Visibility(s, c) # no => DefaultVal(s, c) <= Visibility(s, c)
ValuesShown ==
  \A s \in Choices : \A c \in [Sym -> Tristate] :
    c[s] = yes => \E v \in Values(s) : Visibility(v, c) # no
BoolChoices == \A s \in Choices : Type[s] = "bool"
ValuesOnly ==
  \A c \in Choices : Type[c] = "tri" =>
    \A s \in Sym \ (Choices \cup Values(c)) : c \notin Reads(Prompt[s])

-----------------------------------------------------------------------------
(* Operations of symbol.c.                                                 *)

\* The values the prompt of s sees.
View(s) ==
  [t \in Sym |-> IF t \in Choices /\ early[t].sym = s THEN early[t].val ELSE curr[t]]

\* sym_calc_value() of a symbol that is no choice.
CalcSym(s) ==
  LET vis == Visibility(s, View(s))
  IN  /\ s \notin Choices /\ s \notin valid /\ Deps(s) \subseteq valid
      /\ valid' = valid \cup {s}
      /\ visible' = [visible EXCEPT ![s] = vis]
      /\ dirDep' = [dirDep EXCEPT ![s] = IF s \in ChoiceVals THEN @ ELSE DirDepVal(s, curr)]
      /\ revDep' = [revDep EXCEPT ![s] = IF s \in ChoiceVals THEN @ ELSE RevDepAt(s, vis, curr)]
      /\ curr' = [curr EXCEPT ![s] = NewValAt(s, vis, curr)]
      /\ write' = IF NewWriteAt(s, vis, curr) THEN write \cup {s} ELSE write \ {s}
      /\ UNCHANGED <<sel, hasUser, user, userSel, changed, early>>

\* What sym_calc_value() finds for a choice: sym_calc_choice() looks at the values
\* as they are seen with the choice at y, and picks the user's value, a default or
\* the first (295-325, 424-425).
ChoiceVal(s) == NewVal(s, curr)
AtChoice(s)  == [curr EXCEPT ![s] = ChoiceVal(s)]
Shown(s)     == {v \in Values(s) : Visibility(v, AtChoice(s)) # no}
Pick(s) ==
  IF userSel[s] \in Shown(s) THEN userSel[s] ELSE ChoiceDefault(s, Shown(s), AtChoice(s))
FinalVal(s) == IF ChoiceVal(s) = yes /\ Pick(s) = NoSym THEN no ELSE ChoiceVal(s)
FinalSel(s) == IF ChoiceVal(s) = yes THEN Pick(s) ELSE NoSym

\* What it stores there and in the values of the choice (424-452).
StoreChoice(s) ==
  /\ sel' = [sel EXCEPT ![s] = FinalSel(s)]
  /\ curr' = [curr EXCEPT ![s] = FinalVal(s)]
  /\ visible' = [t \in Sym |->
       IF t = s THEN Visibility(s, curr)
       ELSE IF ChoiceVal(s) = yes /\ t \in Values(s) THEN Visibility(t, AtChoice(s))
       ELSE visible[t]]
  /\ write' = IF NewWrite(s, curr)
              THEN write \cup {s} \cup {v \in Values(s) : visible'[v] # no}
              ELSE write \ {s}
  /\ dirDep' = [dirDep EXCEPT ![s] = DirDepVal(s, curr)]
  /\ revDep' = [revDep EXCEPT ![s] = RevDepVal(s, curr)]

\* sym_calc_value() of a choice: the user has not chosen when a value is new.
CalcChoice(s) ==
  /\ s \in Choices /\ s \notin valid /\ Deps(s) \subseteq valid
  /\ StoreChoice(s)
  /\ hasUser' = IF ChoiceVal(s) = yes /\ ~(Shown(s) \subseteq hasUser)
                THEN hasUser \ {s} ELSE hasUser
  /\ valid' = valid \cup {s}
  /\ UNCHANGED <<user, userSel, changed, early>>

\* sym_clear_all_valid().
ClearAllValid == valid' = {} /\ changed' = TRUE

\* Mutant: forgets that the visibility limits the value.
TristateAboveSelect(s, val) ==
  /\ visible[s] # no
  /\ ~(IsBool(s, visible[s]) /\ val = mod)
  /\ visible[s] > revDep[s] /\ val >= revDep[s]

\* sym_tristate_within_range(): reads what the last computation left.
TristateWithinRange(s, val) ==
  /\ visible[s] # no
  /\ ~(IsBool(s, visible[s]) /\ val = mod)
  /\ visible[s] > revDep[s]
  /\ IF s \in ChoiceVals /\ visible[s] = yes
     THEN val = yes
     ELSE val >= revDep[s] /\ val <= visible[s]

Accepts(s, val) == val = curr[s] \/ TristateWithinRange(s, val)

\* sym_set_tristate_value() that returns true.  Its callers have drawn the entry
\* before, so s is valid (menu_is_visible, menu.c:454).  Choosing a choice value
\* is the user's answer to the whole choice.
SetTristateValue(s, val) ==
  /\ s \in valid /\ Accepts(s, val)
  /\ user' = [user EXCEPT ![s] = val]
  /\ IF s \in ChoiceVals /\ val = yes
     THEN /\ userSel' = [userSel EXCEPT ![ChoiceOf[s]] = s]
          /\ hasUser' = hasUser \cup {s, ChoiceOf[s]}
                          \cup {v \in Values(ChoiceOf[s]) : visible[v] # no}
     ELSE hasUser' = hasUser \cup {s} /\ UNCHANGED userSel
  /\ IF curr[s] # val THEN ClearAllValid ELSE UNCHANGED <<valid, changed>>
  /\ UNCHANGED <<curr, sel, visible, dirDep, revDep, write, early>>

\* sym_toggle_tristate_value(): the first acceptable value after the old one,
\* going round n, m, y.
ToggleTristateValue(s) ==
  \E step \in 1..3 :
    /\ \A k \in 1..(step - 1) : ~Accepts(s, (curr[s] + k) % 3)
    /\ SetTristateValue(s, (curr[s] + step) % 3)

\* The answer that leaves a symbol to its default.
def_default == 3

\* conf_set_all_new_symbols(): every symbol without a value of its own is
\* answered with `answer', or left to its default ...
SetAllNewSymbols(answer) ==
  /\ IF answer # def_default
     THEN /\ user' = [s \in Sym |-> IF s \in hasUser THEN user[s] ELSE answer]
          /\ hasUser' = Sym
     ELSE UNCHANGED <<user, hasUser>>
  /\ ClearAllValid
  /\ UNCHANGED <<curr, sel, visible, dirDep, revDep, userSel, write, early>>

\* The symbols sym_calc_value(s) computes, whatever is valid.
Needs(s) ==
  {t \in Sym : \A D \in SUBSET Sym :
     Deps(s) \subseteq D /\ (\A u \in D : Deps(u) \subseteq D) => t \in D}

\* Mutant: without SYMBOL_NEED_SET_CHOICE_VALUES on the values.
ReadersUnflagged(c) ==
  {s \in Sym \ (Choices \cup valid) :
     /\ Type[c] = "tri" /\ c \in Reads(Prompt[s])
     /\ \E d \in Choices \ (hasUser \cup valid \cup {c}) : s \in Needs(d)}

\* A symbol may read a choice while it is being answered: it is then under way for
\* another choice.  SYMBOL_NEED_SET_CHOICE_VALUES keeps the values of the choice
\* from that; a bool choice has the same value before and after.
Readers(c) ==
  {s \in Sym \ (Choices \cup valid \cup Values(c)) :
     /\ Type[c] = "tri" /\ c \in Reads(Prompt[s])
     /\ \E d \in Choices \ (hasUser \cup valid \cup {c}) : s \in Needs(d)}

\* ... and then the choices left are computed, one by one, and count as answered:
\* set_all_choice_values() leaves a choice to be computed again, but not those who
\* have read it.
SetAllChoiceValues(c) ==
  /\ c \in Choices \ (hasUser \cup valid) /\ Deps(c) \subseteq valid
  /\ StoreChoice(c)
  /\ user' = [v \in Sym |-> IF v \in Values(c) \ hasUser THEN no ELSE user[v]]
  /\ hasUser' = hasUser \cup {c}
  /\ \E s \in Readers(c) \cup {NoSym} : early' = [early EXCEPT ![c] = [sym |-> s, val |-> FinalVal(c)]]
  /\ UNCHANGED <<valid, userSel, changed>>

=============================================================================
