------------------------------ MODULE MenuTree ------------------------------
(***************************************************************************)
(* The tree of menu entries that menu_finalize() leaves and the front ends *)
(* walk, with as much of the symbol engine as tells which entries they     *)
(* show (menu.c, symbol.c).                                                *)
(***************************************************************************)
EXTENDS Naturals, Sequences
LOCAL INSTANCE FiniteSetsExt

CONSTANTS Entry,     \* menu entries; an entry stands for its symbol as well
          Root,      \* rootmenu
          Kids,      \* Kids[e]: the list of e
          Above,     \* Above[e]: the parent of e
          Kind,      \* "menu", "comment", "bool", "menuconfig", "choice", "value", "string"
          Promptless,\* entries without a prompt
          Selects,   \* <<s, e>>: s selects e
          Depth      \* bound: the longest chain of symbols that depend on one another

(* The state of the symbols is a record u: dep[e] and ifs[e] are the       *)
(* symbols that e depends on and that its prompt needs, has is the symbols *)
(* with a value from the user (SYMBOL_DEF_USER), val the ones it is y for, *)
(* and pick[c] the value last set for the choice c.  on and seen are what  *)
(* Calc() makes of them: the symbols that are y, the entries to be shown.  *)

HasSym(e) == Kind[e] \notin {"menu", "comment"}
IsMenu(e) == Kind[e] \in {"menu", "menuconfig"}   \* the prompt is a P_MENU
Children(e) == {Kids[e][i] : i \in DOMAIN Kids[e]}
Parent(e) == Above[e]

(* menu_get_parent_menu() *)
ParentMenu(e) ==
  LET up[f \in Entry] == IF f = Root \/ IsMenu(f) THEN f ELSE up[Parent(f)]
  IN  up[e]

(* The first entry of a list that is in S. *)
First(list, S) ==
  list[CHOOSE i \in DOMAIN list : list[i] \in S /\ \A j \in 1..(i - 1) : list[j] \notin S]

Visible(u, e) == e \notin Promptless /\ u.dep[e] \cup u.ifs[e] \subseteq u.on

(* sym_calc_choice(): the value that was set, or the first that is visible. *)
Chosen(u, c) ==
  LET seen == {v \in Children(c) : Kind[v] = "value" /\ Visible(u, v)}
  IN  IF u.pick[c] \in seen \/ seen = {} THEN u.pick[c] ELSE First(Kids[c], seen)

(* sym_calc_value(), for symbols that are n or y. *)
CalcOne(u, e) ==
  CASE Kind[e] \in {"bool", "menuconfig"} ->
         /\ u.dep[e] \subseteq u.on
         /\ \/ Visible(u, e) /\ e \in u.has \cap u.val
            \/ \E s \in u.on : <<s, e>> \in Selects
    [] Kind[e] = "choice" -> Visible(u, e)
    [] Kind[e] = "value" -> Visible(u, e) /\ e = Chosen(u, Parent(e))
    [] OTHER -> FALSE

(* menu_is_visible(): a symbol that is on is shown for an entry below it. *)
MenuVisible(u) ==
  LET shown[e \in Entry] ==
        \/ Visible(u, e)
        \/ e \notin Promptless /\ e \in u.on /\ \E k \in Children(e) : shown[k]
  IN  {e \in Entry : shown[e]}

(* All values, each after the ones it depends on.  (The sets of one element *)
(* make TLC evaluate a round once.)                                        *)
Calc(u) ==
  LET Step(v) == [v EXCEPT !.on = {e \in Entry : CalcOne(v, e)}]
      round[n \in 0..Depth] ==
        IF n = 0 THEN [u EXCEPT !.on = {}]
        ELSE CHOOSE w \in {Step(v) : v \in {round[n - 1]}} : TRUE
  IN  CHOOSE w \in {[v EXCEPT !.seen = MenuVisible(v)] : v \in {round[Depth]}} : TRUE

(* sym_is_changable() *)
Changeable(u, e) ==
  /\ HasSym(e) /\ Kind[e] # "choice" /\ Visible(u, e)
  /\ ~\E s \in u.on : <<s, e>> \in Selects

(* What menu_is_visible() does to u on the way: a symbol shown for an      *)
(* entry below it has a value afterwards, the one that it never got.       *)
Marks(u, e) ==
  LET marks[f \in Entry] ==
        IF Visible(u, f) \/ f \notin u.on THEN {}
        ELSE (IF Children(f) \cap u.seen = {} THEN {} ELSE {f})
               \cup UNION {marks[Kids[f][i]] : i \in {j \in DOMAIN Kids[f] :
                               \A l \in 1..(j - 1) : Kids[f][l] \notin u.seen}}
  IN  marks[e]
Marked(u, e) ==
  IF Marks(u, e) = {} THEN u ELSE Calc([u EXCEPT !.has = @ \cup Marks(u, e)])

(* sym_set_tristate_value() and sym_set_string_value(), for an answer that *)
(* is allowed.                                                             *)
Set(u, e, y) ==
  Calc([u EXCEPT !.has = @ \cup {e}, !.val = IF y THEN @ \cup {e} ELSE @ \ {e}])

(* sym_set_choice_value(): the visible values count as answered. *)
SetChoice(u, c, v) ==
  Calc([u EXCEPT !.pick[c] = v, !.has = @ \cup {c, v} \cup {w \in Children(c) : Visible(u, w)}])

(* The entries that are shown, together with all the entries above them. A *)
(* value of a choice that is not chosen hides what is below it.            *)
Reached(u) ==
  LET r[e \in Entry] ==
        /\ e \in u.seen
        /\ e = Root \/ (r[Parent(e)] /\ (Kind[Parent(e)] = "value" => Parent(e) \in u.on))
  IN  {e \in Entry : r[e]}

-----------------------------------------------------------------------------
(* What menuconfig lists in a menu (build_conf() of mconf.c), and where a  *)
(* search result leads (get_prompt_str() of menu.c).                       *)

RECURSIVE BuildConf(_, _, _, _, _), Concat(_), Opened(_, _, _, _)
Concat(seqs) == IF seqs = <<>> THEN <<>> ELSE Head(seqs) \o Concat(Tail(seqs))
Elements(s) == {s[i] : i \in DOMAIN s}

(* Mutant: what is below the chosen value is not listed. *)
DefMenuNone(u, c) == {}
(* def_menu: the value of the choice, if it has entries of its own. *)
DefMenu(u, c) == {v \in Children(c) : v \in u.seen /\ v = Chosen(u, c) /\ Kids[v] # <<>>}

(* An entry that is not listed, nor what is below it. *)
Hidden(u, e, all) == IF all THEN e \in Promptless ELSE e \notin u.seen

(* The items of the menu `current' from the entry e on.  all is            *)
(* show_all_options, open the menus that single_menu_mode has unfolded.    *)
(* The line of `current' itself comes only if it is a symbol.              *)
BuildConf(u, e, current, all, open) ==
  LET List(f) == BuildConf(u, f, current, all, open)
      kids    == Concat([i \in DOMAIN Kids[e] |-> List(Kids[e][i])])
  IN  CASE Hidden(u, e, all) -> <<>>
        [] ~Hidden(u, e, all) /\ e = current /\ ~HasSym(e) -> kids
        [] ~Hidden(u, e, all) /\ e # current /\ IsMenu(e) -> <<e>> \o (IF e \in open THEN kids ELSE <<>>)
        [] ~Hidden(u, e, all) /\ Kind[e] = "choice" /\ e \in u.on ->
             <<e>> \o (IF DefMenu(u, e) = {} THEN <<>> ELSE List(CHOOSE v \in DefMenu(u, e) : TRUE))
        [] OTHER -> <<e>> \o kids

(* The entries that conf() shows for the menu m and for all that it opens  *)
(* from there; conf_choice() lists the visible values.                     *)
Opened(u, m, all, open) ==
  LET items == Elements(BuildConf(u, m, m, all, open))
      lists == {c \in items : Kind[c] = "choice" /\ c \in u.on}
      menus == {n \in items : IsMenu(n) /\ n # m}
  IN  {m} \cup items \cup UNION {Children(c) \cap u.seen : c \in lists}
        \cup UNION {Opened(u, n, all, open) : n \in menus}

(* submenu[]: the entries above e, the nearest first. *)
Ancestors(e) ==
  LET up[f \in Entry] == IF f = Root \/ Parent(f) = Root THEN <<>> ELSE <<Parent(f)>> \o up[Parent(f)]
  IN  up[e]

(* get_prompt_str(): the entry that the key at a result leads to, if it    *)
(* has one.  It is e, or the first visible entry above it; an entry of the *)
(* top menu has none.                                                      *)
JumpTarget(u, e) ==
  LET location == {i \in DOMAIN Ancestors(e) : Ancestors(e)[i] \in u.seen}
  IN  IF location = {} THEN {}
      ELSE IF e \in u.seen THEN {e} ELSE {Ancestors(e)[Min(location)]}
=============================================================================
