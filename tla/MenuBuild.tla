----------------------------- MODULE MenuBuild ------------------------------
(***************************************************************************)
(* The tree that the parser builds of the Config.in files, statement by    *)
(* statement (scripts/config/menu.c as zconf.y calls it).  The entries are *)
(* linked by the pointers parent, list and next, and the parser knows only *)
(* current_entry, current_menu and the pointer the next entry goes to.     *)
(*                                                                         *)
(* A condition is the set of the symbols it needs, and a prompt has one.   *)
(***************************************************************************)
EXTENDS Integers, Sequences, FiniteSets
LOCAL INSTANCE SequencesExt

CONSTANTS MaxEntries,   \* bound: entries written
          Condition     \* conditions: sets of symbols; "m" is symbol_mod

VARIABLES tree

Root == 0
Nil == -1
ModulesName == "MODULES"

(* text and open are history: what was written, and the blocks not closed. *)
Init ==
  tree = [parent |-> <<>>, list |-> [e \in {Root} |-> Nil], next |-> [e \in {Root} |-> Nil],
          dep |-> <<>>, visibility |-> [e \in {Root} |-> {}], prompt |-> <<>>,
          current_entry |-> Root, current_menu |-> Root, last_entry_ptr |-> <<"list", Root>>,
          text |-> <<>>, open |-> <<Root>>]

Count == Len(tree.text)

-----------------------------------------------------------------------------
(* menu_check_dep(): m is m && MODULES *)
Checked(c) == IF "m" \in c THEN c \cup {ModulesName} ELSE c

Grown(f, e, v) == [x \in DOMAIN f \cup {e} |-> IF x = e THEN v ELSE f[x]]
Written(p, e, f, name) == IF p[1] = name THEN [f EXCEPT ![p[2]] = e] ELSE f

(* menu_add_entry() *)
AddEntry(t, e) ==
  [t EXCEPT !.parent = Append(@, t.current_menu), !.dep = Append(@, {}), !.prompt = Append(@, {}),
            !.list = Grown(Written(t.last_entry_ptr, e, @, "list"), e, Nil),
            !.next = Grown(Written(t.last_entry_ptr, e, @, "next"), e, Nil),
            !.visibility = Grown(@, e, {}),
            !.last_entry_ptr = <<"next", e>>, !.current_entry = e]

(* menu_add_dep() *)
AddDep(t, c) == [t EXCEPT !.dep[t.current_entry] = @ \cup Checked(c)]

(* menu_add_visibility() *)
AddVisibility(t, c) == [t EXCEPT !.visibility[t.current_entry] = @ \cup c]

(* menu_add_prop() of a P_PROMPT: every menu above has its say. *)
RECURSIVE Above(_, _)
Above(t, e) == IF e = Root THEN {} ELSE {t.parent[e]} \cup Above(t, t.parent[e])
AddPrompt(t, c) ==
  [t EXCEPT !.prompt[t.current_entry] =
     Checked(c) \cup UNION {t.visibility[f] : f \in Above(t, t.current_entry)}]

(* menu_add_menu() *)
AddMenu(t) == [t EXCEPT !.last_entry_ptr = <<"list", t.current_entry>>, !.current_menu = t.current_entry]

(* menu_end_menu() *)
EndMenuEntry(t) ==
  [t EXCEPT !.last_entry_ptr = <<"next", t.current_entry>>, !.current_menu = t.parent[t.current_menu]]
EndMenu(t) ==
  [t EXCEPT !.last_entry_ptr = <<"next", t.current_menu>>, !.current_menu = t.parent[t.current_menu]]

-----------------------------------------------------------------------------
(* Statements.  The text has what was written inside which block.          *)
Note(t, kind, c) ==
  [t EXCEPT !.text = Append(@, [kind |-> kind, cond |-> c, within |-> Last(t.open)])]
Opened(t, e) == [t EXCEPT !.open = Append(@, e)]

(* config NAME, its prompt if c *)
Config(c) ==
  /\ Count < MaxEntries
  /\ tree' = AddPrompt(AddEntry(Note(tree, "config", c), Count + 1), c)

(* config NAME, depends on c: a prompt without a condition of its own *)
Depends(c) ==
  /\ Count < MaxEntries
  /\ tree' = AddPrompt(AddDep(AddEntry(Note(tree, "depends", c), Count + 1), c), {})

(* if c *)
If(c) ==
  /\ Count < MaxEntries
  /\ tree' = Opened(AddMenu(AddDep(AddEntry(Note(tree, "if", c), Count + 1), c)), Count + 1)

(* menu, visible if c *)
Menu(c) ==
  /\ Count < MaxEntries
  /\ tree' = Opened(AddMenu(AddVisibility(AddEntry(Note(tree, "menu", c), Count + 1), c)), Count + 1)

(* choice, its prompt if c: no menu or choice directly inside *)
Choice(c) ==
  /\ Count < MaxEntries
  /\ tree' = Opened(AddMenu(AddPrompt(AddEntry(Note(tree, "choice", c), Count + 1), c)), Count + 1)

InChoice == Last(tree.open) # Root /\ tree.text[Last(tree.open)].kind = "choice"

(* endif, endmenu, endchoice: the block's own (zconf_endtoken) *)
End ==
  /\ Len(tree.open) > 1
  /\ tree' = [EndMenu(tree) EXCEPT !.open = Front(@)]

Next ==
  \/ \E c \in Condition :
       \/ Config(c) \/ Depends(c) \/ If(c)
       \/ ~InChoice /\ (Menu(c) \/ Choice(c))
  \/ End

-----------------------------------------------------------------------------
(* The entries the pointers lead to from e on. *)
RECURSIVE Chain(_)
Chain(e) == IF e = Nil THEN <<>> ELSE <<e>> \o Chain(tree.next[e])

(* The blocks around the place where e was written. *)
RECURSIVE Around(_)
Around(e) == IF e = Root THEN {} ELSE {tree.text[e].within} \cup Around(tree.text[e].within)

\* The entries below an entry are those written in its block, in the order of
\* the text; the prompt of an entry needs its own condition and what the menus
\* around it are `visible if', and nothing else (menu.c:41-187).
BuiltAsWritten ==
  /\ \A e \in 0..Count :
       Chain(tree.list[e]) = SelectSeq([k \in 1..Count |-> k], LAMBDA k : tree.text[k].within = e)
  /\ \A e \in 1..Count :
       LET own(kinds) == IF tree.text[e].kind \in kinds THEN Checked(tree.text[e].cond) ELSE {}
           menus == {f \in Around(e) \ {Root} : tree.text[f].kind = "menu"}
       IN  /\ tree.parent[e] = tree.text[e].within
           /\ tree.dep[e] = own({"depends", "if"})
           /\ tree.text[e].kind \in {"config", "depends", "choice"} =>
                tree.prompt[e] = own({"config", "choice"}) \cup UNION {tree.text[f].cond : f \in menus}
=============================================================================
