------------------------------- MODULE MCMenu -------------------------------
(***************************************************************************)
(* What menu_finalize() makes of conditions, and of menus.  A condition e, *)
(* as a Kconfig file may write it, is built up operand by operand beside   *)
(* the condition p of its menu; or a menu with condition p is written entry*)
(* by entry.  Other behaviours are of the parser's building of the tree    *)
(* before that, of the search for recursion that follows, and of the       *)
(* programs that walk through a finalized tree: conf, or xconfig.          *)
(***************************************************************************)
EXTENDS MenuFinalize, SymCheck
LOCAL INSTANCE SequencesExt
LOCAL INSTANCE Functions

CONSTANTS Mentioned,   \* the symbols that conditions mention
          Leaves,      \* operands to build e from
          MaxLeaves,   \* bound: operands in e
          Order,       \* the symbols of the menu in the order they are defined
          Conditions,  \* what an entry may depend on
          Prompts,     \* conditions a prompt may have
          Parents      \* conditions of the menu

VARIABLES p, e, entries,  \* conditions and menus
          part,           \* what the behaviour is of: "built", "written", "checked", "conf" or "xconfig"
          tree,           \* the tree being built
          walk, qconf     \* conf and xconfig
vars == <<p, e, entries>>

-----------------------------------------------------------------------------
(* The tree of the programs: N is a menu below an option in a menu, V a    *)
(* value with an option of its own, D a menu with a value.                 *)
TreeKids ==
  [root |-> <<"A", "M", "D", "Q">>, A |-> <<"B">>, B |-> <<>>, M |-> <<"C", "X">>, C |-> <<"N">>,
   N |-> <<"P">>, P |-> <<>>, X |-> <<"V", "W">>, V |-> <<"K">>, W |-> <<>>, K |-> <<>>,
   D |-> <<"E">>, E |-> <<>>, Q |-> <<>>]
TreeKind ==
  [root |-> "menu", A |-> "bool", B |-> "bool", M |-> "menu", C |-> "bool", N |-> "menu", P |-> "bool",
   X |-> "choice", V |-> "value", W |-> "value", K |-> "bool", D |-> "menuconfig", E |-> "string",
   Q |-> "comment"]
TreeAbove ==
  [k \in DOMAIN TreeKids |->
     IF k = "root" THEN "none" ELSE CHOOSE n \in DOMAIN TreeKids : k \in Range(TreeKids[n])]
Free == [n \in DOMAIN TreeKind |-> {}]
TreeDep ==
  [Free EXCEPT !["B"] = {"A"}, !["N"] = {"C"}, !["P"] = {"C"}, !["X"] = {"C"}, !["V"] = {"X"},
               !["W"] = {"X", "D"}, !["K"] = {"V"}, !["E"] = {"D"}]
(* Options may depend on later ones, which conf passes first. *)
TreeDeps ==
  {TreeDep, [TreeDep EXCEPT !["Q"] = {"K"}, !["A"] = {"P"}],
   [TreeDep EXCEPT !["D"] = {"K"}, !["W"] = {"X"}],
   [TreeDep EXCEPT !["M"] = {"B"}, !["C"] = {"B"}, !["N"] = {"B", "C"}, !["X"] = {"B", "C"}]}
SelectedOrNot == {Free, [Free EXCEPT !["A"] = {"C"}]}
(* val is what the options with a value have, of the last that was saved.  *)
Loaded(dep, ifs, has, val) ==
  [dep |-> dep, ifs |-> ifs, has |-> has, val |-> val, pick |-> [x \in {"X"} |-> "V"],
   on |-> {}, seen |-> {}]

Walk == INSTANCE ConfWalk
  WITH Entry <- DOMAIN TreeKind, Root <- "root", Kids <- TreeKids, Above <- TreeAbove, Kind <- TreeKind, Promptless <- {},
       Selects <- {<<"D", "A">>}, Depth <- 7,
       Starts <- {Loaded(TreeDep, ifs, has, has \ {"A"}) :
                    ifs \in SelectedOrNot, has \in {{"C", "D"}, {"A", "X", "V"}}}
                 \cup {Loaded(dep, Free, {}, {}) : dep \in TreeDeps}
XConfig == INSTANCE Qconf
  WITH Entry <- DOMAIN TreeKind, Root <- "root", Kids <- TreeKids, Above <- TreeAbove, Kind <- TreeKind, Promptless <- {"P"},
       Selects <- {<<"D", "A">>}, Depth <- 7, MaxSteps <- 4,
       Names <- <<"A", "B", "C", "D", "E", "K", "P", "V", "W">>,
       Patterns <- {<<{}, {}>>, <<{"A", "D", "P"}, {"D"}>>},
       Saved <- Loaded(TreeDep, [Free EXCEPT !["A"] = {"C"}], {"C", "D"}, {"C", "D"}),
       Files <- {Loaded(TreeDep, [Free EXCEPT !["A"] = {"C"}], has, has) : has \in {{}, {"D", "K"}}}

(* Two options and a choice of two values, which depend on their choice as *)
(* menu_finalize() has it.                                                 *)
ScanSymbol == {"A", "B", "X", "V", "W"}
ScanOf == [V |-> "X", W |-> "X"]
ScanGraphs ==
  {[A |-> a, B |-> b, X |-> x, V |-> v \cup {"X"}, W |-> w \cup {"X"}] :
     a \in SUBSET {"B", "V"}, b \in SUBSET {"A", "W"}, x \in SUBSET {"A"},
     v \in SUBSET {"B", "W"}, w \in SUBSET {"A"}}
  \cup {[A |-> a, B |-> {"A"}, X |-> x, V |-> {"X"}, W |-> {"X", "W"}] :
          a \in SUBSET {"A"}, x \in SUBSET {"B", "V"}}
  \cup {[A |-> a \cup {"X", "V"}, B |-> {}, X |-> {}, V |-> {"X"}, W |-> w \cup {"X"}] :
          a \in SUBSET {"B"}, w \in SUBSET {"A"}}

Build == INSTANCE MenuBuild WITH MaxEntries <- 4, Condition <- {{}, {"m"}}

-----------------------------------------------------------------------------
(* Where a part is not the one at work, its variables have one value. *)
Idle == [tree |-> <<>>, scan |-> Unchecked([s \in Symbol |-> {}]), walk |-> [root |-> "off"], qconf |-> {}]
Init ==
  \/ /\ part = "written" /\ tree = Idle.tree /\ scan = Idle.scan /\ walk = Idle.walk /\ qconf = Idle.qconf
     /\ p \in Parents /\ e = Null /\ entries = <<>>
  \/ /\ p = Null /\ e = Null /\ entries = <<>>
     /\ \/ /\ part = "built" /\ scan = Idle.scan /\ walk = Idle.walk /\ qconf = Idle.qconf
           /\ Build!Init
        \/ /\ part = "checked" /\ tree = Idle.tree /\ walk = Idle.walk /\ qconf = Idle.qconf
           /\ ScanInit
        \/ /\ part = "conf" /\ tree = Idle.tree /\ scan = Idle.scan /\ qconf = Idle.qconf
           /\ Walk!Init
        \/ /\ part = "xconfig" /\ tree = Idle.tree /\ scan = Idle.scan /\ walk = Idle.walk
           /\ XConfig!Init

-----------------------------------------------------------------------------
(* A condition.                                                            *)
RECURSIVE Size(_)
Size(f) ==
  CASE f = Null -> 0
    [] f[1] \in Joins -> Size(f[2]) + Size(f[3])
    [] f[1] = "not" -> Size(f[2])
    [] OTHER -> 1

Begun == e = Null /\ entries = <<>> /\ e' \in Leaves /\ UNCHANGED <<p, entries>>
Negated == e # Null /\ e[1] # "not" /\ e' = Not(e) /\ UNCHANGED <<p, entries>>
Extended ==
  /\ e # Null /\ Size(e) < MaxLeaves
  /\ \E f \in Leaves, op \in Joins : e' = <<op, e, f>>
  /\ UNCHANGED <<p, entries>>
WithParent ==
  /\ Size(e) + Size(p) <= MaxLeaves /\ e # Null /\ p # Null
  /\ \E op \in Joins : e' = <<op, p, e>>
  /\ UNCHANGED <<p, entries>>

(* A menu: an entry depends, without recursion, on the entries before it   *)
(* and on symbols outside.                                                 *)
Known == (Sym \ Range(Order)) \cup {entries[i].sym : i \in DOMAIN entries}

Define(dep, prompt) ==
  /\ e = Null /\ Mentions(p) \cap Range(Order) = {}
  /\ Len(entries) < Len(Order)
  /\ Mentions(dep) \subseteq Known
  /\ prompt # NoPrompt => Mentions(prompt) \subseteq Known
  /\ LET sym == Order[Len(entries) + 1]
     IN  entries' = Append(entries, [sym |-> sym, dep |-> dep, prompt |-> prompt])
  /\ UNCHANGED <<p, e>>

Write ==
  \/ Begun \/ Negated \/ Extended \/ WithParent
  \/ \E dep \in Conditions, prompt \in {NoPrompt} \cup Prompts : Define(dep, prompt)

Conf == part = "conf" /\ Walk!Next /\ UNCHANGED <<part, vars, tree, scan, qconf>>

Next ==
  \/ part = "written" /\ Write /\ UNCHANGED <<part, tree, scan, walk, qconf>>
  \/ part = "built" /\ Build!Next /\ UNCHANGED <<part, vars, scan, walk, qconf>>
  \/ part = "checked" /\ ScanNext /\ UNCHANGED <<part, vars, tree, walk, qconf>>
  \/ part = "xconfig" /\ XConfig!Next /\ UNCHANGED <<part, vars, tree, scan, walk>>
  \/ Conf

(* Whoever runs conf answers its questions. *)
Spec == Init /\ [][Next]_<<part, vars, tree, scan, walk, qconf>> /\ WF_walk(Conf)

-----------------------------------------------------------------------------
(* Properties of conditions.                                               *)

\* The values symbols can have together; a bool is never m, and a symbol no
\* condition mentions does not matter.
Assignments ==
  {c \in [Sym -> Tristate] :
     \A s \in Sym : /\ Type[s] = "bool" => c[s] # mod
                    /\ s \notin Mentioned => c[s] = no}

\* Both conditions have the same value, whatever values the symbols have.
SameValue(f, g) ==
  \A c \in Assignments : expr_calc_value(f, c) = expr_calc_value(g, c)

\* expr_transform() and expr_eliminate_dups() change how a condition is written
\* and never its value; conditions expr_eq() takes for equal have the same value
\* in every assignment, and what expr_eliminate_eq() leaves of p is y only when p
\* follows from e.  The condition that expr_print() shows in a help text means what
\* the stored one does, read as one in a Config.in file.
RewritesKeepValue ==
  e # Null =>
    /\ SameValue(expr_transform(e), e)
    /\ SameValue(Read(expr_print(e, "none")), e)
    /\ SameValue(expr_eliminate_dups(expr_transform(e)), e)
    /\ p # Null =>
         /\ expr_eq(e, p) => SameValue(e, p)
         /\ expr_eliminate_eq(e, p)[2] = Y =>
              \A c \in Assignments : expr_calc_value(e, c) <= expr_calc_value(p, c)

-----------------------------------------------------------------------------
(* Properties of menus.                                                    *)

\* An entry can be seen exactly when the menu, its `depends on' and the condition
\* of its prompt all allow it, and not at all when its dependencies are off: what
\* the symbol engine relies on (FinalizedAssumption).
ConditionsKept ==
  entries # <<>> =>
    LET last  == entries[Len(entries)]
        final == Final(p, last)
    IN  \A c \in Assignments :
          LET met == /\ expr_calc_value(p, c) # no
                     /\ expr_calc_value(last.dep, c) # no
          IN  /\ met <=> expr_calc_value(final.dep, c) # no
              /\ final.prompt # NoPrompt =>
                   (expr_calc_value(final.prompt, c) # no <=>
                      met /\ expr_calc_value(last.prompt, c) # no)

RECURSIVE Nodes(_)
Nodes(t) == UNION {{t[i]} \cup Nodes(t[i].kids) : i \in DOMAIN t}

\* Where no symbol is a module, an entry nested below another for the sake of
\* its dependencies is seen only with it: either the other prompt is visible, or
\* its symbol is on and menu_is_visible() shows it because of the entry.  Entries
\* lifted from below one without a prompt are left out: they may land below an
\* entry they have nothing to do with.
NestedSeenWithParent ==
  LET nested == Nest([i \in DOMAIN entries |-> Final(p, entries[i])])
  IN  \A node \in Nodes(nested) : \A i \in DOMAIN node.kids :
        node.entry.prompt # NoPrompt /\ node.kids[i].entry.prompt # NoPrompt =>
          \A c \in [Sym -> {no, yes}] :
            expr_calc_value(node.kids[i].entry.prompt, c) # no =>
              \/ expr_calc_value(node.entry.prompt, c) # no
              \/ c[node.entry.sym] # no

-----------------------------------------------------------------------------
(* Properties of the programs.                                             *)

\* conf ends, and with every question that can be reached asked (conf.c:649-665).
AllAsked == part = "conf" => Walk!AllAsked

\* The tree is what the Config.in files say.
BuiltAsWritten == part = "built" => Build!BuiltAsWritten

\* The lists of xconfig are what they would be if they were built anew.
ListsCurrent == part = "xconfig" => XConfig!ListsCurrent

\* menuconfig and the views of xconfig lead to the same entries, and the keys of
\* menuconfig's search results and the links of xconfig to a list with the entry.
FrontEndsAgree ==
  part = "xconfig" => XConfig!FrontEndsAgree /\ XConfig!JumpsLand /\ XConfig!LinksLand

-----------------------------------------------------------------------------
(* The instance: a menu of three entries A, T, B and a symbol X outside.   *)

MenuSym == {"X", "A", "T", "B"}
MenuType == [X |-> "tri", A |-> "bool", T |-> "tri", B |-> "bool"]
MenuLeaves ==
  {S("X"), S("A"), Eq("A", "n"), <<"<=", "X", "T">>}
    \cup {Eq("X", v) : v \in Const} \cup {Ne("X", v) : v \in Const}
MenuOrder == <<"A", "T", "B">>
MenuConditions ==
  {Null, Not(S("X")), Eq("X", "y"), S("A"), Ne("T", "n"),
   <<"and", Not(S("A")), Ne("X", "n")>>, <<"or", Not(S("A")), S("T")>>,
   Not(<<"or", S("X"), Ne("T", "n")>>)}
MenuPrompts == {Null, Ne("X", "n"), <<"and", Not(S("A")), S("X")>>}
MenuParents ==
  {Null, <<"and", S("A"), Ne("X", "n")>>, <<"or", S("X"), <<"and", Eq("X", "m"), M>> >>}
=============================================================================
