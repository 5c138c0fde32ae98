------------------------------ MODULE SymCheck ------------------------------
(***************************************************************************)
(* The search for recursive dependencies that conf_parse() makes once the  *)
(* tree is finalized (scripts/config/symbol.c, sym_check_deps).            *)
(*                                                                         *)
(* The frames of the recursive calls are the dep_stack: every call that    *)
(* waits for another has put its symbol on it.  "sym" checks a symbol,     *)
(* "value" asks for the choice of a value, "choice" checks a choice with   *)
(* its values, by a frame "self" for the choice and "member" for a value.  *)
(* The order of the symbols in the expressions is any.                     *)
(***************************************************************************)
EXTENDS Naturals, Sequences, FiniteSetsExt

CONSTANTS
  Symbol,   \* the symbols
  Of,       \* Of[v]: the choice of the choice value v
  Graphs    \* dependencies to check: functions from Symbol to SUBSET Symbol

VARIABLES scan

NoSym == "NULL"
Values(c) == {v \in DOMAIN Of : Of[v] = c}
Choice == {Of[v] : v \in DOMAIN Of}

(* A choice has no name in a Config.in file that others would depend on: it *)
(* is a dependency of what stands in it, values and the options below one, *)
(* which depend on that value as well (menu.c:288-312).                    *)
ASSUME ScanAssumption ==
  /\ NoSym \notin Symbol /\ "unexpected" \notin Symbol
  /\ DOMAIN Of \subseteq Symbol
  /\ \A v \in DOMAIN Of : Of[v] \in Symbol \ DOMAIN Of
  /\ \A g \in Graphs :
       /\ g \in [Symbol -> SUBSET Symbol]
       /\ \A s \in Symbol : \A c \in g[s] \cap Choice :
            s # c /\ s \notin Values(c) => g[s] \cap Values(c) # {}

(* deps[s]: the symbols in rev_dep, the conditions and the defaults of s.  *)
(* CHECK and CHECKED are the symbols with that flag; found is the symbol   *)
(* on its way up; trail is what was printed last, first what was printed   *)
(* at all.                                                                 *)
Unchecked(g) ==
  [deps |-> g, left |-> Symbol, CHECK |-> {}, CHECKED |-> {}, stack |-> <<>>,
   found |-> NoSym, trail |-> <<>>]

ScanInit == \E g \in Graphs : scan = Unchecked(g)

Top == scan.stack[Len(scan.stack)]
Frame(fn, s, todo) == [fn |-> fn, sym |-> s, todo |-> todo]

-----------------------------------------------------------------------------
(* sym_check_print_recursive(): the stack from the last entry of the       *)
(* symbol up; a choice value is put on top and its choice looked for.      *)
Printed(stack, s) ==
  LET all   == [k \in DOMAIN stack |-> stack[k].sym]
      last  == IF s \in DOMAIN Of THEN Of[s] ELSE s
      above == IF s \in DOMAIN Of THEN Append(all, s) ELSE all
      at    == {k \in DOMAIN above : above[k] = last}
  IN  IF at = {} THEN <<"unexpected">>
      ELSE SubSeq(above, Max(at), Len(above))

(* The symbols a check marks: a choice with its values. *)
MarkedAlone(s) == {s}
Marked(s) == {s} \cup Values(s)

(* sym_check_deps(s), called from the frames in stack. *)
Enter(sc, stack, s) ==
  IF s \in sc.CHECK
  THEN [sc EXCEPT !.stack = stack, !.found = s, !.trail = Printed(stack, s)]
  ELSE IF s \in sc.CHECKED THEN [sc EXCEPT !.stack = stack]
  ELSE IF s \in DOMAIN Of THEN [sc EXCEPT !.stack = Append(stack, Frame("value", s, {Of[s]}))]
  ELSE [sc EXCEPT !.CHECK = @ \cup Marked(s), !.CHECKED = @ \cup Marked(s),
                  !.stack = stack \o (IF s \in Choice
                                      THEN <<Frame("choice", s, Values(s)), Frame("self", s, sc.deps[s])>>
                                      ELSE <<Frame("sym", s, sc.deps[s])>>)]

(* The next symbol of the frame on top. *)
Below(s) == Append(SubSeq(scan.stack, 1, Len(scan.stack) - 1), [Top EXCEPT !.todo = @ \ {s}])

(* conf_parse(): the next symbol of the table. *)
Check ==
  /\ scan.stack = <<>>
  /\ \E s \in scan.left : scan' = [Enter(scan, <<>>, s) EXCEPT !.left = @ \ {s}]

(* An expression of the symbol, or the choice of the value. *)
CheckExpr ==
  /\ scan.stack # <<>> /\ scan.found = NoSym /\ Top.fn # "choice"
  /\ \E s \in Top.todo : scan' = Enter(scan, Below(s), s)

(* sym_check_choice_deps(): the values, once the choice itself is checked. *)
CheckMember ==
  /\ scan.stack # <<>> /\ scan.found = NoSym /\ Top.fn = "choice"
  /\ \E s \in Top.todo :
       scan' = [scan EXCEPT !.stack = Append(Below(s), Frame("member", s, scan.deps[s]))]

(* The frame on top is done, or a recursion was found above it.  The call  *)
(* that began the recursion ends what was found.                           *)
Return ==
  /\ scan.stack # <<>> /\ (Top.todo = {} \/ scan.found # NoSym)
  /\ LET f     == Top
         unset == CASE f.fn \in {"sym", "self"} -> {f.sym}
                    [] f.fn = "choice" -> Values(f.sym)
                    [] OTHER -> {}
         began == CASE f.fn \in {"sym", "value"} -> {f.sym}
                    [] f.fn = "choice" -> {f.sym} \cup Values(f.sym)
                    [] OTHER -> {}
     IN  scan' = [scan EXCEPT !.stack = SubSeq(@, 1, Len(@) - 1), !.CHECK = @ \ unset,
                              !.found = IF @ \in began THEN NoSym ELSE @]

ScanNext == Check \/ CheckExpr \/ CheckMember \/ Return

ScanSpec == ScanInit /\ [][ScanNext]_scan

-----------------------------------------------------------------------------
(* A choice and its values depend on each other as they are: to the search *)
(* they are one, and recursive when one of them depends on a value.  There *)
(* is a loop when some of the symbols each need another one of them.       *)
Group(s) == IF s \in DOMAIN Of THEN Of[s] ELSE s
Groups == {Group(s) : s \in Symbol}
Needs(deps, a, b) ==
  \E s \in Symbol : \E t \in deps[s] :
    Group(s) = a /\ Group(t) = b /\ ~(s \in DOMAIN Of /\ t = Of[s])
Recursive(deps) ==
  \E loop \in (SUBSET Groups) \ {{}} : \A a \in loop : \E b \in loop : Needs(deps, a, b)

(* One symbol of the trail leads to the next. *)
Leads(s, t) == t \in scan.deps[s] \/ Group(s) = Group(t)

\* A recursion is printed exactly when there is one, whatever the order in which
\* symbols are checked; what is printed is a loop of dependencies, never
\* "unexpected recursive dependency error" (symbol.c:1101-1107); and every
\* check leaves the stack and the CHECK flags as it found them.
RecursionFound ==
  /\ scan.trail # <<>> =>
       /\ scan.trail # <<"unexpected">>
       /\ \A k \in DOMAIN scan.trail :
            Leads(scan.trail[k], IF k = Len(scan.trail) THEN Group(scan.trail[1]) ELSE scan.trail[k + 1])
  /\ scan.stack = <<>> => scan.CHECK = {} /\ scan.found = NoSym
  /\ scan.stack = <<>> /\ scan.left = {} => (scan.trail # <<>> <=> Recursive(scan.deps))
=============================================================================
