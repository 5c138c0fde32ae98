---------------------------- MODULE KconfigExpr ----------------------------
(***************************************************************************)
(* Expressions over symbols (scripts/config/expr.c): their value, and the  *)
(* rewritings menu_finalize() applies before it stores them.               *)
(*                                                                         *)
(* An expression is a tuple headed by its type: <<"sym", s>>, <<"not", e>>,*)
(* <<"and", e, f>>, <<"or", e, f>>, or a comparison of two symbols such as *)
(* <<"=", s, t>>.  "y", "m" and "n" are the constant symbols.  The C code  *)
(* rewrites trees in place; here each function returns the new tree.       *)
(***************************************************************************)
EXTENDS Symbols, Sequences

Null == <<"null">>     \* the NULL pointer: no condition
Y == <<"sym", "y">>
M == <<"sym", "m">>
N == <<"sym", "n">>
S(s) == <<"sym", s>>
Not(e) == <<"not", e>>
Eq(s, t) == <<"=", s, t>>
Ne(s, t) == <<"!=", s, t>>

Const == {"y", "m", "n"}
Joins == {"and", "or"}
Compares == {"=", "!=", "<", "<=", ">", ">="}

TypeOf(s) == IF s \in Const THEN "tri" ELSE Type[s]

expr_alloc_and(e, f) == IF e = Null THEN f ELSE IF f = Null THEN e ELSE <<"and", e, f>>
expr_alloc_or(e, f)  == IF e = Null THEN f ELSE IF f = Null THEN e ELSE <<"or", e, f>>
expr_is_yes(e) == e \in {Null, Y}

-----------------------------------------------------------------------------
(* Values.                                                                 *)

ConstVal == [y |-> yes, m |-> mod, n |-> no]
SymVal(s, c) == IF s \in Const THEN ConstVal[s] ELSE c[s]

\* The place of a value's string in strcmp() order: "m" < "n" < "y"; without
\* modules m is spelled n (sym_get_string_value).
Spelled(v) == IF v = yes THEN 2 ELSE IF v = mod /\ Modules # no THEN 0 ELSE 1

Compare(op, a, b) ==
  CASE op = "="  -> a = b
    [] op = "!=" -> a # b
    [] op = "<"  -> a < b
    [] op = "<=" -> a <= b
    [] op = ">"  -> a > b
    [] op = ">=" -> a >= b

RECURSIVE expr_calc_value(_, _)
expr_calc_value(e, c) ==
  CASE e = Null     -> yes
    [] e[1] = "sym" -> SymVal(e[2], c)
    [] e[1] = "not" -> EXPR_NOT(expr_calc_value(e[2], c))
    [] e[1] = "and" -> EXPR_AND(expr_calc_value(e[2], c), expr_calc_value(e[3], c))
    [] e[1] = "or"  -> EXPR_OR(expr_calc_value(e[2], c), expr_calc_value(e[3], c))
    [] OTHER -> IF Compare(e[1], Spelled(SymVal(e[2], c)), Spelled(SymVal(e[3], c)))
                THEN yes ELSE no

\* The symbols an expression mentions (expr_contains_symbol).
RECURSIVE Mentions(_)
Mentions(e) ==
  CASE e = Null            -> {}
    [] e[1] = "sym"        -> {e[2]} \ Const
    [] e[1] = "not"        -> Mentions(e[2])
    [] e[1] \in Joins      -> Mentions(e[2]) \cup Mentions(e[3])
    [] e[1] \in Compares   -> {e[2], e[3]} \ Const

\* e cannot hold unless s is on, as far as the conjuncts of e tell.
RECURSIVE expr_depends_symbol(_, _)
expr_depends_symbol(e, s) ==
  CASE e[1] = "and" -> expr_depends_symbol(e[2], s) \/ expr_depends_symbol(e[3], s)
    [] e[1] = "sym" -> e[2] = s
    [] OTHER        -> e \in {Eq(s, "y"), Eq(s, "m"), Ne(s, "n")}

-----------------------------------------------------------------------------
(* Conditions as they are shown: a sequence of operands and signs.         *)

Sign(c) == <<<<c>>>>

\* expr_compare_type() > 0: an operand of this type is put in brackets.
Binds == <<"or", "and", "not">>
expr_compare_type(outer, inner) ==
  \E i, j \in DOMAIN Binds : i > j /\ outer = Binds[i] /\ inner = Binds[j]

RECURSIVE expr_print(_, _)
expr_print(e, prevtoken) ==
  LET text == CASE e = Null       -> <<Y>>
                [] e[1] = "not"   -> Sign("!") \o expr_print(e[2], "not")
                [] e[1] \in Joins -> expr_print(e[2], e[1]) \o Sign(e[1]) \o expr_print(e[3], e[1])
                [] OTHER          -> <<e>>
  IN  IF expr_compare_type(prevtoken, e[1]) THEN Sign("(") \o text \o Sign(")") ELSE text

\* The operators of that sign outside of all brackets.
Outside(t, op) ==
  LET count(i, c) == Len(SelectSeq(SubSeq(t, 1, i), LAMBDA x : x = <<c>>))
  IN  {i \in DOMAIN t : t[i] = <<op>> /\ count(i, "(") = count(i, ")")}

\* The grammar of conditions (zconf.y): || binds least, ! most, both joins to the
\* left, and a comparison is an operand.
RECURSIVE Read(_)
Read(t) ==
  LET Split(op) ==
        LET i == CHOOSE k \in Outside(t, op) : \A l \in Outside(t, op) : l <= k
        IN  <<op, Read(SubSeq(t, 1, i - 1)), Read(SubSeq(t, i + 1, Len(t)))>>
  IN  CASE Outside(t, "or") # {} -> Split("or")
        [] Outside(t, "or") = {} /\ Outside(t, "and") # {} -> Split("and")
        [] Outside(t, "or") \cup Outside(t, "and") = {} /\ t[1] = <<"!">> -> Not(Read(Tail(t)))
        [] Outside(t, "or") \cup Outside(t, "and") = {} /\ t[1] = <<"(">> -> Read(SubSeq(t, 2, Len(t) - 1))
        [] OTHER -> t[1]

-----------------------------------------------------------------------------
(* Constants folded: expr_eliminate_yn().                                  *)

\* One node: its zero absorbs, its one disappears, the left side looked at first.
JoinYN(op, l, r) ==
  LET zero == IF op = "and" THEN N ELSE Y
      one  == IF op = "and" THEN Y ELSE N
  IN  IF l = zero \/ (l # one /\ r = zero) THEN zero
      ELSE IF l = one THEN r
      ELSE IF r = one THEN l
      ELSE <<op, l, r>>

RECURSIVE expr_eliminate_yn(_)
expr_eliminate_yn(e) ==
  IF e[1] \in Joins
  THEN JoinYN(e[1], expr_eliminate_yn(e[2]), expr_eliminate_yn(e[3]))
  ELSE e

-----------------------------------------------------------------------------
(* Operands.  A chain of one operator is walked slot by slot: Operands(op, *)
(* e) are the slots' contents, Refill() puts new contents into them.       *)

RECURSIVE Operands(_, _)
Operands(op, e) ==
  IF e[1] = op THEN Operands(op, e[2]) \o Operands(op, e[3]) ELSE <<e>>

RECURSIVE Refill(_, _, _)
Refill(op, e, q) ==
  LET n == Len(Operands(op, e[2]))
  IN  IF e[1] = op
      THEN <<op, Refill(op, e[2], SubSeq(q, 1, n)),
                 Refill(op, e[3], SubSeq(q, n + 1, Len(q)))>>
      ELSE q[1]

\* The k-th pair of slots in the order of the recursion, of n on the right.
Pair(k, n) == <<((k - 1) \div n) + 1, ((k - 1) % n) + 1>>

Neutral(op) == IF op = "or" THEN N ELSE Y

-----------------------------------------------------------------------------
(* Equal operands of two expressions cancelled: expr_eliminate_eq().       *)

RECURSIVE expr_eq(_, _), CancelFrom(_, _, _, _)

Cancelled(op, p, q, i, j) ==
  IF ~(p[i] = q[j] /\ p[i] \in {Y, N}) /\ expr_eq(p[i], q[j])
  THEN <<[p EXCEPT ![i] = Neutral(op)], [q EXCEPT ![j] = Neutral(op)]>>
  ELSE <<p, q>>

\* Slots with equal contents become neutral on both sides, from pair k on.
CancelFrom(op, p, q, k) ==
  IF k > Len(p) * Len(q) THEN <<p, q>>
  ELSE LET pq == Cancelled(op, p, q, Pair(k, Len(q))[1], Pair(k, Len(q))[2])
       IN  CancelFrom(op, pq[1], pq[2], k + 1)

RefillBoth(op, ef, pq) == <<Refill(op, ef[1], pq[1]), Refill(op, ef[2], pq[2])>>

\* __expr_eliminate_eq(): one operator on both sides.
Cancel(op, ef) ==
  IF op \notin Joins THEN ef
  ELSE RefillBoth(op, ef, CancelFrom(op, Operands(op, ef[1]), Operands(op, ef[2]), 1))

CancelRight(ef) == IF ef[1][1] # ef[2][1] THEN Cancel(ef[2][1], ef) ELSE ef
FoldBoth(ef) == <<expr_eliminate_yn(ef[1]), expr_eliminate_yn(ef[2])>>

expr_eliminate_eq(e, f) == FoldBoth(CancelRight(Cancel(e[1], <<e, f>>)))

SameSymbol(ef) == ef[1][1] = "sym" /\ ef[1] = ef[2]

expr_eq(e, f) ==
  CASE e[1] # f[1]     -> FALSE
    [] e[1] = "not"    -> expr_eq(e[2], f[2])
    [] e[1] \in Joins  -> SameSymbol(expr_eliminate_eq(e, f))
    [] OTHER           -> e = f

-----------------------------------------------------------------------------
(* Duplicates joined: expr_eliminate_dups().                               *)

\* The symbol an operand is about, if the joins know the operand's form; a
\* negated comparison counts on the left side only.
Subject(e, negatable) ==
  CASE e[1] \in {"=", "!=", "sym"} -> e[2]
    [] e[1] = "not" /\ e[2][1] \in negatable -> e[2][2]
    [] OTHER -> "none"
SameSubject(e, f) ==
  /\ Subject(e, {"=", "!=", "sym"}) = Subject(f, {"sym"})
  /\ Subject(f, {"sym"}) # "none"

Both(e, f, x, y) == <<e, f>> \in {<<x, y>>, <<y, x>>}
Other(x, y) == CHOOSE z \in Const : z \notin {x, y}

\* e and f compare s, in the same way, with two different constants.
TwoConsts(op, e, f, s) ==
  \E x, y \in Const : x # y /\ e = <<op, s, x>> /\ f = <<op, s, y>>

\* e || f as one operand, or Null.
expr_join_or(e, f) ==
  LET s == Subject(f, {"sym"})
  IN  IF expr_eq(e, f) THEN e
      ELSE IF ~SameSubject(e, f) THEN Null
      ELSE IF TypeOf(s) = "tri" /\ TwoConsts("=", e, f, s) THEN Ne(s, Other(e[3], f[3]))
      ELSE IF TypeOf(s) = "bool" /\ Both(e, f, Not(S(s)), S(s)) THEN Y
      ELSE Null

\* Mutant: a && a!=y is taken for a=m.
JoinAndModule(e, f) ==
  LET s == Subject(f, {"sym"})
  IN  IF expr_eq(e, f) THEN e
      ELSE IF SameSubject(e, f) /\ Both(e, f, S(s), Ne(s, "y")) THEN Eq(s, "m")
      ELSE Null

\* e && f as one operand, or Null.
expr_join_and(e, f) ==
  LET s == Subject(f, {"sym"})
      tri == TypeOf(s) = "tri"
      EqNe(g, h) == \E x, y \in Const : g = Eq(s, x) /\ h = Ne(s, y)
      eq == IF e[1] = "=" THEN e ELSE f
      ne == IF e[1] = "=" THEN f ELSE e
  IN  IF expr_eq(e, f) THEN e
      ELSE IF ~SameSubject(e, f) THEN Null
      ELSE IF Both(e, f, S(s), Eq(s, "y")) THEN Eq(s, "y")
      ELSE IF Both(e, f, S(s), Ne(s, "n")) THEN S(s)
      ELSE IF Both(e, f, S(s), Ne(s, "m")) THEN Eq(s, "y")
      ELSE IF tri /\ (EqNe(e, f) \/ EqNe(f, e)) THEN IF eq[3] = ne[3] THEN N ELSE eq
      ELSE IF tri /\ TwoConsts("!=", e, f, s) THEN Eq(s, Other(e[3], f[3]))
      ELSE Null

RECURSIVE JoinFrom(_, _, _), JoinOperands(_, _), expr_eliminate_dups(_)

\* Slot i has become sub.e; join is what slots i and j are together, if anything.
\* done counts for trans_count.
Replaced(op, acc, i, j, sub, join) ==
  IF join = Null
  THEN [q |-> [acc.q EXCEPT ![i] = sub.e], done |-> acc.done \/ sub.done]
  ELSE [q |-> [acc.q EXCEPT ![i] = Neutral(op), ![j] = join], done |-> TRUE]

JoinPair(op, acc, i, j, sub) ==
  Replaced(op, acc, i, j, sub,
           IF op = "or" THEN expr_join_or(sub.e, acc.q[j]) ELSE expr_join_and(sub.e, acc.q[j]))

\* One pass over all pairs of slots, from pair k on: expr_eliminate_dups1().
JoinFrom(op, acc, k) ==
  LET i == Pair(k, Len(acc.q))[1]
      j == Pair(k, Len(acc.q))[2]
      left == acc.q[i]
  IN  IF k > Len(acc.q) * Len(acc.q) THEN acc
      ELSE JoinFrom(op, IF i = j THEN acc
                        ELSE JoinPair(op, acc, i, j,
                               IF left[1] \in Joins THEN JoinOperands(left[1], left)
                               ELSE [e |-> left, done |-> FALSE]), k + 1)

Filled(op, e, res) == [e |-> Refill(op, e, res.q), done |-> res.done]
JoinOperands(op, e) == Filled(op, e, JoinFrom(op, [q |-> Operands(op, e), done |-> FALSE], 1))

\* Passes are repeated, with the constants folded, until one changes nothing.
AfterPass(pass) == IF pass.done THEN expr_eliminate_dups(expr_eliminate_yn(pass.e)) ELSE pass.e
expr_eliminate_dups(e) == IF e[1] \in Joins THEN AfterPass(JoinOperands(e[1], e)) ELSE e

-----------------------------------------------------------------------------
(* Comparisons and negations.                                              *)

\* A bool compared with a constant is the bool, its negation, or a constant.
BoolCompare(e) ==
  LET s == e[2]
  IN  CASE e \in {Eq(s, "y"), Ne(s, "n")} -> S(s)
        [] e \in {Eq(s, "n"), Ne(s, "y")} -> Not(S(s))
        [] e = Eq(s, "m") -> N
        [] e = Ne(s, "m") -> Y
        [] OTHER -> e

Opposite == [c \in Compares |->
  CASE c = "=" -> "!=" [] c = "!=" -> "=" [] c = "<=" -> ">"
    [] c = ">" -> "<=" [] c = ">=" -> "<" [] c = "<" -> ">="]

RECURSIVE expr_transform(_)

\* A negation, of an expression already transformed.
Negation(f) ==
  CASE f[1] = "not"       -> expr_transform(f[2])
    [] f[1] \in Compares  -> <<Opposite[f[1]], f[2], f[3]>>
    [] f[1] = "or"        -> expr_transform(<<"and", Not(f[2]), Not(f[3])>>)
    [] f[1] = "and"       -> expr_transform(<<"or", Not(f[2]), Not(f[3])>>)
    [] f \in {Y, N}       -> IF f = Y THEN N ELSE Y
    [] f = M              -> M
    [] OTHER              -> Not(f)

\* Negations pushed to the leaves.
expr_transform(e) ==
  CASE e[1] \in Joins -> <<e[1], expr_transform(e[2]), expr_transform(e[3])>>
    [] e[1] = "not"   -> Negation(expr_transform(e[2]))
    [] e[1] \in {"=", "!="} /\ TypeOf(e[2]) = "bool" -> BoolCompare(e)
    [] OTHER -> e

\* For a property of a bool: s!=n may as well be s, m being rounded up.
RECURSIVE expr_trans_bool(_)
expr_trans_bool(e) ==
  CASE e[1] \in Joins -> <<e[1], expr_trans_bool(e[2]), expr_trans_bool(e[3])>>
    [] e[1] = "not"   -> Not(expr_trans_bool(e[2]))
    [] e[1] = "!=" /\ TypeOf(e[2]) = "tri" /\ e[3] = "n" -> S(e[2])
    [] OTHER -> e

\* e compared with n (symbol_no, the one constant it is called with): yes or no.
RECURSIVE expr_trans_compare(_, _)
expr_trans_compare(e, op) ==
  LET Negate(f) == IF op = "!=" THEN Not(f) ELSE f
      l == expr_trans_compare(e[2], "=")
      r == expr_trans_compare(e[3], "=")
  IN  CASE e = Null      -> Negate(N)
        [] e[1] = "and"  -> Negate(<<"or", l, r>>)
        [] e[1] = "or"   -> Negate(<<"and", l, r>>)
        [] e[1] = "not"  -> expr_trans_compare(e[2], Opposite[op])
        [] e[1] \in Compares -> IF op = "=" THEN Not(e) ELSE e
        [] e[1] = "sym"  -> <<op, e[2], "n">>

=============================================================================
