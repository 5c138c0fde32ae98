---------------------------- MODULE MenuFinalize ----------------------------
(***************************************************************************)
(* menu_finalize() (scripts/config/menu.c): pushes the conditions of a menu*)
(* into the properties of its entries, then nests the entries that depend  *)
(* on the entry before them.                                               *)
(*                                                                         *)
(* An entry is [sym, dep, prompt]: its symbol, its `depends on', and the   *)
(* condition of its prompt, or NoPrompt.  A tree is a sequence of          *)
(* [entry, kids], with kids a tree in turn.                                *)
(***************************************************************************)
EXTENDS KconfigExpr
LOCAL INSTANCE SequencesExt

NoPrompt == <<"none">>

\* Mutant: the entry's own condition alone.
FinalDepOwn(parentdep, dep) == expr_eliminate_dups(expr_transform(dep))

\* menu->dep (315-318).
FinalDep(parentdep, dep) ==
  expr_eliminate_dups(expr_alloc_and(parentdep, expr_transform(dep)))

\* visible.expr of a property with condition cond (326-331).
FinalCond(sym, basedep, cond) ==
  LET dep == expr_eliminate_dups(expr_alloc_and(basedep, expr_transform(cond)))
  IN  IF TypeOf(sym) = "tri" THEN dep ELSE expr_trans_bool(dep)

\* What a property `select' adds to the rev_dep of its target (332-336).
SelectDep(sym, basedep, cond) == <<"and", S(sym), FinalCond(sym, basedep, cond)>>

\* What a choice that is not optional adds to its own rev_dep (439-443).
ChoiceRevDep(cond) == expr_alloc_and(cond, M)

Final(parentdep, entry) ==
  LET basedep == FinalDep(parentdep, entry.dep)
  IN  [sym |-> entry.sym, dep |-> basedep,
       prompt |-> IF entry.prompt = NoPrompt THEN NoPrompt
                  ELSE FinalCond(entry.sym, basedep, entry.prompt)]

-----------------------------------------------------------------------------
(* Nesting.                                                                *)

\* The condition a finalized entry is seen under.
Shown(entry) == IF entry.prompt = NoPrompt THEN entry.dep ELSE entry.prompt

\* A condition as a comparison with n (343-344, 352-353).
NotNo(e) == expr_eliminate_dups(expr_transform(expr_trans_compare(e, "!=")))

\* Mutant: any entry that mentions the symbol.
BelongsMentions(entry, parent) == parent.sym \in Mentions(Shown(entry))

\* entry goes below parent (347-361).
Belongs(entry, parent) ==
  LET base == NotNo(IF parent.prompt = NoPrompt THEN Null ELSE parent.prompt)
  IN  /\ parent.sym \in Mentions(Shown(entry))
      /\ \/ expr_depends_symbol(Shown(entry), parent.sym)
         \/ expr_is_yes(expr_eliminate_eq(NotNo(Shown(entry)), base)[2])

\* The entries that follow parent and go below it, nested in turn, and the ones
\* that are left (346-371).
RECURSIVE Absorb(_, _)
Absorb(parent, rest) ==
  IF rest = <<>> \/ ~Belongs(rest[1], parent) THEN [kids |-> <<>>, rest |-> rest]
  ELSE LET own  == Absorb(rest[1], Tail(rest))
           more == Absorb(parent, own.rest)
       IN  [kids |-> <<[entry |-> rest[1], kids |-> own.kids]>> \o more.kids,
            rest |-> more.rest]

\* The entries below one without a prompt are put after it (415-424).
Lift(node) ==
  IF node.entry.prompt = NoPrompt
  THEN <<[entry |-> node.entry, kids |-> <<>>]>> \o node.kids ELSE <<node>>

RECURSIVE LiftAll(_)
LiftAll(tree) ==
  FlattenSeq([i \in DOMAIN tree |->
    Lift([entry |-> tree[i].entry, kids |-> LiftAll(tree[i].kids)])])

RECURSIVE Nest(_)
Nest(entries) ==
  IF entries = <<>> THEN <<>>
  ELSE LET own == Absorb(entries[1], Tail(entries))
       IN  <<[entry |-> entries[1], kids |-> own.kids]>> \o Nest(own.rest)

\* A menu with condition parentdep and these entries, as it is used afterwards.
menu_finalize(parentdep, entries) ==
  LiftAll(Nest([i \in DOMAIN entries |-> Final(parentdep, entries[i])]))

=============================================================================
