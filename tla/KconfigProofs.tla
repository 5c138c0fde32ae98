--------------------------- MODULE KconfigProofs ---------------------------
(* Proofs about the configuration tools for every menu, file and sequence  *)
(* of answers.                                                             *)
EXTENDS Defconfig, TLAPS, WellFoundedInduction

USE DEF Tristate, no, mod, yes

-----------------------------------------------------------------------------
(* The operators.                                                          *)

\* A set of naturals that is not empty has a smallest member.
LEMMA MinNat ==
  ASSUME NEW I \in SUBSET Nat, I # {}
  PROVE  \E i \in I : \A j \in I : i <= j
<1>1. PICK i \in I : \A j \in I : ~(<<j, i>> \in OpToRel(<, Nat))
  BY NatLessThanWellFounded, WFMin
<1>2. \A j \in I : ~(j < i)
  BY <1>1 DEF OpToRel
<1>3. QED
  BY <1>2

\* FirstPos() is a member of its set: sym_get_default_prop() finds a default.
LEMMA FirstPosIn ==
  ASSUME NEW I \in SUBSET Nat, I # {}
  PROVE  FirstPos(I) \in I
BY MinNat DEF FirstPos

\* FirstSym() is a member of its set: a choice finds its first visible value.
LEMMA FirstSymIn ==
  ASSUME NEW S \in SUBSET Sym, S # {}
  PROVE  FirstSym(S) \in S
<1> DEFINE P == {MenuPos[s] : s \in S}
<1>1. P \in SUBSET Nat /\ P # {}
  BY StructureAssumption
<1> HIDE DEF P
<1>2. PICK i \in P : \A j \in P : i <= j
  BY <1>1, MinNat
<1>3. \E s \in S : \A t \in S : MenuPos[s] <= MenuPos[t]
  BY <1>2 DEF P
<1>4. QED
  BY <1>3 DEF FirstSym

\* LastSym() is a member of its set: the last y line of a choice exists.
LEMMA LastSymIn ==
  ASSUME NEW S \in SUBSET Sym, S # {}
  PROVE  LastSym(S) \in S
<1>1. PICK last \in Sym : \A s \in Sym : MenuPos[s] <= MenuPos[last]
  BY StructureAssumption
<1> DEFINE P == {MenuPos[last] - MenuPos[s] : s \in S}
<1>2. P \in SUBSET Nat /\ P # {}
  BY <1>1, StructureAssumption
<1> HIDE DEF P
<1>3. PICK i \in P : \A j \in P : i <= j
  BY <1>2, MinNat
<1>4. PICK s \in S : i = MenuPos[last] - MenuPos[s]
  BY DEF P
<1>5. \A t \in S : MenuPos[t] <= MenuPos[s]
  <2>1. TAKE t \in S
  <2>2. MenuPos[last] - MenuPos[s] <= MenuPos[last] - MenuPos[t]
    BY <1>3, <1>4 DEF P
  <2>3. MenuPos[last] \in Nat /\ MenuPos[s] \in Nat /\ MenuPos[t] \in Nat
    BY StructureAssumption
  <2>4. QED
    BY <2>2, <2>3
<1>6. QED
  BY <1>5 DEF LastSym

\* What sym_calc_visibility() leaves are tristate values.
LEMMA VisibilityType ==
  ASSUME NEW s \in Sym, NEW c \in [Sym -> Tristate]
  PROVE  /\ Visibility(s, c) \in Tristate
         /\ DirDepVal(s, c) \in Tristate
         /\ RevDepVal(s, c) \in Tristate
         /\ \A vis \in Tristate : RevDepAt(s, vis, c) \in Tristate
<1>1. /\ ExprVal(Prompt[s], c) \in Tristate
      /\ ExprVal(DirDep[s], c) \in Tristate
      /\ ExprVal(RevDep[s], c) \in Tristate
  BY StructureAssumption, ExprAssumption
<1>2. QED
  BY <1>1 DEF Visibility, DirDepVal, RevDepVal, RevDepAt

\* The default of a symbol is a tristate value.
LEMMA DefaultType ==
  ASSUME NEW s \in Sym \ Choices, NEW c \in [Sym -> Tristate]
  PROVE  DefaultVal(s, c) \in Tristate
<1> DEFINE D == VisibleDefaults(s, c)
<1>1. CASE D = {}
  BY <1>1 DEF DefaultVal
<1>2. CASE D # {}
  <2>1. D \in SUBSET Nat /\ D \subseteq DOMAIN Defaults[s]
    BY StructureAssumption DEF VisibleDefaults
  <2>2. FirstPos(D) \in DOMAIN Defaults[s]
    BY <1>2, <2>1, FirstPosIn
  <2>3. /\ Defaults[s][FirstPos(D)].val \in Expr
        /\ Defaults[s][FirstPos(D)].cond \in Expr
    BY <2>2, StructureAssumption
  <2>4. /\ ExprVal(Defaults[s][FirstPos(D)].val, c) \in Tristate
        /\ ExprVal(Defaults[s][FirstPos(D)].cond, c) \in Tristate
    BY <2>3, ExprAssumption
  <2>5. QED
    BY <1>2, <2>4 DEF DefaultVal, EXPR_AND
<1>3. QED
  BY <1>1, <1>2

\* The value sym_calc_value() computes is a tristate value, whatever the prompt saw.
LEMMA NewValType ==
  ASSUME NEW s \in Sym, NEW c \in [Sym -> Tristate], user \in [Sym -> Tristate]
  PROVE  /\ \A vis \in Tristate : BaseVal(s, vis, c) \in Tristate /\ NewValAt(s, vis, c) \in Tristate
         /\ BaseVal(s, Visibility(s, c), c) \in Tristate /\ NewVal(s, c) \in Tristate
<1>1. ASSUME NEW vis \in Tristate
      PROVE  BaseVal(s, vis, c) \in Tristate /\ NewValAt(s, vis, c) \in Tristate
  <2>1. DirDepVal(s, c) \in Tristate /\ RevDepAt(s, vis, c) \in Tristate
    BY VisibilityType
  <2>2. s \notin Choices => DefaultVal(s, c) \in Tristate
    BY DefaultType
  <2>3. BaseVal(s, vis, c) \in Tristate
    BY <2>2 DEF BaseVal, EXPR_AND
  <2>4. QED
    BY <2>1, <2>3 DEF NewValAt, WithSelect, EXPR_OR
<1>2. QED
  BY <1>1, VisibilityType DEF NewVal

\* sym_choice_default() returns one of the values that can be seen, if any.
LEMMA ChoiceDefaultIn ==
  ASSUME NEW s \in Choices, NEW c \in [Sym -> Tristate], NEW shown \in SUBSET Values(s)
  PROVE  /\ shown = {} => ChoiceDefault(s, shown, c) = NoSym
         /\ shown # {} => ChoiceDefault(s, shown, c) \in shown
<1> DEFINE D == {i \in VisibleDefaults(s, c) : Defaults[s][i].val \in shown}
<1>1. D \in SUBSET Nat
  BY StructureAssumption DEF VisibleDefaults
<1>2. CASE D # {}
  <2>1. FirstPos(D) \in D
    BY <1>1, <1>2, FirstPosIn
  <2>2. ChoiceDefault(s, shown, c) = Defaults[s][FirstPos(D)].val
    BY <1>2 DEF ChoiceDefault
  <2>3. QED
    BY <2>1, <2>2
<1>3. CASE D = {} /\ shown # {}
  <2>1. shown \in SUBSET Sym
    BY StructureAssumption DEF Values
  <2>2. FirstSym(shown) \in shown
    BY <1>3, <2>1, FirstSymIn
  <2>3. QED
    BY <1>3, <2>2 DEF ChoiceDefault
<1>4. CASE D = {} /\ shown = {}
  BY <1>4 DEF ChoiceDefault
<1>5. QED
  BY <1>2, <1>3, <1>4

-----------------------------------------------------------------------------
(* The inductive invariant.                                                *)

\* What a valid symbol was computed from is still valid.
Closed == \A s \in valid : Deps(s) \subseteq valid

\* A valid choice at y has selected a value that can be seen, and of its values
\* computed since then that one alone is on.
Chosen ==
  \A c \in Choices \cap valid : curr[c] = yes =>
    /\ sel[c] \in Values(c)
    /\ Visibility(sel[c], curr) # no
    /\ \A v \in Values(c) \cap valid : curr[v] # no <=> v = sel[c]

\* Only an entry inside a tristate choice reads it while it is answered, and no
\* value of it.
EarlyFits ==
  \A c \in Choices : early[c].sym # NoSym =>
    /\ Type[c] = "tri" /\ c \in Reads(Prompt[early[c].sym])
    /\ early[c].sym \in Sym \ (Choices \cup ChoiceVals)

IInv ==
  /\ TypeOK /\ Closed /\ SelectsObeyed /\ Chosen /\ EarlyFits
  /\ ValuesOnly => DependenciesMet

\* Only such an entry sees another value than the one its choice has.
LEMMA ViewIs ==
  ASSUME SymTypeOK, EarlyFits, NEW s \in Sym, s \in ChoiceVals \/ ValuesOnly
  PROVE  View(s) = curr
<1>1. ASSUME NEW c \in Choices PROVE early[c].sym # s
  BY StructureAssumption DEF EarlyFits, ValuesOnly, Values
<1>2. QED
  BY <1>1 DEF View, SymTypeOK

\* What sym_calc_value() does for a symbol that sees the values as they are.
CalcSymPlain(s) ==
  /\ s \notin Choices /\ s \notin valid /\ Deps(s) \subseteq valid
  /\ valid' = valid \cup {s}
  /\ visible' = [visible EXCEPT ![s] = Visibility(s, curr)]
  /\ dirDep' = [dirDep EXCEPT ![s] = IF s \in ChoiceVals THEN @ ELSE DirDepVal(s, curr)]
  /\ revDep' = [revDep EXCEPT ![s] = IF s \in ChoiceVals THEN @ ELSE RevDepVal(s, curr)]
  /\ curr' = [curr EXCEPT ![s] = NewVal(s, curr)]
  /\ write' = IF NewWrite(s, curr) THEN write \cup {s} ELSE write \ {s}
  /\ UNCHANGED <<sel, hasUser, user, userSel, changed, early>>

LEMMA CalcSymIs ==
  ASSUME IInv, NEW s \in Sym, CalcSym(s), s \in ChoiceVals \/ ValuesOnly
  PROVE  CalcSymPlain(s)
<1>1. View(s) = curr
  BY ViewIs DEF IInv, TypeOK
<1>2. QED
  BY <1>1 DEF CalcSym, CalcSymPlain, NewVal, RevDepVal, NewWrite

\* Without tristate choices every symbol does.
LEMMA BoolValues == BoolChoices => ValuesOnly
BY DEF BoolChoices, ValuesOnly

\* Steps that compute nothing keep the invariant: they leave the values alone,
\* and what is valid they keep as it is or forget.
LEMMA KeepIInv ==
  ASSUME IInv, TypeOK', UNCHANGED <<curr, sel, early>>, valid' = valid \/ valid' = {}
  PROVE  IInv'
<1> USE DEF EarlyFits, ValuesOnly
<1>1. CASE valid' = valid
  BY <1>1 DEF IInv, Closed, DependenciesMet, SelectsObeyed, Chosen, Visibility
<1>2. CASE valid' = {}
  BY <1>2 DEF IInv, Closed, DependenciesMet, SelectsObeyed, Chosen
<1>3. QED
  BY <1>1, <1>2

\* The value of an expression depends on what it mentions alone.
LEMMA ExprSame ==
  ASSUME NEW e \in Expr, NEW c \in [Sym -> Tristate], NEW d \in [Sym -> Tristate],
         \A s \in Reads(e) : c[s] = d[s]
  PROVE  ExprVal(e, c) = ExprVal(e, d)
<1> DEFINE f == [s \in Sym |-> IF s \in Reads(e) THEN c[s] ELSE no]
           g == [s \in Sym |-> IF s \in Reads(e) THEN d[s] ELSE no]
<1>1. f = g
  OBVIOUS
<1>2. ExprVal(e, c) = ExprVal(e, f) /\ ExprVal(e, d) = ExprVal(e, g)
  BY ExprAssumption
<1>3. QED
  BY <1>1, <1>2

\* An expression over valid symbols keeps its value when a symbol that is not
\* valid gets one.
LEMMA ExprFrame ==
  ASSUME NEW e \in Expr, NEW c \in [Sym -> Tristate], NEW d \in [Sym -> Tristate],
         NEW V \in SUBSET Sym, Reads(e) \subseteq V, \A s \in V : c[s] = d[s]
  PROVE  ExprVal(e, c) = ExprVal(e, d)
BY ExprSame

\* A symbol that is no choice value is no lower than what selects it, whatever its
\* prompt saw, and on only within its dependencies, if that was the values now: the
\* rule at symbol.c:402-406.
LEMMA NewValBounds ==
  ASSUME NEW s \in Sym \ ChoiceVals, NEW c \in [Sym -> Tristate],
         user \in [Sym -> Tristate]
  PROVE  /\ ExprVal(DirDep[s], c) = no => NewVal(s, c) = no
         /\ ExprVal(DirDep[s], c) # no =>
              \A vis \in Tristate : NewValAt(s, vis, c) >= ExprVal(RevDep[s], c)
<1>1. /\ Visibility(s, c) \in Tristate
      /\ RevDepVal(s, c) \in Tristate /\ DirDepVal(s, c) \in Tristate
      /\ BaseVal(s, Visibility(s, c), c) \in Tristate
      /\ ExprVal(RevDep[s], c) \in Tristate
  BY VisibilityType, NewValType, StructureAssumption, ExprAssumption
<1>2. CASE ExprVal(DirDep[s], c) = no
  <2>1. /\ ExprVal(Prompt[s], c) = no
        /\ \A i \in DOMAIN Defaults[s] : ExprVal(Defaults[s][i].cond, c) = no
    BY <1>2, FinalizedAssumption
  <2>2. Visibility(s, c) = no /\ VisibleDefaults(s, c) = {} /\ DirDepVal(s, c) = no
    BY <1>2, <2>1 DEF Visibility, VisibleDefaults, DirDepVal
  <2>3. BaseVal(s, Visibility(s, c), c) = no
    BY <2>2 DEF BaseVal, DefaultVal
  <2>4. QED
    BY <1>1, <1>2, <2>2, <2>3 DEF NewVal, NewValAt, RevDepVal, WithSelect, EXPR_OR
<1>3. ASSUME ExprVal(DirDep[s], c) # no, NEW vis \in Tristate
      PROVE  NewValAt(s, vis, c) >= ExprVal(RevDep[s], c)
  <2>1. DirDepVal(s, c) = yes
    BY <1>3 DEF DirDepVal
  <2>2. RevDepAt(s, vis, c) >= ExprVal(RevDep[s], c) /\ RevDepAt(s, vis, c) \in Tristate
    BY <1>1 DEF RevDepAt
  <2>3. BaseVal(s, vis, c) \in Tristate /\ NewValAt(s, vis, c) \in Tristate
    BY NewValType
  <2>4. NewValAt(s, vis, c) >= RevDepAt(s, vis, c)
    BY <2>1, <2>2, <2>3 DEF NewValAt, WithSelect, EXPR_OR
  <2>5. QED
    BY <1>1, <2>2, <2>3, <2>4
<1>4. QED
  BY <1>2, <1>3

\* While its choice is at y a choice value is on exactly when it is visible and
\* selected.
LEMMA NewValOfChoiceValue ==
  ASSUME NEW v \in ChoiceVals, NEW c \in [Sym -> Tristate],
         user \in [Sym -> Tristate], c[ChoiceOf[v]] = yes
  PROVE  NewVal(v, c) # no <=> Visibility(v, c) # no /\ sel[ChoiceOf[v]] = v
<1>1. v \in Sym \ Choices /\ ExprVal(Prompt[v], c) \in Tristate /\ Modules \in {no, yes}
      /\ Type[v] \in {"bool", "tri"}
  BY StructureAssumption, ExprAssumption
<1>2. Visibility(v, c) \in {no, yes}
  BY <1>1 DEF Visibility
<1>3. CASE Visibility(v, c) = yes
  BY <1>3 DEF NewVal, NewValAt
<1>4. CASE Visibility(v, c) = no
  <2>1. VisibleDefaults(v, c) = {}
    BY ChoiceValueAssumption DEF VisibleDefaults
  <2>2. BaseVal(v, Visibility(v, c), c) = no
    BY <1>1, <1>4, <2>1 DEF BaseVal, DefaultVal
  <2>3. QED
    BY <1>4, <2>2 DEF NewVal, NewValAt, WithSelect, EXPR_OR
<1>5. QED
  BY <1>2, <1>3, <1>4

\* Where a symbol t that was not valid gets a value x, the parts of the
\* invariant that speak of other symbols are kept.
LEMMA CalcFrame ==
  ASSUME IInv, NEW t \in Sym \ valid, Deps(t) \subseteq valid, NEW x \in Tristate,
         curr' = [curr EXCEPT ![t] = x], valid' = valid \cup {t} \/ valid' = valid
  PROVE  /\ Closed'
         /\ \A s \in valid \cup {t} : s \notin ChoiceVals =>
              /\ ExprVal(DirDep[s], curr') = ExprVal(DirDep[s], curr)
              /\ ExprVal(RevDep[s], curr') = ExprVal(RevDep[s], curr)
         /\ \A c \in Choices \cap valid, v \in ChoiceVals :
              ChoiceOf[v] = c => Visibility(v, curr') = Visibility(v, curr)
<1>1. /\ curr \in [Sym -> Tristate] /\ curr' \in [Sym -> Tristate]
      /\ valid \in SUBSET Sym /\ \A s \in valid : curr'[s] = curr[s]
  BY DEF IInv, TypeOK, SymTypeOK
<1>2. \A s \in valid \cup {t} : Deps(s) \subseteq valid
  BY DEF IInv, Closed
<1>3. Closed'
  BY <1>2 DEF Closed
<1>4. ASSUME NEW s \in valid \cup {t}, s \notin ChoiceVals
      PROVE  /\ ExprVal(DirDep[s], curr') = ExprVal(DirDep[s], curr)
             /\ ExprVal(RevDep[s], curr') = ExprVal(RevDep[s], curr)
  <2>1. Reads(DirDep[s]) \subseteq valid /\ Reads(RevDep[s]) \subseteq valid
    BY <1>2, <1>4 DEF Deps
  <2>2. s \in Sym /\ DirDep[s] \in Expr /\ RevDep[s] \in Expr
    BY <1>1, StructureAssumption
  <2>3. QED
    BY <1>1, <2>1, <2>2, ExprFrame
<1>5. ASSUME NEW c \in Choices \cap valid, NEW v \in ChoiceVals, ChoiceOf[v] = c
      PROVE  Visibility(v, curr') = Visibility(v, curr)
  <2>1. v \in Values(c)
    BY <1>5 DEF Values
  <2>2. Reads(Prompt[v]) \ {c} \subseteq Deps(c)
    BY <2>1 DEF Deps
  <2>3. Reads(Prompt[v]) \subseteq valid
    BY <1>2, <2>2
  <2>4. Prompt[v] \in Expr
    BY StructureAssumption
  <2>5. ExprVal(Prompt[v], curr') = ExprVal(Prompt[v], curr)
    BY <1>1, <2>3, <2>4, ExprFrame
  <2>6. curr'[ChoiceOf[v]] = curr[ChoiceOf[v]]
    BY <1>1, <1>5
  <2>7. QED
    BY <2>5, <2>6 DEF Visibility
<1>6. QED
  BY <1>3, <1>4, <1>5

\* sym_calc_value() of a symbol that is no choice keeps the invariant.
LEMMA CalcSymIInv ==
  ASSUME IInv, NEW s \in Sym, CalcSym(s), UNCHANGED sessionVars
  PROVE  IInv'
<1> DEFINE vis == Visibility(s, View(s))
           x == NewValAt(s, vis, curr)
<1>1. /\ curr \in [Sym -> Tristate] /\ user \in [Sym -> Tristate] /\ valid \subseteq Sym
  BY DEF IInv, TypeOK, SymTypeOK
<1>2. /\ x \in Tristate /\ vis \in Tristate
      /\ DirDepVal(s, curr) \in Tristate /\ RevDepAt(s, vis, curr) \in Tristate
  <2>1. View(s) \in [Sym -> Tristate]
    BY <1>1 DEF View, IInv, TypeOK, SymTypeOK
  <2>2. QED
    BY <1>1, <2>1, NewValType, VisibilityType
<1>3. TypeOK'
  BY <1>2 DEF IInv, TypeOK, SymTypeOK, CalcSym, sessionVars
<1>4. /\ s \in Sym \ valid /\ s \notin Choices /\ Deps(s) \subseteq valid
      /\ curr' = [curr EXCEPT ![s] = x] /\ valid' = valid \cup {s} /\ sel' = sel /\ early' = early
  BY DEF CalcSym
<1>0. ValuesOnly \/ s \in ChoiceVals => x = NewVal(s, curr)
  BY CalcSymIs, ViewIs DEF NewVal, IInv, TypeOK
<1> HIDE DEF x
<1>5. /\ Closed'
      /\ \A t \in valid \cup {s} : t \notin ChoiceVals =>
           /\ ExprVal(DirDep[t], curr') = ExprVal(DirDep[t], curr)
           /\ ExprVal(RevDep[t], curr') = ExprVal(RevDep[t], curr)
      /\ \A c \in Choices \cap valid, v \in ChoiceVals :
           ChoiceOf[v] = c => Visibility(v, curr') = Visibility(v, curr)
  BY <1>2, <1>4, CalcFrame
<1>6. s \notin ChoiceVals =>
        /\ ValuesOnly /\ ExprVal(DirDep[s], curr) = no => x = no
        /\ ExprVal(DirDep[s], curr) # no => x >= ExprVal(RevDep[s], curr)
  BY <1>0, <1>1, <1>2, NewValBounds DEF x
<1>7. /\ curr'[s] = x /\ \A t \in valid : curr'[t] = curr[t]
  BY <1>1, <1>4
<1>8. (ValuesOnly => DependenciesMet') /\ SelectsObeyed'
  BY <1>4, <1>5, <1>6, <1>7 DEF IInv, DependenciesMet, SelectsObeyed
<1>9. ASSUME NEW c \in (Choices \cap valid)', curr'[c] = yes
      PROVE  /\ sel'[c] \in Values(c)
             /\ Visibility(sel'[c], curr') # no
             /\ \A v \in Values(c) \cap valid' : curr'[v] # no <=> v = sel'[c]
  <2>1. c \in Choices \cap valid /\ curr[c] = yes
    BY <1>4, <1>7, <1>9
  <2>2. /\ sel[c] \in Values(c) /\ Visibility(sel[c], curr) # no
        /\ \A v \in Values(c) \cap valid : curr[v] # no <=> v = sel[c]
    BY <2>1 DEF IInv, Chosen
  <2>3. Visibility(sel[c], curr') # no
    BY <1>5, <2>1, <2>2 DEF Values
  <2>4. s \in Values(c) => (x # no <=> s = sel[c])
    BY <1>0, <1>1, <2>1, <2>2, NewValOfChoiceValue DEF Values
  <2>5. QED
    BY <1>4, <1>7, <2>2, <2>3, <2>4
<1>10. Chosen'
  BY <1>9 DEF Chosen
<1>11. EarlyFits'
  BY <1>4 DEF IInv, EarlyFits
<1>12. QED
  BY <1>3, <1>5, <1>8, <1>10, <1>11 DEF IInv, ValuesOnly

\* What is stored for a choice has the types of the variables.
LEMMA StoreType ==
  ASSUME SymTypeOK, NEW s \in Choices, StoreChoice(s)
  PROVE  /\ curr' \in [Sym -> Tristate] /\ sel' \in [Choices -> ChoiceVals \cup {NoSym}]
         /\ visible' \in [Sym -> Tristate] /\ write' \subseteq Sym
         /\ dirDep' \in [Sym -> Tristate] /\ revDep' \in [Sym -> Tristate]
         /\ ChoiceVal(s) \in Tristate /\ FinalVal(s) \in Tristate
         /\ AtChoice(s) \in [Sym -> Tristate]
         /\ Pick(s) = NoSym \/ Pick(s) \in Shown(s)
<1>1. s \in Sym /\ curr \in [Sym -> Tristate] /\ user \in [Sym -> Tristate]
  BY StructureAssumption DEF SymTypeOK
<1>2. /\ ChoiceVal(s) \in Tristate /\ Visibility(s, curr) \in Tristate
      /\ DirDepVal(s, curr) \in Tristate /\ RevDepVal(s, curr) \in Tristate
  BY <1>1, NewValType, VisibilityType DEF ChoiceVal
<1>3. AtChoice(s) \in [Sym -> Tristate] /\ FinalVal(s) \in Tristate
  BY <1>1, <1>2 DEF AtChoice, FinalVal
<1>4. Pick(s) = NoSym \/ Pick(s) \in Shown(s)
  BY <1>3, ChoiceDefaultIn DEF Pick, Shown
<1>5. \A t \in Values(s) : t \in Sym /\ Visibility(t, AtChoice(s)) \in Tristate
  BY <1>3, VisibilityType, StructureAssumption DEF Values
<1>6. visible' \in [Sym -> Tristate]
  BY <1>2, <1>5 DEF SymTypeOK, StoreChoice
<1>7. sel' \in [Choices -> ChoiceVals \cup {NoSym}]
  BY <1>4 DEF SymTypeOK, StoreChoice, FinalSel, Shown, Values
<1>8. write' \subseteq Sym
  BY <1>1, <1>5 DEF SymTypeOK, StoreChoice
<1>9. curr' \in [Sym -> Tristate] /\ dirDep' \in [Sym -> Tristate] /\ revDep' \in [Sym -> Tristate]
  BY <1>2, <1>3 DEF SymTypeOK, StoreChoice
<1>10. QED
  BY <1>2, <1>3, <1>4, <1>6, <1>7, <1>8, <1>9

\* What is stored for a choice that is not valid keeps the invariant, whether the
\* choice is valid then or is to be computed again.
LEMMA StoreIInv ==
  ASSUME IInv, TypeOK', EarlyFits', NEW s \in Choices, s \notin valid, Deps(s) \subseteq valid,
         StoreChoice(s), valid' = valid \cup {s} \/ valid' = valid
  PROVE  IInv'
<1> DEFINE new == ChoiceVal(s)
           c == AtChoice(s)
           shown == Shown(s)
           pick == Pick(s)
           x == FinalVal(s)
<1>1. /\ curr \in [Sym -> Tristate] /\ user \in [Sym -> Tristate] /\ valid \subseteq Sym
      /\ s \in Sym \ valid /\ s \notin ChoiceVals
  BY StructureAssumption DEF IInv, TypeOK, SymTypeOK
<1>3. c \in [Sym -> Tristate] /\ x \in Tristate
  BY StoreType DEF IInv, TypeOK
<1>4. pick = NoSym \/ pick \in shown
  BY StoreType DEF IInv, TypeOK
<1>5. /\ curr' = [curr EXCEPT ![s] = x]
      /\ sel' = [sel EXCEPT ![s] = IF new = yes THEN pick ELSE NoSym]
  BY DEF StoreChoice, FinalSel
<1> HIDE DEF new, c, shown, pick, x
<1>7. /\ Closed'
      /\ \A t \in valid \cup {s} : t \notin ChoiceVals =>
           /\ ExprVal(DirDep[t], curr') = ExprVal(DirDep[t], curr)
           /\ ExprVal(RevDep[t], curr') = ExprVal(RevDep[t], curr)
      /\ \A d \in Choices \cap valid, v \in ChoiceVals :
           ChoiceOf[v] = d => Visibility(v, curr') = Visibility(v, curr)
  BY <1>1, <1>3, <1>5, CalcFrame
<1>8. /\ curr'[s] = x /\ \A t \in valid : curr'[t] = curr[t]
      /\ \A d \in Choices \cap valid : sel'[d] = sel[d]
  BY <1>1, <1>5 DEF IInv, TypeOK, SymTypeOK
<1>9. (ValuesOnly => DependenciesMet') /\ SelectsObeyed'
  <2>1. ExprVal(DirDep[s], curr) = no => new = no
    BY <1>1, NewValBounds DEF new, ChoiceVal
  <2>2. x # no => new # no
    BY DEF x, FinalVal, new
  <2>3. /\ \A t \in valid \ ChoiceVals : curr'[t] = curr[t]
        /\ \A t \in (valid \cup {s}) \ ChoiceVals :
             /\ ExprVal(DirDep[t], curr') = ExprVal(DirDep[t], curr)
             /\ ExprVal(RevDep[t], curr') = ExprVal(RevDep[t], curr)
    BY <1>7, <1>8
  <2>4. curr'[s] # no => ExprVal(DirDep[s], curr') # no
    <3>1. s \in (valid \cup {s}) \ ChoiceVals
      BY <1>1
    <3>2. QED
      BY <1>8, <2>1, <2>2, <2>3, <3>1
  <2>5. ASSUME ValuesOnly PROVE DependenciesMet'
    <3>1. ASSUME NEW t \in valid' \ ChoiceVals
          PROVE  curr'[t] # no => ExprVal(DirDep[t], curr') # no
      <4>1. CASE t = s
        BY <2>4, <4>1
      <4>2. CASE t # s
        <5>1. t \in valid \ ChoiceVals
          BY <1>5, <3>1, <4>2
        <5>2. QED
          BY <2>3, <2>5, <5>1 DEF IInv, DependenciesMet
      <4>3. QED
        BY <4>1, <4>2
    <3>2. QED
      BY <3>1 DEF DependenciesMet
  <2>6. SelectsObeyed'
    <3>1. ASSUME NEW t \in valid' \ ChoiceVals, t \notin Choices
          PROVE  ExprVal(DirDep[t], curr') # no => curr'[t] >= ExprVal(RevDep[t], curr')
      <4>1. t \in valid \ ChoiceVals
        BY <1>1, <1>5, <3>1
      <4>2. QED
        BY <2>3, <3>1, <4>1 DEF IInv, SelectsObeyed
    <3>2. QED
      BY <3>1 DEF SelectsObeyed
  <2>7. QED
    BY <2>5, <2>6
<1>10. ASSUME NEW d \in (Choices \cap valid)', curr'[d] = yes
       PROVE  /\ sel'[d] \in Values(d)
              /\ Visibility(sel'[d], curr') # no
              /\ \A v \in Values(d) \cap valid' : curr'[v] # no <=> v = sel'[d]
  <2>1. CASE d = s
    <3>1. new = yes /\ pick # NoSym /\ curr' = c
      <4>1. x = yes
        BY <1>8, <1>10, <2>1
      <4>2. new = yes /\ pick # NoSym
        BY <4>1 DEF x, FinalVal, new, pick
      <4>3. x = new
        BY <4>1, <4>2
      <4>4. QED
        BY <1>5, <4>2, <4>3 DEF c, AtChoice, new
    <3>2. sel'[s] = pick /\ pick \in shown
      BY <1>1, <1>4, <1>5, <3>1 DEF IInv, TypeOK, SymTypeOK
    <3>3. Values(s) \cap (valid \cup {s}) = {}
      BY <1>1 DEF Values, IInv, Closed, Deps
    <3>4. QED
      BY <1>5, <2>1, <3>1, <3>2, <3>3 DEF shown, Shown, c
  <2>2. CASE d # s
    <3>1. d \in Choices \cap valid /\ curr[d] = yes
      BY <1>5, <1>8, <1>10, <2>2
    <3>2. /\ sel[d] \in Values(d) /\ Visibility(sel[d], curr) # no
          /\ \A v \in Values(d) \cap valid : curr[v] # no <=> v = sel[d]
      BY <3>1 DEF IInv, Chosen
    <3>3. Visibility(sel[d], curr') # no
      BY <1>7, <3>1, <3>2 DEF Values
    <3>4. s \notin Values(d)
      BY <1>1 DEF Values
    <3>5. QED
      BY <1>5, <1>8, <3>1, <3>2, <3>3, <3>4
  <2>3. QED
    BY <2>1, <2>2
<1>11. Chosen'
  BY <1>10 DEF Chosen
<1>12. QED
  BY <1>7, <1>9, <1>11 DEF IInv, ValuesOnly

\* sym_calc_value() of a choice keeps the invariant.
LEMMA CalcChoiceIInv ==
  ASSUME IInv, NEW s \in Sym, CalcChoice(s), UNCHANGED sessionVars
  PROVE  IInv'
<1>1. s \in Choices /\ StoreChoice(s)
  BY DEF CalcChoice
<1>2. TypeOK'
  BY <1>1, StoreType DEF CalcChoice, IInv, TypeOK, SymTypeOK, sessionVars
<1>3. EarlyFits'
  BY DEF CalcChoice, IInv, EarlyFits
<1>4. QED
  BY <1>1, <1>2, <1>3, StoreIInv DEF CalcChoice

\* So does set_all_choice_values() after it.
LEMMA SetAllIInv ==
  ASSUME IInv, NEW s \in Choices, SetAllChoiceValues(s), UNCHANGED sessionVars
  PROVE  IInv'
<1>1. StoreChoice(s) /\ s \notin valid /\ Deps(s) \subseteq valid /\ valid' = valid
  BY DEF SetAllChoiceValues
<1>2. PICK r \in Readers(s) \cup {NoSym} : early' = [early EXCEPT ![s] = [sym |-> r, val |-> FinalVal(s)]]
  BY DEF SetAllChoiceValues
<1>3. r # NoSym => /\ Type[s] = "tri" /\ s \in Reads(Prompt[r])
                   /\ r \in Sym \ (Choices \cup ChoiceVals)
  BY ReadersAssumption DEF Readers, Deps
<1>4. early' \in [Choices -> [sym : Sym \cup {NoSym}, val : Tristate]] /\ EarlyFits'
  <2>1. FinalVal(s) \in Tristate /\ r \in Sym \cup {NoSym}
    BY <1>1, <1>3, StoreType DEF IInv, TypeOK
  <2>2. QED
    BY <1>2, <1>3, <2>1 DEF IInv, TypeOK, SymTypeOK, EarlyFits
<1>5. TypeOK'
  <2>1. user' \in [Sym -> Tristate] /\ hasUser' \subseteq Sym
    BY StructureAssumption DEF SetAllChoiceValues, IInv, TypeOK, SymTypeOK
  <2>2. QED
    BY <1>1, <1>4, <2>1, StoreType DEF SetAllChoiceValues, IInv, TypeOK, SymTypeOK, sessionVars
<1>6. QED
  BY <1>1, <1>4, <1>5, StoreIInv

-----------------------------------------------------------------------------
(* The theorems.                                                           *)

\* An answer leaves everything typed.
LEMMA SetTristateType ==
  ASSUME SymTypeOK, NEW s \in Sym, NEW val \in Tristate, SetTristateValue(s, val)
  PROVE  SymTypeOK' /\ user'[s] \in Tristate
<1> USE DEF SymTypeOK, SetTristateValue, ClearAllValid
<1>1. CASE s \in ChoiceVals /\ val = yes
  <2>1. ChoiceOf[s] \in Choices /\ Choices \subseteq Sym /\ ChoiceVals \subseteq Sym
    BY <1>1, StructureAssumption
  <2>2. userSel' \in [Choices -> ChoiceVals \cup {NoSym}] /\ hasUser' \subseteq Sym
    BY <1>1, <2>1 DEF Values
  <2>3. QED
    BY <2>2
<1>2. CASE ~(s \in ChoiceVals /\ val = yes)
  BY <1>2
<1>3. QED
  BY <1>1, <1>2

\* Reading a file leaves everything typed.
LEMMA ReadType ==
  ASSUME TypeOK, NEW what \in {"menu", "defconfig", "sync"}, ReadBegin(what)
  PROVE  TypeOK'
<1>1. \A s \in Sym \ Choices : Parsed(s) => config[s] \in Tristate
  BY DEF TypeOK, File, Parsed, NoLine
<1>2. \A c \in Choices : Lines(c, yes) # {} => LastSym(Lines(c, yes)) \in ChoiceVals
  <2>1. TAKE c \in Choices
  <2>2. Lines(c, yes) \in SUBSET ChoiceVals /\ ChoiceVals \subseteq Sym
    BY StructureAssumption DEF Lines, Values
  <2>3. QED
    BY <2>2, LastSymIn
<1>3. user' \in [Sym -> Tristate]
  BY <1>1 DEF ReadBegin
<1>4. userSel' \in [Choices -> ChoiceVals \cup {NoSym}]
  BY <1>2 DEF ReadBegin
<1>5. hasUser' \subseteq Sym
  BY StructureAssumption DEF ReadBegin
<1>6. QED
  BY <1>3, <1>4, <1>5 DEF TypeOK, SymTypeOK, ReadBegin

\* What a save prints is a file.
LEMMA WriteType ==
  ASSUME TypeOK, WriteEnd
  PROVE  TypeOK'
<1>1. Output \in File
  BY DEF TypeOK, SymTypeOK, Output, File
<1>2. config' \in File /\ tmp' \in File /\ bytool' \in BOOLEAN
  BY <1>1 DEF TypeOK, WriteEnd
<1>3. QED
  BY <1>2 DEF TypeOK, SymTypeOK, WriteEnd

\* No answer at all is typed as an answer.
LEMMA NoAnswerType == NoAnswer \in [sym : Sym \cup {NoSym}, val : Tristate]
BY DEF NoAnswer

\* Initially nothing is valid.
LEMMA InitIInv == Init => IInv
<1> SUFFICES ASSUME Init PROVE IInv
  OBVIOUS
<1>1. TypeOK
  <2>1. SymTypeOK
    BY DEF Init, Fresh, SymTypeOK, NotRead
  <2>2. config \in File /\ tmp \in File
    BY FilesAssumption DEF Init, File, NoLine
  <2>3. QED
    <3>1. asked \in [sym : Sym \cup {NoSym}, val : Tristate]
      BY NoAnswerType DEF Init
    <3>2. ops \in 0..MaxOps
      BY OpsAssumption DEF Init
    <3>3. QED
      BY <2>1, <2>2, <3>1, <3>2 DEF Init, TypeOK
<1>2. valid = {} /\ EarlyFits
  BY DEF Init, Fresh, NotRead, EarlyFits
<1>3. QED
  BY <1>1, <1>2 DEF IInv, Closed, DependenciesMet, SelectsObeyed, Chosen

\* A new process has nothing valid.
LEMMA RestartIInv ==
  ASSUME IInv, Restart, mode' = "start", asked' = NoAnswer, ops' = 0,
         UNCHANGED <<session, config, bytool, tmp>>
  PROVE  IInv'
<1>1. SymTypeOK' /\ valid' = {} /\ EarlyFits'
  BY DEF Restart, SymTypeOK, NotRead, EarlyFits
<1>2. TypeOK'
  BY <1>1, NoAnswerType, OpsAssumption DEF IInv, TypeOK
<1>3. QED
  BY <1>1, <1>2 DEF IInv, Closed, DependenciesMet, SelectsObeyed, Chosen

\* An answer, given or reached by toggling, is one sym_set_tristate_value() takes.
LEMMA AnswerIs ==
  ASSUME IInv, NEW s \in Sym, Answer(s)
  PROVE  \E val \in Tristate : SetTristateValue(s, val)
<1>1. curr[s] \in Tristate
  BY DEF IInv, TypeOK, SymTypeOK
<1>2. \A step \in 1..3 : (curr[s] + step) % 3 \in Tristate
  BY <1>1
<1>3. QED
  BY <1>2 DEF Answer, ToggleTristateValue

\* Every step keeps the invariant.
LEMMA NextIInv == IInv /\ [Next]_vars => IInv'
<1> SUFFICES ASSUME IInv, [Next]_vars PROVE IInv'
  OBVIOUS
<1> USE OpsAssumption
<1>0. TypeOK
  BY DEF IInv
<1>1. ASSUME NEW what \in {"menu", "defconfig", "sync"}, ReadBegin(what) PROVE IInv'
  <2>1. UNCHANGED <<curr, sel, early>> /\ valid' = {}
    BY <1>1 DEF ReadBegin
  <2>2. QED
    BY <1>0, <1>1, <2>1, ReadType, KeepIInv
<1>2. CASE ReadEnd
  <2>1. TypeOK'
    BY <1>0, <1>2 DEF ReadEnd, TypeOK, SymTypeOK
  <2>2. QED
    BY <1>2, <2>1, KeepIInv DEF ReadEnd
<1>3. CASE WriteBegin
  <2>1. TypeOK'
    <3>1. SymTypeOK'
      BY <1>0, <1>3 DEF WriteBegin, ClearAllValid, TypeOK, SymTypeOK
    <3>2. mode' = "write" /\ ops' \in 0..MaxOps
      BY <1>0, <1>3 DEF WriteBegin, TypeOK
    <3>3. QED
      BY <1>0, <1>3, <3>1, <3>2 DEF WriteBegin, TypeOK
  <2>2. QED
    BY <1>3, <2>1, KeepIInv DEF WriteBegin, ClearAllValid
<1>4. CASE WriteEnd
  <2>1. UNCHANGED <<curr, sel, valid, early>>
    BY <1>4 DEF WriteEnd
  <2>2. QED
    BY <1>0, <1>4, <2>1, WriteType, KeepIInv
<1>5. CASE Exit
  BY <1>5, RestartIInv DEF Exit
<1>6. ASSUME NEW s \in Sym, Calc(s) PROVE IInv'
  BY <1>6, CalcSymIInv, CalcChoiceIInv DEF Calc
<1>7. ASSUME NEW s \in Sym, Answer(s) PROVE IInv'
  <2>1. PICK val \in Tristate : SetTristateValue(s, val)
    BY <1>7, AnswerIs
  <2>2. SymTypeOK' /\ user'[s] \in Tristate
    BY <1>0, <2>1, SetTristateType DEF TypeOK
  <2>3. TypeOK'
    BY <1>0, <1>7, <2>2 DEF TypeOK, Answer
  <2>4. UNCHANGED <<curr, sel, early>> /\ (valid' = valid \/ valid' = {})
    BY <2>1 DEF SetTristateValue, ClearAllValid
  <2>5. QED
    BY <2>3, <2>4, KeepIInv
<1>8. ASSUME NEW answer \in Tristate \cup {def_default}, AnswerAll(answer) PROVE IInv'
  <2>1. TypeOK'
    BY <1>0, <1>8, StructureAssumption
       DEF AnswerAll, SetAllNewSymbols, ClearAllValid, TypeOK, SymTypeOK, def_default
  <2>2. QED
    BY <1>8, <2>1, KeepIInv DEF AnswerAll, SetAllNewSymbols, ClearAllValid
<1>11. ASSUME NEW c \in Choices, AnswerChoice(c) PROVE IInv'
  BY <1>11, SetAllIInv DEF AnswerChoice
<1>9. CASE UNCHANGED vars
  <2>1. TypeOK' /\ UNCHANGED <<curr, sel, valid, early>>
    BY <1>0, <1>9 DEF vars, symVars, sessionVars, TypeOK, SymTypeOK
  <2>2. QED
    BY <2>1, KeepIInv
<1>10. QED
  BY <1>1, <1>2, <1>3, <1>4, <1>5, <1>6, <1>7, <1>8, <1>9, <1>11 DEF Next

\* The minimal file is a file, and so is what it was made of.
DefTypes == phase \in {"full", "minimize", "saved", "again"} /\ mini \in File /\ full \in File

\* What a save would print is a file, and the minimal file has some of its lines.
LEMMA FilesTyped ==
  ASSUME TypeOK
  PROVE  Output \in File /\ Minimal \in File /\ NoFile \in File
<1>1. Output \in File
  BY DEF TypeOK, SymTypeOK, Output, File
<1>2. QED
  BY <1>1 DEF Minimal, NoFile, File

\* Every step of the tools keeps the invariant, with the minimal files.
LEMMA DefNextIInv ==
  IInv /\ DefTypes /\ [DefNext]_<<vars, defVars>> => IInv' /\ DefTypes'
<1> SUFFICES ASSUME IInv, DefTypes, [DefNext]_<<vars, defVars>> PROVE IInv' /\ DefTypes'
  OBVIOUS
<1>0. TypeOK
  BY DEF IInv
<1>1. CASE Others
  <2>1. IInv'
    BY <1>1, NextIInv DEF Others
  <2>2. DefTypes'
    BY <1>0, <1>1, FilesTyped DEF Others, DefTypes
  <2>3. QED
    BY <2>1, <2>2
<1>2. CASE MinimizeBegin
  <2>1. TypeOK'
    BY <1>0, <1>2 DEF MinimizeBegin, ClearAllValid, TypeOK, SymTypeOK
  <2>2. QED
    BY <1>2, <2>1, KeepIInv DEF MinimizeBegin, ClearAllValid, DefTypes
<1>3. CASE MinimizeEnd
  <2>1. IInv'
    BY <1>3, RestartIInv DEF MinimizeEnd
  <2>2. QED
    BY <1>0, <1>3, <2>1, FilesTyped DEF MinimizeEnd, DefTypes
<1>4. CASE ReadDefconfig
  <2>1. TypeOK' /\ UNCHANGED <<curr, sel, valid, early>>
    BY <1>0, <1>4 DEF ReadDefconfig, DefTypes, TypeOK, SymTypeOK, symVars
  <2>2. QED
    BY <1>4, <2>1, KeepIInv DEF ReadDefconfig, DefTypes
<1>5. CASE UNCHANGED <<vars, defVars>>
  BY <1>5, NextIInv DEF DefTypes, defVars
<1>6. QED
  BY <1>1, <1>2, <1>3, <1>4, <1>5 DEF DefNext

\* The invariant holds in every behaviour of the configuration tools.
THEOREM Invariance == DefSpec => [](IInv /\ DefTypes)
<1>1. DefInit => IInv /\ DefTypes
  <2>1. ASSUME DefInit PROVE IInv /\ DefTypes
    <3>1. IInv
      BY <2>1, InitIInv DEF DefInit
    <3>2. QED
      BY <2>1, <3>1, FilesTyped DEF DefInit, DefTypes, IInv
  <2>2. QED
    BY <2>1
<1>2. QED
  BY <1>1, DefNextIInv, PTL DEF DefSpec

\* Every variable of the tools keeps its type, whatever the menu and the file.
THEOREM Typing == DefSpec => []TypeOK
<1>1. IInv => TypeOK
  BY DEF IInv
<1>2. QED
  BY <1>1, Invariance, PTL

\* OpenWrt's rule at symbol.c:402: for every menu whose tristate choices hold nothing
\* but their values, no computed symbol is on while its `depends on' is off.
THEOREM Dependencies == ValuesOnly => (DefSpec => []DependenciesMet)
<1> SUFFICES ASSUME ValuesOnly PROVE DefSpec => []DependenciesMet
  OBVIOUS
<1>1. IInv => DependenciesMet
  BY DEF IInv
<1>2. QED
  BY <1>1, Invariance, PTL

\* For every menu a select is obeyed where the dependencies allow (symbol.c:402-406).
THEOREM Selects == DefSpec => []SelectsObeyed
<1>1. IInv => SelectsObeyed
  BY DEF IInv
<1>2. QED
  BY <1>1, Invariance, PTL

\* For every menu a choice at y has exactly one of its values on (symbol.c:295-325).
THEOREM Choosing == DefSpec => []OneChosen
<1>1. IInv => OneChosen
  BY DEF IInv, Chosen, OneChosen
<1>2. QED
  BY <1>1, Invariance, PTL

-----------------------------------------------------------------------------
(* The cache of computed values.                                           *)

\* What sym_calc_value() makes of s from the values c, the answers U of the
\* symbols in H and the selections G of the choices: Val, in two halves.
Base(s, c, U, H) ==
  IF Visibility(s, c) # no /\ s \in H THEN EXPR_AND(U[s], Visibility(s, c))
  ELSE IF s \in Choices THEN no
  ELSE DefaultVal(s, c)
Final(s, b, c) ==
  LET dir == IF s \in ChoiceVals THEN no ELSE DirDepVal(s, c)
      rev == IF s \in ChoiceVals THEN no ELSE RevDepVal(s, c)
      tri == WithSelect(b, dir, rev)
  IN  IF tri = mod /\ IsBool(s, Visibility(s, c)) THEN yes ELSE tri
Val(s, c, U, H, G) ==
  IF s \in ChoiceVals /\ Visibility(s, c) = yes
  THEN IF G[ChoiceOf[s]] = s THEN yes ELSE no
  ELSE Final(s, Base(s, c, U, H), c)

\* Val is sym_calc_value(), before and after a step.
LEMMA NewValIs ==
  ASSUME NEW s
  PROVE  /\ NewVal(s, curr) = Val(s, curr, user, hasUser, sel)
         /\ NewVal(s, curr)' = Val(s, curr', user', hasUser', sel')
BY DEF NewVal, NewValAt, RevDepVal, Val, Final, BaseVal, Base

\* What the last computation of a valid symbol noted is true of the values now.
Seen ==
  \A s \in valid : /\ visible[s] = Visibility(s, curr)
                   /\ s \notin ChoiceVals => revDep[s] = RevDepVal(s, curr)

\* Only a tristate symbol is at m, and only with modules.
Modular == \A s \in valid : curr[s] = mod => Type[s] = "tri" /\ Modules = yes

\* No symbol that is no choice is stale.
SymbolsFresh == \A s \in valid \ Choices : curr[s] = NewVal(s, curr)

Cached == SymbolsFresh /\ Seen /\ Modular

\* A symbol does not read itself.
LEMMA NoSelfDep ==
  ASSUME NEW s \in Sym
  PROVE  s \notin Deps(s)
BY AcyclicAssumption

\* A computation reads nothing but the symbols in Deps.
LEMMA Frame ==
  ASSUME NEW s \in Sym, NEW c \in [Sym -> Tristate], NEW d \in [Sym -> Tristate],
         \A t \in Deps(s) : c[t] = d[t]
  PROVE  /\ Visibility(s, c) = Visibility(s, d)
         /\ s \notin ChoiceVals => /\ DirDepVal(s, c) = DirDepVal(s, d)
                                   /\ RevDepVal(s, c) = RevDepVal(s, d)
         /\ VisibleDefaults(s, c) = VisibleDefaults(s, d)
         /\ s \notin Choices => DefaultVal(s, c) = DefaultVal(s, d)
         /\ \A b : Final(s, b, c) = Final(s, b, d)
<1>1. /\ Prompt[s] \in Expr /\ DirDep[s] \in Expr /\ RevDep[s] \in Expr
      /\ Reads(Prompt[s]) \subseteq Deps(s)
      /\ s \notin ChoiceVals => Reads(DirDep[s]) \subseteq Deps(s)
                                /\ Reads(RevDep[s]) \subseteq Deps(s)
      /\ s \in ChoiceVals => ChoiceOf[s] \in Deps(s)
  BY StructureAssumption DEF Deps
<1>2. \A e \in Expr : Reads(e) \subseteq Deps(s) => ExprVal(e, c) = ExprVal(e, d)
  BY ExprSame
<1>3. Visibility(s, c) = Visibility(s, d)
  <2>1. ExprVal(Prompt[s], c) = ExprVal(Prompt[s], d)
    BY <1>1, <1>2
  <2>2. s \in ChoiceVals => c[ChoiceOf[s]] = d[ChoiceOf[s]]
    BY <1>1
  <2>3. QED
    BY <2>1, <2>2 DEF Visibility
<1>4. s \notin ChoiceVals => /\ DirDepVal(s, c) = DirDepVal(s, d)
                             /\ RevDepVal(s, c) = RevDepVal(s, d)
  BY <1>1, <1>2, <1>3 DEF DirDepVal, RevDepVal, RevDepAt
<1>5. \A i \in DOMAIN Defaults[s] :
        /\ ExprVal(Defaults[s][i].cond, c) = ExprVal(Defaults[s][i].cond, d)
        /\ s \notin Choices =>
             ExprVal(Defaults[s][i].val, c) = ExprVal(Defaults[s][i].val, d)
  <2>1. TAKE i \in DOMAIN Defaults[s]
  <2>2. /\ Defaults[s][i].cond \in Expr
        /\ s \notin Choices => Defaults[s][i].val \in Expr
    BY StructureAssumption
  <2>3. /\ Reads(Defaults[s][i].cond) \subseteq Deps(s)
        /\ s \notin Choices => Reads(Defaults[s][i].val) \subseteq Deps(s)
    BY DEF Deps, DefaultReads
  <2>4. QED
    BY <1>2, <2>2, <2>3
<1>6. VisibleDefaults(s, c) = VisibleDefaults(s, d)
  BY <1>5 DEF VisibleDefaults
<1>7. s \notin Choices => DefaultVal(s, c) = DefaultVal(s, d)
  <2>1. ASSUME s \notin Choices, VisibleDefaults(s, c) # {}
        PROVE  FirstPos(VisibleDefaults(s, c)) \in DOMAIN Defaults[s]
    <3>1. VisibleDefaults(s, c) \in SUBSET Nat
      BY StructureAssumption DEF VisibleDefaults
    <3>2. QED
      BY <2>1, <3>1, FirstPosIn DEF VisibleDefaults
  <2>2. QED
    BY <1>5, <1>6, <2>1 DEF DefaultVal
<1>8. \A b : Final(s, b, c) = Final(s, b, d)
  BY <1>3, <1>4 DEF Final
<1>9. QED
  BY <1>3, <1>4, <1>6, <1>7, <1>8

\* The same of the whole value.
LEMMA ValFrame ==
  ASSUME NEW s \in Sym, NEW c \in [Sym -> Tristate], NEW d \in [Sym -> Tristate],
         \A t \in Deps(s) : c[t] = d[t], NEW U, NEW H, NEW G
  PROVE  Val(s, c, U, H, G) = Val(s, d, U, H, G)
<1>1. Base(s, c, U, H) = Base(s, d, U, H)
  BY Frame DEF Base
<1>2. QED
  BY <1>1, Frame DEF Val

\* ... and of the answers and selections only what concerns the symbol.
LEMMA ValUses ==
  ASSUME NEW s, NEW c, NEW U, NEW H, NEW G, NEW V, NEW K, NEW F,
         s \in H <=> s \in K, s \in H => U[s] = V[s],
         s \in ChoiceVals => G[ChoiceOf[s]] = F[ChoiceOf[s]]
  PROVE  Val(s, c, U, H, G) = Val(s, c, V, K, F)
BY DEF Val, Base

\* The values of a choice are seen as the choice and what it reads have it.
LEMMA ValuesFrame ==
  ASSUME NEW s \in Choices, NEW v \in Values(s),
         NEW c \in [Sym -> Tristate], NEW d \in [Sym -> Tristate],
         \A t \in Deps(s) \cup {s} : c[t] = d[t]
  PROVE  Visibility(v, c) = Visibility(v, d)
<1>1. v \in ChoiceVals /\ ChoiceOf[v] = s /\ Prompt[v] \in Expr
      /\ Reads(Prompt[v]) \subseteq Deps(s) \cup {s}
  BY StructureAssumption DEF Values, Deps
<1>2. ExprVal(Prompt[v], c) = ExprVal(Prompt[v], d)
  BY <1>1, ExprSame
<1>3. QED
  BY <1>1, <1>2 DEF Visibility

\* Where only y and n are answered, m is not seen.
LEMMA NoModuleSeen ==
  ASSUME NEW s \in Sym, NEW c \in [Sym -> Tristate]
  PROVE  /\ Visibility(s, c) \in Tristate
         /\ Type[s] = "bool" \/ Modules = no => Visibility(s, c) # mod
         /\ s \in ChoiceVals /\ c[ChoiceOf[s]] = yes => Visibility(s, c) # mod
<1>1. ExprVal(Prompt[s], c) \in Tristate /\ Type[s] \in {"bool", "tri"}
  BY StructureAssumption, ExprAssumption
<1>2. QED
  BY <1>1 DEF Visibility

\* No computation gives m to a symbol that cannot have it.
LEMMA NewValModular ==
  ASSUME NEW s \in Sym, NEW c, NewVal(s, c) = mod
  PROVE  Type[s] = "tri" /\ Modules = yes
<1>1. Type[s] \in {"bool", "tri"} /\ Modules \in {no, yes}
  BY StructureAssumption
<1>2. ~IsBool(s, Visibility(s, c))
  BY DEF NewVal, NewValAt
<1>3. QED
  BY <1>1, <1>2 DEF IsBool

\* A prompt that can be seen has its dependencies met.
LEMMA SeenDir ==
  ASSUME NEW s \in Sym \ ChoiceVals, NEW c \in [Sym -> Tristate], Visibility(s, c) # no
  PROVE  DirDepVal(s, c) = yes
<1>1. ExprVal(Prompt[s], c) # no
  BY DEF Visibility
<1>2. QED
  BY <1>1, FinalizedAssumption DEF DirDepVal

\* An answer below the visibility gives a value that, given as an answer, gives
\* itself.
LEMMA FinalTop ==
  ASSUME NEW s \in Sym, NEW c \in [Sym -> Tristate], Visibility(s, c) # no,
         NEW b \in Tristate, b <= Visibility(s, c),
         s \in ChoiceVals => Visibility(s, c) # yes
  PROVE  Final(s, EXPR_AND(Final(s, b, c), Visibility(s, c)), c) = Final(s, b, c)
<1> DEFINE vis == Visibility(s, c)
           rev == IF s \in ChoiceVals THEN no ELSE RevDepVal(s, c)
           dir == IF s \in ChoiceVals THEN no ELSE DirDepVal(s, c)
           bool == IsBool(s, vis)
<1>1. vis \in Tristate /\ rev \in Tristate /\ dir \in Tristate
  BY VisibilityType
<1>2. bool => vis # mod /\ rev # mod
  <2>1. ASSUME bool PROVE vis # mod
    BY <2>1, NoModuleSeen DEF IsBool
  <2>2. ASSUME bool PROVE rev # mod
    BY <2>2 DEF RevDepVal, RevDepAt
  <2>3. QED
    BY <2>1, <2>2
<1>3. \/ dir # no
      \/ rev = no
  BY SeenDir
<1>4. \A x \in Tristate :
        Final(s, x, c) = IF EXPR_OR(x, rev) = mod /\ bool THEN yes ELSE EXPR_OR(x, rev)
  BY <1>3 DEF Final, WithSelect
<1> HIDE DEF vis, rev, dir, bool
<1>5. Final(s, b, c) \in Tristate
  BY <1>1, <1>4 DEF EXPR_OR
<1>6. EXPR_AND(Final(s, b, c), vis) \in Tristate
  BY <1>1, <1>5 DEF EXPR_AND
<1>7. b <= vis
  BY DEF vis
<1>8. Final(s, EXPR_AND(Final(s, b, c), vis), c) = Final(s, b, c)
  <2>1. CASE bool
    <3>1. vis = yes
      BY <1>1, <1>2, <2>1 DEF vis
    <3>2. CASE EXPR_OR(b, rev) = mod
      BY <1>1, <1>2, <1>4, <1>6, <2>1, <3>1, <3>2 DEF EXPR_AND, EXPR_OR
    <3>3. CASE EXPR_OR(b, rev) # mod
      BY <1>1, <1>2, <1>4, <1>6, <2>1, <3>1, <3>3 DEF EXPR_AND, EXPR_OR
    <3>4. QED
      BY <3>2, <3>3
  <2>2. CASE ~bool
    BY <1>1, <1>4, <1>6, <1>7, <2>2 DEF EXPR_AND, EXPR_OR
  <2>3. QED
    BY <2>1, <2>2
<1>9. QED
  BY <1>8 DEF vis

\* A symbol t that was not valid gets a value: the valid ones are not touched.
LEMMA CalcKeepsCached ==
  ASSUME IInv, Cached, NEW t \in Sym \ valid, NEW x \in Tristate,
         curr' = [curr EXCEPT ![t] = x],
         \A s \in valid : /\ visible'[s] = visible[s] /\ revDep'[s] = revDep[s]
                          /\ user'[s] = user[s]
                          /\ s \notin Choices => (s \in hasUser' <=> s \in hasUser)
                          /\ s \in ChoiceVals => sel'[ChoiceOf[s]] = sel[ChoiceOf[s]]
  PROVE  \A s \in valid :
           /\ s \notin Choices => curr'[s] = NewVal(s, curr)'
           /\ visible'[s] = Visibility(s, curr')
           /\ s \notin ChoiceVals => revDep'[s] = RevDepVal(s, curr')
<1>1. TAKE s \in valid
<1>2. /\ curr \in [Sym -> Tristate] /\ curr' \in [Sym -> Tristate] /\ s \in Sym
      /\ Deps(s) \subseteq valid /\ curr'[s] = curr[s]
      /\ \A r \in Deps(s) : curr[r] = curr'[r]
  BY DEF IInv, TypeOK, SymTypeOK, Closed
<1>3. /\ Visibility(s, curr') = Visibility(s, curr)
      /\ s \notin ChoiceVals => RevDepVal(s, curr') = RevDepVal(s, curr)
  BY <1>2, Frame
<1>4. ASSUME s \notin Choices PROVE curr'[s] = NewVal(s, curr)'
  <2>1. curr[s] = Val(s, curr, user, hasUser, sel)
    BY <1>4, NewValIs DEF Cached, SymbolsFresh
  <2>2. Val(s, curr, user, hasUser, sel) = Val(s, curr', user, hasUser, sel)
    BY ONLY <1>2, ValFrame
  <2>3. Val(s, curr', user, hasUser, sel) = Val(s, curr', user', hasUser', sel')
    BY <1>4, ValUses
  <2>4. QED
    BY <1>2, <2>1, <2>2, <2>3, NewValIs
<1>5. QED
  BY <1>3, <1>4 DEF Cached, Seen

\* sym_calc_value() leaves the cache coherent: of a symbol that is no choice ...
LEMMA CalcSymCached ==
  ASSUME IInv, Cached, NEW s \in Sym, CalcSymPlain(s)
  PROVE  Cached'
<1> DEFINE x == NewVal(s, curr)
<1>1. /\ curr \in [Sym -> Tristate] /\ user \in [Sym -> Tristate] /\ valid \subseteq Sym
      /\ visible \in [Sym -> Tristate] /\ revDep \in [Sym -> Tristate]
  BY DEF IInv, TypeOK, SymTypeOK
<1>2. /\ s \in Sym \ valid /\ s \notin Choices /\ x \in Tristate
      /\ curr' = [curr EXCEPT ![s] = x] /\ valid' = valid \cup {s}
      /\ UNCHANGED <<sel, hasUser, user>>
  BY <1>1, NewValType DEF CalcSymPlain
<1>3. /\ visible'[s] = Visibility(s, curr)
      /\ s \notin ChoiceVals => revDep'[s] = RevDepVal(s, curr)
      /\ \A t \in valid : visible'[t] = visible[t] /\ revDep'[t] = revDep[t]
  BY <1>1 DEF CalcSymPlain
<1> HIDE DEF x
<1>4. \A t \in valid :
        /\ t \notin Choices => curr'[t] = NewVal(t, curr)'
        /\ visible'[t] = Visibility(t, curr')
        /\ t \notin ChoiceVals => revDep'[t] = RevDepVal(t, curr')
  BY <1>2, <1>3, CalcKeepsCached
<1>5. curr' \in [Sym -> Tristate] /\ \A t \in Deps(s) : curr[t] = curr'[t]
  BY <1>1, <1>2, NoSelfDep
<1>6. curr'[s] = NewVal(s, curr)'
  <2>1. curr'[s] = Val(s, curr, user, hasUser, sel)
    BY <1>1, <1>2, NewValIs DEF x
  <2>2. Val(s, curr, user, hasUser, sel) = Val(s, curr', user, hasUser, sel)
    BY <1>1, <1>5, ValFrame
  <2>3. QED
    BY <1>2, <2>1, <2>2, NewValIs
<1>7. /\ visible'[s] = Visibility(s, curr')
      /\ s \notin ChoiceVals => revDep'[s] = RevDepVal(s, curr')
  BY <1>1, <1>3, <1>5, Frame
<1>8. Modular'
  BY <1>1, <1>2, NewValModular DEF x, Cached, Modular
<1>9. QED
  BY <1>2, <1>4, <1>6, <1>7, <1>8 DEF Cached, SymbolsFresh, Seen

\* ... and of a choice, whether it is valid then or is to be computed again.
LEMMA StoreCached ==
  ASSUME IInv, Cached, NEW s \in Choices, s \notin valid, Deps(s) \subseteq valid,
         StoreChoice(s), valid' = valid \cup {s} \/ valid' = valid,
         \A t \in Sym \ Values(s) : user'[t] = user[t],
         \A t \in Sym : t # s => (t \in hasUser' <=> t \in hasUser)
  PROVE  Cached'
<1>1. /\ curr \in [Sym -> Tristate] /\ user \in [Sym -> Tristate] /\ valid \subseteq Sym
      /\ visible \in [Sym -> Tristate] /\ revDep \in [Sym -> Tristate]
      /\ sel \in [Choices -> ChoiceVals \cup {NoSym}]
      /\ s \in Sym \ valid /\ s \notin ChoiceVals
  BY StructureAssumption DEF IInv, TypeOK, SymTypeOK
<1>2. ChoiceVal(s) = NewVal(s, curr)
  BY DEF ChoiceVal
<1>3. PICK x \in Tristate : curr' = [curr EXCEPT ![s] = x] /\ x \in {no, NewVal(s, curr)}
  BY <1>2, StoreType DEF StoreChoice, FinalVal, IInv, TypeOK
<1>4. /\ visible'[s] = Visibility(s, curr) /\ revDep'[s] = RevDepVal(s, curr)
      /\ \A t \in Sym \ Values(s) : t # s => visible'[t] = visible[t]
      /\ \A t \in Sym : t # s => revDep'[t] = revDep[t]
      /\ \A t \in Choices : t # s => sel'[t] = sel[t]
  BY <1>1 DEF StoreChoice
<1>5. \A t \in valid : t \in ChoiceVals => ChoiceOf[t] \in Choices /\ ChoiceOf[t] # s
  BY <1>1, StructureAssumption DEF IInv, Closed, Deps
<1>6. \A t \in valid : t \in Sym /\ t \notin Values(s) /\ t # s
  BY <1>1, <1>5 DEF Values
<1>7. \A t \in valid :
        /\ t \notin Choices => curr'[t] = NewVal(t, curr)'
        /\ visible'[t] = Visibility(t, curr')
        /\ t \notin ChoiceVals => revDep'[t] = RevDepVal(t, curr')
  <2>1. \A t \in valid : /\ visible'[t] = visible[t] /\ revDep'[t] = revDep[t]
                         /\ user'[t] = user[t]
                         /\ t \notin Choices => (t \in hasUser' <=> t \in hasUser)
                         /\ t \in ChoiceVals => sel'[ChoiceOf[t]] = sel[ChoiceOf[t]]
    BY <1>4, <1>5, <1>6
  <2>2. QED
    BY <1>1, <1>3, <2>1, CalcKeepsCached
<1>8. curr' \in [Sym -> Tristate] /\ \A t \in Deps(s) : curr[t] = curr'[t]
  BY <1>1, <1>3, NoSelfDep
<1>9. visible'[s] = Visibility(s, curr') /\ revDep'[s] = RevDepVal(s, curr')
  BY <1>1, <1>4, <1>8, Frame
<1>10. Modular'
  <2>1. curr'[s] \in {no, NewVal(s, curr)}
    BY <1>1, <1>3
  <2>2. \A t \in valid : curr'[t] = curr[t]
    BY <1>1, <1>3
  <2>3. QED
    BY <1>1, <2>1, <2>2, NewValModular DEF Cached, Modular
<1>11. QED
  BY <1>1, <1>7, <1>9, <1>10 DEF Cached, SymbolsFresh, Seen

LEMMA CalcChoiceCached ==
  ASSUME IInv, Cached, NEW s \in Sym, CalcChoice(s)
  PROVE  Cached'
<1>1. \A t \in Sym : t # s => (t \in hasUser' <=> t \in hasUser)
  BY DEF CalcChoice
<1>2. QED
  BY <1>1, StoreCached DEF CalcChoice

LEMMA SetAllCached ==
  ASSUME IInv, Cached, NEW s \in Choices, SetAllChoiceValues(s)
  PROVE  Cached'
<1>1. /\ \A t \in Sym : t # s => (t \in hasUser' <=> t \in hasUser)
      /\ \A t \in Sym \ Values(s) : user'[t] = user[t]
  BY DEF SetAllChoiceValues
<1>2. QED
  BY <1>1, StoreCached DEF SetAllChoiceValues

\* A value of a choice that is at y has its choice at y.
LEMMA ChosenAtYes ==
  ASSUME NEW v \in ChoiceVals, NEW c \in [Sym -> Tristate], NEW U \in [Sym -> Tristate],
         NEW H, NEW G, Val(v, c, U, H, G) = yes,
         c[ChoiceOf[v]] = mod => Type[ChoiceOf[v]] = "tri" /\ Modules = yes
  PROVE  Visibility(v, c) = yes /\ c[ChoiceOf[v]] = yes
<1>1. /\ v \in Sym \ Choices /\ Type[v] \in {"bool", "tri"} /\ Modules \in {no, yes}
      /\ Type[ChoiceOf[v]] \in {"bool", "tri"} /\ ChoiceOf[v] \in Sym
      /\ ExprVal(Prompt[v], c) \in Tristate /\ Visibility(v, c) \in Tristate
  BY StructureAssumption, ExprAssumption, VisibilityType
<1>2. Visibility(v, c) = yes
  <2>1. SUFFICES ASSUME Visibility(v, c) # yes PROVE FALSE
    OBVIOUS
  <2>2. DefaultVal(v, c) = no
    BY ChoiceValueAssumption DEF DefaultVal, VisibleDefaults
  <2>3. Base(v, c, U, H) \in {no, mod} /\ (Visibility(v, c) = no => Base(v, c, U, H) = no)
    BY <1>1, <2>1, <2>2 DEF Base, EXPR_AND
  <2>4. Visibility(v, c) = mod => ~IsBool(v, Visibility(v, c))
    BY <1>1, NoModuleSeen DEF IsBool
  <2>5. QED
    BY <1>1, <2>1, <2>3, <2>4 DEF Val, Final, WithSelect, EXPR_OR
<1>3. QED
  BY <1>1, <1>2, ChoiceAssumption DEF Visibility

\* What the user answered is not looked at for a symbol that cannot be seen, nor
\* for a choice value at y.
LEMMA ValHidden ==
  ASSUME NEW s, NEW c, NEW U, NEW H, NEW V, NEW K, NEW G,
         Visibility(s, c) = no \/ (s \in ChoiceVals /\ Visibility(s, c) = yes)
  PROVE  Val(s, c, U, H, G) = Val(s, c, V, K, G)
BY DEF Val, Base

\* An answer that repeats the value of a symbol is the value it gets from then on.
LEMMA ValRepeated ==
  ASSUME DefaultsShown, NEW s \in Sym \ Choices, NEW c \in [Sym -> Tristate],
         NEW U \in [Sym -> Tristate], NEW H, NEW G, NEW K,
         c[s] = Val(s, c, U, H, G), NEW V, V[s] = c[s], s \in K
  PROVE  c[s] = Val(s, c, V, K, G)
<1>1. c[s] \in Tristate /\ U[s] \in Tristate
  OBVIOUS
<1>2. Visibility(s, c) \in Tristate
  BY VisibilityType
<1>3. CASE Visibility(s, c) = no \/ (s \in ChoiceVals /\ Visibility(s, c) = yes)
  BY <1>3, ValHidden
<1>4. CASE Visibility(s, c) # no /\ ~(s \in ChoiceVals /\ Visibility(s, c) = yes)
  <2>1. Base(s, c, U, H) \in Tristate /\ Base(s, c, U, H) <= Visibility(s, c)
    <3>1. CASE s \in H
      BY <1>1, <1>2, <1>4, <3>1 DEF Base, EXPR_AND
    <3>2. CASE s \notin H /\ s \in ChoiceVals
      <4>1. DefaultVal(s, c) = no
        BY <3>2, ChoiceValueAssumption DEF DefaultVal, VisibleDefaults
      <4>2. QED
        BY <1>2, <3>2, <4>1 DEF Base
    <3>3. CASE s \notin H /\ s \notin ChoiceVals
      <4>1. DefaultVal(s, c) \in Tristate /\ DefaultVal(s, c) <= Visibility(s, c)
        BY <1>4, <3>3, DefaultType DEF DefaultsShown
      <4>2. QED
        BY <3>3, <4>1 DEF Base
    <3>4. QED
      BY <3>1, <3>2, <3>3
  <2>2. c[s] = Final(s, Base(s, c, U, H), c)
    BY <1>4 DEF Val
  <2>3. Base(s, c, V, K) = EXPR_AND(c[s], Visibility(s, c))
    BY <1>1, <1>4 DEF Base
  <2>4. Final(s, EXPR_AND(c[s], Visibility(s, c)), c) = c[s]
    BY <1>4, <2>1, <2>2, FinalTop
  <2>5. QED
    BY <1>4, <2>3, <2>4 DEF Val
<1>5. QED
  BY <1>3, <1>4

\* An answer that changes nothing (sym_set_tristate_value() does not clear the
\* cache then) leaves the cache coherent.
LEMMA AnswerCached ==
  ASSUME DefaultsShown, IInv, Cached, NEW s \in Sym, NEW val \in Tristate,
         SetTristateValue(s, val)
  PROVE  Cached'
<1>1. /\ curr \in [Sym -> Tristate] /\ user \in [Sym -> Tristate] /\ valid \subseteq Sym
      /\ s \in valid /\ curr' = curr /\ sel' = sel /\ visible' = visible /\ revDep' = revDep
      /\ user' = [user EXCEPT ![s] = val]
  BY DEF IInv, TypeOK, SymTypeOK, SetTristateValue
<1>2. CASE curr[s] # val
  BY <1>2 DEF SetTristateValue, ClearAllValid, Cached, SymbolsFresh, Seen, Modular
<1>3. CASE curr[s] = val
  <2>1. valid' = valid /\ s \in hasUser'
    BY <1>3 DEF SetTristateValue
  <2>2. ASSUME NEW t \in valid \ Choices
        PROVE  curr[t] = Val(t, curr, user', hasUser', sel)
    <3>1. curr[t] = Val(t, curr, user, hasUser, sel) /\ t \in Sym \ Choices
      BY <1>1, NewValIs DEF Cached, SymbolsFresh
    <3>2. CASE t = s
      <4>1. /\ curr \in [Sym -> Tristate] /\ user \in [Sym -> Tristate] /\ s \in hasUser'
            /\ s \in Sym \ Choices /\ curr[s] = Val(s, curr, user, hasUser, sel)
            /\ user'[s] = curr[s]
        BY <1>1, <1>3, <2>1, <3>1, <3>2
      <4>2. QED
        BY ONLY <3>2, <4>1, DefaultsShown, ValRepeated
    <3>3. CASE t # s /\ (t \in hasUser' <=> t \in hasUser)
      <4>1. user'[t] = user[t]
        BY <1>1, <3>1, <3>3
      <4>2. QED
        BY <3>1, <3>3, <4>1, ValUses
    <3>4. CASE t # s /\ ~(t \in hasUser' <=> t \in hasUser)
      <4>1. s \in ChoiceVals /\ val = yes /\ t \in Values(ChoiceOf[s])
        BY <2>2, <3>4, StructureAssumption DEF SetTristateValue
      <4>2. s \in Sym \ Choices /\ ChoiceOf[s] \in valid /\ ChoiceOf[t] = ChoiceOf[s] /\ t \in ChoiceVals
        BY <1>1, <4>1, StructureAssumption DEF Values, IInv, Closed, Deps
      <4>3. Val(s, curr, user, hasUser, sel) = yes
        BY <1>1, <1>3, <4>1, <4>2, NewValIs DEF Cached, SymbolsFresh
      <4>4. curr[ChoiceOf[s]] = yes
        BY <1>1, <4>1, <4>2, <4>3, ChosenAtYes DEF Cached, Modular
      <4>5. Visibility(t, curr) \in {no, yes}
        BY <1>1, <3>1, <4>2, <4>4, NoModuleSeen
      <4>6. QED
        BY <3>1, <4>2, <4>5, ValHidden
    <3>5. QED
      BY <3>2, <3>3, <3>4
  <2>3. SymbolsFresh'
    <3>1. ASSUME NEW t \in valid \ Choices PROVE curr'[t] = NewVal(t, curr)'
      BY <1>1, <2>2, NewValIs
    <3>2. QED
      BY <2>1, <3>1 DEF SymbolsFresh
  <2>4. QED
    BY <1>1, <2>1, <2>3 DEF Cached, Seen, Modular
<1>4. QED
  BY <1>2, <1>3

\* The end of conf_read() forgets only answers that are not looked at.
LEMMA ReadEndCached ==
  ASSUME IInv, Cached, ReadEnd
  PROVE  Cached'
<1>1. /\ valid' = valid /\ curr' = curr /\ sel' = sel /\ visible' = visible /\ revDep' = revDep
      /\ user' = user
      /\ \A t \in Sym : (t \in hasUser' <=> t \in hasUser) \/ visible[t] = no
      /\ valid \subseteq Sym
  BY DEF ReadEnd, IInv, TypeOK, SymTypeOK
<1>2. ASSUME NEW t \in valid \ Choices PROVE curr'[t] = NewVal(t, curr)'
  <2>1. curr[t] = Val(t, curr, user, hasUser, sel)
    BY NewValIs DEF Cached, SymbolsFresh
  <2>2. Val(t, curr, user, hasUser, sel) = Val(t, curr, user, hasUser', sel)
    <3>1. CASE t \in hasUser' <=> t \in hasUser
      BY <3>1, ValUses
    <3>2. CASE visible[t] = no
      BY <3>2, ValHidden DEF Cached, Seen
    <3>3. QED
      BY <1>1, <3>1, <3>2
  <2>3. QED
    BY <1>1, <2>1, <2>2, NewValIs
<1>3. QED
  BY <1>1, <1>2 DEF Cached, SymbolsFresh, Seen, Modular

\* The values a choice at y would show, and the one it picks given the user's
\* selections W.
ShownIn(s, c) == {v \in Values(s) : Visibility(v, [c EXCEPT ![s] = yes]) # no}
PickIn(s, c, W) ==
  IF W[s] \in ShownIn(s, c) THEN W[s]
  ELSE ChoiceDefault(s, ShownIn(s, c), [c EXCEPT ![s] = yes])

\* What a choice picks depends on the symbols it reads.
LEMMA PickFrame ==
  ASSUME NEW s \in Choices, NEW c \in [Sym -> Tristate], NEW d \in [Sym -> Tristate],
         \A t \in Deps(s) : c[t] = d[t], NEW W
  PROVE  ShownIn(s, c) = ShownIn(s, d) /\ PickIn(s, c, W) = PickIn(s, d, W)
<1> DEFINE c1 == [c EXCEPT ![s] = yes]
           d1 == [d EXCEPT ![s] = yes]
<1>1. /\ s \in Sym /\ c1 \in [Sym -> Tristate] /\ d1 \in [Sym -> Tristate]
      /\ \A t \in Deps(s) \cup {s} : c1[t] = d1[t]
  <2>1. s \in Sym /\ Deps(s) \subseteq Sym
    BY StructureAssumption, AcyclicAssumption
  <2>2. QED
    BY <2>1
<1> HIDE DEF c1, d1
<1>2. VisibleDefaults(s, c1) = VisibleDefaults(s, d1)
  BY <1>1, Frame
<1>3. \A v \in Values(s) : Visibility(v, c1) = Visibility(v, d1)
  BY <1>1, ValuesFrame
<1>4. ShownIn(s, c) = ShownIn(s, d)
  BY <1>3 DEF ShownIn, c1, d1
<1>5. \A S : ChoiceDefault(s, S, c1) = ChoiceDefault(s, S, d1)
  BY <1>2 DEF ChoiceDefault
<1>6. QED
  BY <1>4, <1>5 DEF PickIn, c1, d1

\* A choice that can be at y has a value to pick.
LEMMA FinalIs ==
  ASSUME ValuesShown, SymTypeOK, NEW s \in Choices
  PROVE  /\ FinalVal(s) = Val(s, curr, user, hasUser, sel)
         /\ FinalSel(s) = IF Val(s, curr, user, hasUser, sel) = yes
                          THEN PickIn(s, curr, userSel) ELSE NoSym
<1>1. ChoiceVal(s) = Val(s, curr, user, hasUser, sel)
  BY NewValIs DEF ChoiceVal
<1>2. CASE ChoiceVal(s) = yes
  <2>1. /\ AtChoice(s) = [curr EXCEPT ![s] = yes] /\ AtChoice(s) \in [Sym -> Tristate]
        /\ AtChoice(s)[s] = yes
    BY <1>2, StructureAssumption DEF AtChoice, SymTypeOK
  <2>2. Shown(s) # {} /\ Shown(s) \in SUBSET Values(s) /\ NoSym \notin Shown(s)
    BY <2>1, StructureAssumption, ZenonT(60) DEF ValuesShown, Shown, Values
  <2>3. Pick(s) # NoSym
    <3>1. ChoiceDefault(s, Shown(s), AtChoice(s)) \in Shown(s)
      BY <2>1, <2>2, ChoiceDefaultIn
    <3>2. QED
      BY <2>2, <3>1 DEF Pick
  <2>4. Pick(s) = PickIn(s, curr, userSel)
    BY <2>1 DEF Pick, PickIn, Shown, ShownIn
  <2>5. QED
    BY <1>1, <1>2, <2>3, <2>4 DEF FinalVal, FinalSel
<1>3. QED
  BY <1>1, <1>2 DEF FinalVal, FinalSel

\* A valid choice has the value its answer gives it, or, where there is no answer,
\* the value it gets without: no other than an answer would give that repeats it.
Held ==
  \A c \in valid \cap Choices :
    /\ \/ curr[c] = Val(c, curr, user, {c}, sel)
       \/ c \notin hasUser /\ curr[c] = Val(c, curr, user, {}, sel)
    /\ sel[c] = IF curr[c] = yes THEN PickIn(c, curr, userSel) ELSE NoSym

\* Whether a choice is looked at again or not, it holds what is stored in it.
LEMMA StoreHeld ==
  ASSUME ValuesShown, IInv, Held, NEW s \in Choices, s \notin valid, Deps(s) \subseteq valid,
         StoreChoice(s), valid' = valid \cup {s} \/ valid' = valid, userSel' = userSel,
         \A t \in Choices : user'[t] = user[t],
         \A t \in Choices : t # s => (t \in hasUser' <=> t \in hasUser),
         valid' = valid \/ (s \in hasUser' => s \in hasUser)
  PROVE  Held'
<1> DEFINE x == Val(s, curr, user, hasUser, sel)
<1>1. /\ SymTypeOK /\ curr \in [Sym -> Tristate] /\ s \in Sym /\ s \notin ChoiceVals
      /\ Choices \subseteq Sym /\ Choices \cap ChoiceVals = {} /\ valid \subseteq Sym
  BY StructureAssumption DEF IInv, TypeOK, SymTypeOK
<1>2. /\ curr' = [curr EXCEPT ![s] = x]
      /\ sel' = [sel EXCEPT ![s] = IF x = yes THEN PickIn(s, curr, userSel) ELSE NoSym]
  BY <1>1, FinalIs DEF StoreChoice
<1>3. x \in Tristate
  BY <1>1, StoreType, FinalIs
<1>4. curr' \in [Sym -> Tristate] /\ sel' \in [Choices -> ChoiceVals \cup {NoSym}]
  BY <1>1, StoreType
<1> HIDE DEF x
<1>5. ASSUME NEW t \in Choices, Deps(t) \subseteq valid
      PROVE  /\ \A H : Val(t, curr', user', H, sel') = Val(t, curr, user, H, sel)
             /\ PickIn(t, curr', userSel') = PickIn(t, curr, userSel)
  <2>1. \A r \in Deps(t) : curr'[r] = curr[r]
    BY <1>1, <1>2, <1>5
  <2>2. PickIn(t, curr', userSel) = PickIn(t, curr, userSel)
    BY ONLY <1>1, <1>4, <2>1, PickFrame, t \in Choices
  <2>3. ASSUME NEW H PROVE Val(t, curr', user', H, sel') = Val(t, curr, user, H, sel)
    <3>1. Val(t, curr', user', H, sel') = Val(t, curr, user', H, sel')
      BY <1>1, <1>4, <2>1, ValFrame
    <3>2. Val(t, curr, user', H, sel') = Val(t, curr, user, H, sel)
      BY <1>1, ValUses
    <3>3. QED
      BY <3>1, <3>2
  <2>4. QED
    BY <2>2, <2>3
<1>6. ASSUME NEW t \in (valid \cap Choices)'
      PROVE  /\ \/ curr'[t] = Val(t, curr', user', {t}, sel')
                \/ t \notin hasUser' /\ curr'[t] = Val(t, curr', user', {}, sel')
             /\ sel'[t] = IF curr'[t] = yes THEN PickIn(t, curr', userSel') ELSE NoSym
  <2>1. CASE t = s
    <3>1. x = IF s \in hasUser THEN Val(s, curr, user, {s}, sel) ELSE Val(s, curr, user, {}, sel)
      BY <1>1, ValUses DEF x
    <3>2. curr'[s] = x /\ sel'[s] = IF x = yes THEN PickIn(s, curr, userSel) ELSE NoSym
      BY <1>1, <1>2 DEF SymTypeOK
    <3>3. s \notin hasUser => s \notin hasUser'
      BY <1>6, <2>1
    <3>4. QED
      BY <1>5, <2>1, <3>1, <3>2, <3>3
  <2>2. CASE t # s
    <3>1. /\ t \in valid \cap Choices /\ curr'[t] = curr[t] /\ sel'[t] = sel[t]
          /\ t \in hasUser' <=> t \in hasUser
      BY <1>1, <1>2, <1>6, <2>2 DEF SymTypeOK
    <3>2. Deps(t) \subseteq valid
      BY <3>1 DEF IInv, Closed
    <3>3. QED
      BY <1>5, <3>1, <3>2 DEF Held
  <2>3. QED
    BY <2>1, <2>2
<1>7. QED
  BY <1>6 DEF Held

LEMMA CalcChoiceHeld ==
  ASSUME ValuesShown, IInv, Held, NEW s \in Sym, CalcChoice(s)
  PROVE  Held'
<1>1. /\ \A t \in Choices : t # s => (t \in hasUser' <=> t \in hasUser)
      /\ s \in hasUser' => s \in hasUser
  BY DEF CalcChoice
<1>2. QED
  BY <1>1, StoreHeld DEF CalcChoice

LEMMA SetAllHeld ==
  ASSUME ValuesShown, IInv, Held, NEW s \in Choices, SetAllChoiceValues(s)
  PROVE  Held'
<1>1. /\ \A t \in Choices : t # s => (t \in hasUser' <=> t \in hasUser)
      /\ \A t \in Choices : user'[t] = user[t]
  BY StructureAssumption DEF SetAllChoiceValues, Values
<1>2. QED
  BY <1>1, StoreHeld DEF SetAllChoiceValues

\* Another symbol that gets its value leaves the choices alone.
LEMMA CalcSymHeld ==
  ASSUME IInv, Held, NEW s \in Sym, CalcSym(s)
  PROVE  Held'
<1>1. /\ curr \in [Sym -> Tristate] /\ s \notin Choices /\ s \notin valid /\ valid \subseteq Sym
      /\ valid' = valid \cup {s} /\ UNCHANGED <<sel, user, userSel, hasUser>>
      /\ Choices \subseteq Sym /\ Choices \cap ChoiceVals = {}
  BY StructureAssumption DEF IInv, TypeOK, SymTypeOK, CalcSym
<1>2. curr' \in [Sym -> Tristate] /\ \A t \in valid : curr'[t] = curr[t]
  <2>1. View(s) \in [Sym -> Tristate]
    BY DEF View, IInv, TypeOK, SymTypeOK
  <2>2. NewValAt(s, Visibility(s, View(s)), curr) \in Tristate
    BY <2>1, NewValType, VisibilityType DEF IInv, TypeOK, SymTypeOK
  <2>3. QED
    BY <1>1, <2>2 DEF CalcSym
<1>3. ASSUME NEW t \in valid \cap Choices
      PROVE  /\ curr'[t] = curr[t]
             /\ \A H : Val(t, curr', user', H, sel') = Val(t, curr, user, H, sel)
             /\ PickIn(t, curr', userSel') = PickIn(t, curr, userSel)
  <2>1. \A r \in Deps(t) : curr'[r] = curr[r]
    BY <1>2, <1>3 DEF IInv, Closed
  <2>2. QED
    BY <1>1, <1>2, <2>1, ValFrame, PickFrame
<1>4. QED
  BY <1>1, <1>3 DEF Held

\* A step that clears the cache, or that touches neither it nor an answer, leaves
\* it coherent.
LEMMA KeepCached ==
  ASSUME Cached,
         valid' = {} \/ UNCHANGED <<valid, curr, sel, visible, revDep, user, hasUser>>
  PROVE  Cached'
<1>1. CASE valid' = {}
  BY <1>1 DEF Cached, SymbolsFresh, Seen, Modular
<1>2. CASE UNCHANGED <<valid, curr, sel, visible, revDep, user, hasUser>>
  <2>1. \A t : NewVal(t, curr)' = NewVal(t, curr)
    BY <1>2, NewValIs
  <2>2. QED
    BY <1>2, <2>1 DEF Cached, SymbolsFresh, Seen, Modular
<1>3. QED
  BY <1>1, <1>2

\* A step that clears the cache, or that touches neither it nor what was chosen and
\* at most forgets that it was, leaves the choices with what they hold.
LEMMA KeepHeld ==
  ASSUME Held,
         \/ valid' = {}
         \/ hasUser' \subseteq hasUser /\ UNCHANGED <<valid, curr, sel, user, userSel>>
  PROVE  Held'
BY DEF Held, Val, Base

\* An answer that repeats the value of a choice is the value it gets from then on.
LEMMA ChoiceRepeated ==
  ASSUME NEW s \in Choices, NEW c \in [Sym -> Tristate], NEW U \in [Sym -> Tristate],
         NEW H, NEW G, c[s] = Val(s, c, U, H, G), NEW V, V[s] = c[s]
  PROVE  c[s] = Val(s, c, V, {s}, G)
<1>1. s \in Sym /\ s \notin ChoiceVals /\ c[s] \in Tristate /\ Visibility(s, c) \in Tristate
  BY StructureAssumption, VisibilityType
<1>2. CASE Visibility(s, c) = no
  BY <1>2, ValHidden
<1>3. CASE Visibility(s, c) # no
  <2>1. Base(s, c, U, H) \in Tristate /\ Base(s, c, U, H) <= Visibility(s, c)
    BY <1>1 DEF Base, EXPR_AND
  <2>2. c[s] = Final(s, Base(s, c, U, H), c)
    BY <1>1 DEF Val
  <2>3. Base(s, c, V, {s}) = EXPR_AND(c[s], Visibility(s, c))
    BY <1>1, <1>3 DEF Base
  <2>4. Final(s, EXPR_AND(c[s], Visibility(s, c)), c) = c[s]
    BY <1>1, <1>3, <2>1, <2>2, FinalTop
  <2>5. QED
    BY <1>1, <2>3, <2>4 DEF Val
<1>4. QED
  BY <1>2, <1>3

\* A choice at y without an answer is at y with any.
LEMMA ChoiceAtYes ==
  ASSUME NEW s \in Choices, NEW c \in [Sym -> Tristate], NEW U \in [Sym -> Tristate],
         NEW G, c[s] = yes,
         c[s] = Val(s, c, U, {s}, G) \/ c[s] = Val(s, c, U, {}, G)
  PROVE  c[s] = Val(s, c, U, {s}, G)
<1>1. /\ s \in Sym /\ s \notin ChoiceVals /\ DirDepVal(s, c) \in Tristate
      /\ RevDepVal(s, c) \in Tristate /\ Visibility(s, c) \in Tristate
  BY StructureAssumption, VisibilityType
<1>2. Base(s, c, U, {}) = no /\ Base(s, c, U, {s}) \in Tristate
  BY <1>1 DEF Base, EXPR_AND
<1>3. RevDepVal(s, c) = mod => ~IsBool(s, Visibility(s, c))
  BY DEF RevDepVal, RevDepAt
<1>4. Final(s, no, c) = yes => Final(s, Base(s, c, U, {s}), c) = yes
  BY <1>1, <1>2, <1>3 DEF Final, WithSelect, EXPR_OR
<1>5. QED
  BY <1>1, <1>2, <1>4 DEF Val

\* Every step of the configuration tools leaves the cache coherent.
LEMMA NextCached ==
  ASSUME DefaultsShown, ValuesOnly, IInv, Cached, [DefNext]_<<vars, defVars>>
  PROVE  Cached'
<1>1. ASSUME NEW what, ReadBegin(what) PROVE Cached'
  BY <1>1, KeepCached DEF ReadBegin
<1>2. CASE ReadEnd
  BY <1>2, ReadEndCached
<1>3. CASE WriteBegin
  BY <1>3, KeepCached DEF WriteBegin, ClearAllValid
<1>4. CASE WriteEnd
  BY <1>4, KeepCached DEF WriteEnd
<1>5. CASE Exit
  BY <1>5, KeepCached DEF Exit, Restart
<1>6. ASSUME NEW s \in Sym, Calc(s) PROVE Cached'
  BY <1>6, CalcSymIs, CalcSymCached, CalcChoiceCached DEF Calc
<1>7. ASSUME NEW s \in Sym, Answer(s) PROVE Cached'
  BY <1>7, AnswerIs, AnswerCached
<1>8. ASSUME NEW answer, AnswerAll(answer) PROVE Cached'
  BY <1>8, KeepCached DEF AnswerAll, SetAllNewSymbols, ClearAllValid
<1>9. CASE MinimizeBegin
  BY <1>9, KeepCached DEF MinimizeBegin, ClearAllValid
<1>10. CASE MinimizeEnd
  BY <1>10, KeepCached DEF MinimizeEnd, Restart
<1>11. CASE ReadDefconfig
  BY <1>11, KeepCached DEF ReadDefconfig, symVars
<1>12. CASE UNCHANGED <<vars, defVars>>
  BY <1>12, KeepCached DEF vars, symVars
<1>14. ASSUME NEW c \in Choices, AnswerChoice(c) PROVE Cached'
  BY <1>14, SetAllCached DEF AnswerChoice
<1>13. QED
  BY <1>1, <1>2, <1>3, <1>4, <1>5, <1>6, <1>7, <1>8, <1>9, <1>10, <1>11, <1>12, <1>14
     DEF DefNext, Others, Next

\* An answer that changes nothing is the value its choice has anyway.
LEMMA AnswerHeld ==
  ASSUME IInv, Cached, Held, NEW s \in Sym, NEW val \in Tristate, SetTristateValue(s, val)
  PROVE  Held'
<1>1. /\ curr \in [Sym -> Tristate] /\ user \in [Sym -> Tristate] /\ valid \subseteq Sym
      /\ userSel \in [Choices -> ChoiceVals \cup {NoSym}]
      /\ s \in valid /\ curr' = curr /\ sel' = sel
      /\ user' = [user EXCEPT ![s] = val]
      /\ Choices \subseteq Sym /\ Choices \cap ChoiceVals = {}
  BY StructureAssumption DEF IInv, TypeOK, SymTypeOK, SetTristateValue
<1>2. CASE curr[s] # val
  BY <1>2 DEF SetTristateValue, ClearAllValid, Held
<1>3. CASE curr[s] = val
  <2>0. valid' = valid
    BY <1>3 DEF SetTristateValue
  <2>1. CASE s \in Choices
    <3>1. hasUser' = hasUser \cup {s} /\ userSel' = userSel
      BY <1>1, <2>1 DEF SetTristateValue
    <3>2. ASSUME NEW t \in valid \cap Choices, t # s
          PROVE  \A H : Val(t, curr, user', H, sel) = Val(t, curr, user, H, sel)
      <4>1. user'[t] = user[t] /\ t \notin ChoiceVals
        BY <1>1, <3>2
      <4>2. QED
        BY <4>1, ValUses
    <3>3. curr[s] = Val(s, curr, user', {s}, sel)
      <4>1. /\ user'[s] = curr[s] /\ s \in Choices
            /\ curr[s] = Val(s, curr, user, {s}, sel) \/ curr[s] = Val(s, curr, user, {}, sel)
        BY <1>1, <1>3, <2>1 DEF Held
      <4>2. ASSUME NEW H, curr[s] = Val(s, curr, user, H, sel)
            PROVE  curr[s] = Val(s, curr, user', {s}, sel)
        <5>1. curr \in [Sym -> Tristate] /\ user \in [Sym -> Tristate]
          BY <1>1
        <5>2. QED
          BY ONLY <4>1, <4>2, <5>1, ChoiceRepeated
      <4>3. QED
        BY <4>1, <4>2
    <3>4. QED
      BY <1>1, <2>0, <3>1, <3>2, <3>3, ZenonT(60) DEF Held
  <2>2. CASE s \in ChoiceVals /\ val = yes
    <3> DEFINE c == ChoiceOf[s]
    <3>1. /\ c \in valid \cap Choices /\ s \in Values(c) \cap valid
          /\ userSel' = [userSel EXCEPT ![c] = s]
          /\ \A t \in Choices : t # c => (t \in hasUser' <=> t \in hasUser)
      BY <1>1, <2>2, StructureAssumption DEF SetTristateValue, Values, IInv, Closed, Deps
    <3>2. curr[s] = Val(s, curr, user, hasUser, sel)
      BY <1>1, <2>2, StructureAssumption, NewValIs DEF Cached, SymbolsFresh
    <3>3. Visibility(s, curr) = yes /\ curr[c] = yes
      BY <1>1, <1>3, <2>2, <3>1, <3>2, ChosenAtYes DEF Cached, Modular
    <3>4. sel[c] = s
      BY <1>3, <2>2, <3>1, <3>3 DEF IInv, Chosen
    <3> HIDE DEF c
    <3>5. [curr EXCEPT ![c] = yes] = curr
      BY <1>1, <3>1, <3>3
    <3>6. PickIn(c, curr, userSel') = s
      <4>1. userSel'[c] = s
        BY <1>1, <3>1
      <4>2. s \in ShownIn(c, curr)
        BY <3>1, <3>3, <3>5 DEF ShownIn
      <4>3. QED
        BY <4>1, <4>2 DEF PickIn
    <3>7. \A t \in Choices : t # c => PickIn(t, curr, userSel') = PickIn(t, curr, userSel)
      BY <1>1, <3>1 DEF PickIn
    <3>8. ASSUME NEW t \in valid \cap Choices
          PROVE  \A H : Val(t, curr, user', H, sel) = Val(t, curr, user, H, sel)
      <4>1. user'[t] = user[t] /\ t \notin ChoiceVals
        BY <1>1, <2>2, <3>8
      <4>2. QED
        BY <4>1, ValUses
    <3>9. curr[c] = Val(c, curr, user, {c}, sel)
      BY <1>1, <3>1, <3>3, ChoiceAtYes DEF Held
    <3>10. ASSUME NEW t \in valid \cap Choices, t # c
           PROVE  /\ t \in hasUser' <=> t \in hasUser
                  /\ PickIn(t, curr, userSel') = PickIn(t, curr, userSel)
      BY <3>1, <3>7, <3>10
    <3>11. ASSUME NEW t \in valid \cap Choices
           PROVE  /\ \/ curr[t] = Val(t, curr, user', {t}, sel)
                     \/ t \notin hasUser' /\ curr[t] = Val(t, curr, user', {}, sel)
                  /\ sel[t] = IF curr[t] = yes THEN PickIn(t, curr, userSel') ELSE NoSym
      <4>1. CASE t = c
        BY <3>3, <3>4, <3>6, <3>8, <3>9, <4>1
      <4>2. CASE t # c
        BY <3>8, <3>10, <4>2 DEF Held
      <4>3. QED
        BY <4>1, <4>2
    <3>12. QED
      BY <1>1, <2>0, <3>11 DEF Held
  <2>3. CASE s \notin Choices /\ ~(s \in ChoiceVals /\ val = yes)
    <3>1. hasUser' = hasUser \cup {s} /\ userSel' = userSel
      BY <2>3 DEF SetTristateValue
    <3>2. ASSUME NEW t \in valid \cap Choices
          PROVE  \A H : Val(t, curr, user', H, sel) = Val(t, curr, user, H, sel)
      <4>1. user'[t] = user[t] /\ t \notin ChoiceVals
        BY <1>1, <2>3, <3>2
      <4>2. QED
        BY <4>1, ValUses
    <3>3. QED
      <4>1. \A t \in Choices : t \in hasUser' <=> t \in hasUser
        BY <2>3, <3>1
      <4>2. QED
        BY <1>1, <2>0, <3>1, <3>2, <4>1 DEF Held
  <2>4. QED
    BY <2>1, <2>2, <2>3
<1>4. QED
  BY <1>2, <1>3

\* Every step of the configuration tools leaves the choices with what they hold.
LEMMA NextHeld ==
  ASSUME ValuesShown, IInv, Cached, Held, [DefNext]_<<vars, defVars>>
  PROVE  Held'
<1>1. ASSUME NEW what, ReadBegin(what) PROVE Held'
  BY <1>1 DEF ReadBegin, Held
<1>2. CASE ReadEnd
  <2>1. /\ hasUser' \subseteq hasUser
        /\ UNCHANGED <<curr, sel, valid, user, userSel>>
    BY <1>2 DEF ReadEnd
  <2>2. QED
    BY <2>1, KeepHeld
<1>3. CASE WriteBegin
  BY <1>3, KeepHeld DEF WriteBegin, ClearAllValid
<1>4. CASE WriteEnd
  BY <1>4, KeepHeld DEF WriteEnd
<1>5. CASE Exit
  BY <1>5, KeepHeld DEF Exit, Restart
<1>6. ASSUME NEW s \in Sym, Calc(s) PROVE Held'
  BY <1>6, CalcSymHeld, CalcChoiceHeld DEF Calc
<1>7. ASSUME NEW s \in Sym, Answer(s) PROVE Held'
  BY <1>7, AnswerIs, AnswerHeld
<1>8. ASSUME NEW answer, AnswerAll(answer) PROVE Held'
  BY <1>8, KeepHeld DEF AnswerAll, SetAllNewSymbols, ClearAllValid
<1>9. ASSUME NEW c \in Choices, AnswerChoice(c) PROVE Held'
  BY <1>9, SetAllHeld DEF AnswerChoice
<1>10. CASE MinimizeBegin
  BY <1>10, KeepHeld DEF MinimizeBegin, ClearAllValid
<1>11. CASE MinimizeEnd
  BY <1>11, KeepHeld DEF MinimizeEnd, Restart
<1>12. CASE ReadDefconfig
  BY <1>12, KeepHeld DEF ReadDefconfig, symVars
<1>13. CASE UNCHANGED <<vars, defVars>>
  BY <1>13, KeepHeld DEF vars, symVars
<1>14. QED
  BY <1>1, <1>2, <1>3, <1>4, <1>5, <1>6, <1>7, <1>8, <1>9, <1>10, <1>11, <1>12, <1>13
     DEF DefNext, Others, Next

\* What is fresh and held is coherent.
LEMMA CoherentIs ==
  ASSUME ValuesOnly, ValuesShown, IInv, Cached, Held
  PROVE  CacheCoherent
<1>1. ASSUME NEW s \in valid \ Choices
      PROVE  LET seen == IF s \in ChoiceVals THEN curr ELSE View(s)
             IN  curr[s] = NewValAt(s, Visibility(s, seen), curr)
  <2>1. View(s) = curr /\ curr[s] = NewVal(s, curr)
    BY <1>1, ViewIs DEF IInv, TypeOK, SymTypeOK, Cached, SymbolsFresh
  <2>2. QED
    BY <2>1 DEF NewVal
<1>2. ASSUME NEW c \in valid \cap Choices \cap hasUser
      PROVE  curr[c] = FinalVal(c) /\ sel[c] = FinalSel(c)
  <2>1. Val(c, curr, user, {c}, sel) = Val(c, curr, user, hasUser, sel)
    BY StructureAssumption, ValUses
  <2>2. QED
    BY <2>1, FinalIs DEF Held, IInv, TypeOK
<1>3. QED
  BY <1>1, <1>2 DEF CacheCoherent

\* sym_calc_value() trusts SYMBOL_VALID (symbol.c:346): no valid value is stale, in
\* whatever order symbols are read, answered, computed and written, for every menu
\* whose defaults can be answered, whose choices at y have a value to show and whose
\* tristate choices hold nothing but their values.
THEOREM Coherence ==
  DefaultsShown /\ ValuesShown /\ ValuesOnly => (DefSpec => []CacheCoherent)
<1> SUFFICES ASSUME DefaultsShown, ValuesShown, ValuesOnly PROVE DefSpec => []CacheCoherent
  OBVIOUS
<1>1. DefInit => Cached /\ Held
  BY DEF DefInit, Init, Fresh, Cached, SymbolsFresh, Seen, Modular, Held
<1>2. IInv /\ Cached /\ Held /\ [DefNext]_<<vars, defVars>> => Cached' /\ Held'
  BY NextCached, NextHeld
<1>3. IInv /\ Cached /\ Held => CacheCoherent
  BY CoherentIs
<1>4. QED
  BY <1>1, <1>2, <1>3, Invariance, PTL DEF DefSpec

-----------------------------------------------------------------------------
(* Answers.                                                                *)

\* What sym_calc_value() makes of a bool choice.
Selected(s, c, W) == IF Final(s, no, c) = yes THEN PickIn(s, c, W) ELSE NoSym
ChoiceIs(s, c) ==
  IF Final(s, no, c) = yes /\ ShownIn(s, c) = {} THEN no ELSE Final(s, no, c)

\* The value of any symbol once the choices have picked theirs.
Recalc(s, c, U, H, W) ==
  IF s \in Choices THEN ChoiceIs(s, c)
  ELSE Val(s, c, U, H, [t \in Choices |-> Selected(t, c, W)])

\* A bool choice is what its prompt and its selects make it, whatever was answered.
LEMMA FinalOfBoolChoice ==
  ASSUME BoolChoices, NEW s \in Choices, NEW c \in [Sym -> Tristate],
         NEW b \in Tristate, b <= Visibility(s, c)
  PROVE  /\ Final(s, b, c) = Final(s, no, c)
         /\ Visibility(s, c) # no => RevDepVal(s, c) = yes
<1>1. /\ s \in Sym \ ChoiceVals /\ Type[s] = "bool"
      /\ Visibility(s, c) \in Tristate /\ RevDepVal(s, c) \in Tristate
      /\ DirDepVal(s, c) \in Tristate /\ ExprVal(RevDep[s], c) \in Tristate
  BY StructureAssumption, VisibilityType, ExprAssumption DEF BoolChoices
<1>2. ASSUME Visibility(s, c) # no PROVE RevDepVal(s, c) = yes
  <2>1. ExprVal(Prompt[s], c) # no
    BY <1>2 DEF Visibility
  <2>2. ExprVal(RevDep[s], c) # no
    BY <2>1, ChoiceAssumption
  <2>3. QED
    BY <1>1, <2>2 DEF RevDepVal, RevDepAt, IsBool
<1>3. CASE Visibility(s, c) = no
  <2>1. b = no
    BY <1>3
  <2>2. QED
    BY <1>3, <2>1
<1>4. CASE Visibility(s, c) # no
  <2>1. DirDepVal(s, c) = yes
    BY <1>1, <1>4, SeenDir
  <2>2. QED
    BY <1>1, <1>2, <1>4, <2>1 DEF Final, WithSelect, EXPR_OR
<1>5. QED
  BY <1>2, <1>3, <1>4

\* So does what a bool choice becomes.
LEMMA ChoiceFrame ==
  ASSUME NEW s \in Choices, NEW c \in [Sym -> Tristate], NEW d \in [Sym -> Tristate],
         \A t \in Deps(s) : c[t] = d[t], NEW W
  PROVE  /\ ShownIn(s, c) = ShownIn(s, d)
         /\ Selected(s, c, W) = Selected(s, d, W)
         /\ ChoiceIs(s, c) = ChoiceIs(s, d)
<1>1. ShownIn(s, c) = ShownIn(s, d) /\ PickIn(s, c, W) = PickIn(s, d, W)
  BY PickFrame
<1>2. s \in Sym
  BY StructureAssumption
<1>3. Final(s, no, c) = Final(s, no, d)
  BY <1>2, Frame
<1>4. QED
  BY <1>1, <1>3 DEF Selected, ChoiceIs

\* The value of any symbol depends on the symbols below it.
LEMMA RecalcFrame ==
  ASSUME NEW s \in Sym, NEW c \in [Sym -> Tristate], NEW d \in [Sym -> Tristate],
         NEW D \in SUBSET Sym, Deps(s) \subseteq D, \A t \in D : Deps(t) \subseteq D,
         \A t \in D : c[t] = d[t], NEW U, NEW H, NEW W
  PROVE  Recalc(s, c, U, H, W) = Recalc(s, d, U, H, W)
<1> DEFINE G == [t \in Choices |-> Selected(t, c, W)]
           F == [t \in Choices |-> Selected(t, d, W)]
<1>1. \A t \in Deps(s) : c[t] = d[t]
  OBVIOUS
<1>2. CASE s \in Choices
  BY <1>1, <1>2, ChoiceFrame DEF Recalc
<1>3. CASE s \notin Choices
  <2>1. Val(s, c, U, H, G) = Val(s, d, U, H, G)
    BY <1>1, ValFrame
  <2>2. s \in ChoiceVals => G[ChoiceOf[s]] = F[ChoiceOf[s]]
    <3>1. SUFFICES ASSUME s \in ChoiceVals PROVE G[ChoiceOf[s]] = F[ChoiceOf[s]]
      OBVIOUS
    <3>2. ChoiceOf[s] \in Choices /\ ChoiceOf[s] \in D
      BY <3>1, StructureAssumption DEF Deps
    <3>3. \A t \in Deps(ChoiceOf[s]) : c[t] = d[t]
      BY <3>2
    <3>4. Selected(ChoiceOf[s], c, W) = Selected(ChoiceOf[s], d, W)
      BY <3>2, <3>3, ChoiceFrame
    <3>5. QED
      BY <3>2, <3>4
  <2> HIDE DEF G, F
  <2>3. Val(s, d, U, H, G) = Val(s, d, U, H, F)
    BY <2>2, ValUses
  <2>4. QED
    BY <1>3, <2>1, <2>3 DEF Recalc, G, F
<1>4. QED
  BY <1>2, <1>3

\* ... and only on what the user answered about it.
LEMMA RecalcUses ==
  ASSUME NEW s \in Sym, NEW c, NEW U, NEW H, NEW W, NEW V, NEW K, NEW X,
         s \notin Choices => (s \in H <=> s \in K) /\ (s \in H => U[s] = V[s]),
         s \in ChoiceVals => W[ChoiceOf[s]] = X[ChoiceOf[s]]
  PROVE  Recalc(s, c, U, H, W) = Recalc(s, c, V, K, X)
<1>1. CASE s \in Choices
  BY <1>1 DEF Recalc
<1>2. CASE s \notin Choices
  <2> DEFINE G == [t \in Choices |-> Selected(t, c, W)]
             F == [t \in Choices |-> Selected(t, c, X)]
  <2>1. s \in ChoiceVals => G[ChoiceOf[s]] = F[ChoiceOf[s]]
    BY StructureAssumption DEF Selected, PickIn
  <2> HIDE DEF G, F
  <2>2. Val(s, c, U, H, G) = Val(s, c, V, K, F)
    BY <1>2, <2>1, ValUses
  <2>3. QED
    BY <1>2, <2>2 DEF Recalc, G, F
<1>3. QED
  BY <1>1, <1>2

\* What a choice picks is one of the values it shows.
LEMMA SelectedShown ==
  ASSUME NEW s \in Choices, NEW c \in [Sym -> Tristate], NEW W, Final(s, no, c) = yes
  PROVE  /\ ShownIn(s, c) # {} => Selected(s, c, W) \in ShownIn(s, c)
         /\ ShownIn(s, c) = {} => Selected(s, c, W) = NoSym
         /\ Selected(s, c, W) = NoSym => ShownIn(s, c) = {}
<1>1. /\ [c EXCEPT ![s] = yes] \in [Sym -> Tristate] /\ ShownIn(s, c) \in SUBSET Values(s)
      /\ NoSym \notin Values(s)
  BY StructureAssumption DEF ShownIn, Values
<1>2. /\ ShownIn(s, c) = {} => ChoiceDefault(s, ShownIn(s, c), [c EXCEPT ![s] = yes]) = NoSym
      /\ ShownIn(s, c) # {} => ChoiceDefault(s, ShownIn(s, c), [c EXCEPT ![s] = yes]) \in ShownIn(s, c)
  BY <1>1, ChoiceDefaultIn
<1>3. QED
  BY <1>1, <1>2 DEF Selected, PickIn

\* The valid choices have picked what they would pick now.
Picked ==
  \A s \in Choices \cap valid :
    sel[s] = Selected(s, curr, userSel) /\ curr[s] = ChoiceIs(s, curr)

\* What is stored for a choice is what it picks.
LEMMA StoreIs ==
  ASSUME BoolChoices, IInv, NEW s \in Choices, StoreChoice(s)
  PROVE  /\ sel' = [sel EXCEPT ![s] = Selected(s, curr, userSel)]
         /\ curr' = [curr EXCEPT ![s] = ChoiceIs(s, curr)]
         /\ NewVal(s, curr) = Final(s, no, curr)
<1>1. /\ s \in Sym \ ChoiceVals /\ curr \in [Sym -> Tristate]
      /\ user \in [Sym -> Tristate] /\ Visibility(s, curr) \in Tristate
  BY StructureAssumption, VisibilityType DEF IInv, TypeOK, SymTypeOK
<1>2. Base(s, curr, user, hasUser) \in Tristate
      /\ Base(s, curr, user, hasUser) <= Visibility(s, curr)
  BY <1>1 DEF Base, EXPR_AND
<1>3. NewVal(s, curr) = Final(s, no, curr)
  <2>1. NewVal(s, curr) = Final(s, Base(s, curr, user, hasUser), curr)
    BY <1>1, NewValIs DEF Val
  <2>2. QED
    BY <1>1, <1>2, <2>1, FinalOfBoolChoice
<1>4. ChoiceVal(s) = Final(s, no, curr)
  BY <1>3 DEF ChoiceVal
<1>5. FinalSel(s) = Selected(s, curr, userSel) /\ FinalVal(s) = ChoiceIs(s, curr)
  <2>1. CASE ChoiceVal(s) = yes
    <3>1. AtChoice(s) = [curr EXCEPT ![s] = yes] /\ Shown(s) = ShownIn(s, curr)
      BY <2>1 DEF AtChoice, Shown, ShownIn
    <3>2. Pick(s) = Selected(s, curr, userSel)
      BY <1>4, <2>1, <3>1 DEF Selected, Pick, PickIn
    <3>3. Pick(s) = NoSym <=> ShownIn(s, curr) = {}
      BY <1>1, <1>4, <2>1, <3>2, SelectedShown
    <3>4. QED
      BY <1>4, <2>1, <3>2, <3>3 DEF FinalSel, FinalVal, ChoiceIs
  <2>2. CASE ChoiceVal(s) # yes
    BY <1>4, <2>2 DEF FinalSel, FinalVal, ChoiceIs, Selected
  <2>3. QED
    BY <2>1, <2>2
<1>6. QED
  BY <1>3, <1>5 DEF StoreChoice

\* sym_calc_value() of a choice picks.
LEMMA CalcChoiceIs ==
  ASSUME BoolChoices, IInv, NEW s \in Sym, CalcChoice(s)
  PROVE  /\ s \in Choices /\ sel' = [sel EXCEPT ![s] = Selected(s, curr, userSel)]
         /\ curr' = [curr EXCEPT ![s] = ChoiceIs(s, curr)]
         /\ NewVal(s, curr) = Final(s, no, curr)
BY StoreIs DEF CalcChoice

\* A computation gives a symbol the value it would get now.
LEMMA CalcIsRecalc ==
  ASSUME BoolChoices, IInv, Picked, NEW s \in Sym, CalcSymPlain(s) \/ CalcChoice(s)
  PROVE  curr' = [curr EXCEPT ![s] = Recalc(s, curr, user, hasUser, userSel)]
<1>1. CASE CalcChoice(s)
  BY <1>1, CalcChoiceIs DEF Recalc
<1>2. CASE CalcSymPlain(s)
  <2> DEFINE G == [t \in Choices |-> Selected(t, curr, userSel)]
  <2>1. s \notin Choices /\ Deps(s) \subseteq valid
    BY <1>2 DEF CalcSymPlain
  <2>2. s \in ChoiceVals => sel[ChoiceOf[s]] = G[ChoiceOf[s]]
    BY <2>1, StructureAssumption DEF Deps, Picked
  <2> HIDE DEF G
  <2>3. Val(s, curr, user, hasUser, sel) = Val(s, curr, user, hasUser, G)
    BY <2>2, ValUses
  <2>4. NewVal(s, curr) = Recalc(s, curr, user, hasUser, userSel)
    BY <2>1, <2>3, NewValIs DEF Recalc, G
  <2>5. QED
    BY <1>2, <2>4 DEF CalcSymPlain
<1>3. QED
  BY <1>1, <1>2

\* A valid symbol has the value it would get now.
LEMMA ValidSettled ==
  ASSUME IInv, Cached, Picked, NEW s \in valid
  PROVE  curr[s] = Recalc(s, curr, user, hasUser, userSel)
<1>1. s \in Sym /\ Deps(s) \subseteq valid
  BY DEF IInv, TypeOK, SymTypeOK, Closed
<1>2. CASE s \in Choices
  BY <1>2 DEF Picked, Recalc
<1>3. CASE s \notin Choices
  <2> DEFINE G == [t \in Choices |-> Selected(t, curr, userSel)]
  <2>1. curr[s] = Val(s, curr, user, hasUser, sel)
    BY <1>3, NewValIs DEF Cached, SymbolsFresh
  <2>2. s \in ChoiceVals => sel[ChoiceOf[s]] = G[ChoiceOf[s]]
    BY <1>1, StructureAssumption DEF Deps, Picked
  <2> HIDE DEF G
  <2>3. Val(s, curr, user, hasUser, sel) = Val(s, curr, user, hasUser, G)
    BY <2>2, ValUses
  <2>4. QED
    BY <1>3, <2>1, <2>3 DEF Recalc, G
<1>4. QED
  BY <1>2, <1>3

\* A choice that was valid picks the same after another computation.
LEMMA CalcPicked ==
  ASSUME BoolChoices, IInv, Picked, NEW s \in Sym, CalcSymPlain(s) \/ CalcChoice(s)
  PROVE  Picked'
<1>1. /\ curr \in [Sym -> Tristate] /\ user \in [Sym -> Tristate]
      /\ sel \in [Choices -> ChoiceVals \cup {NoSym}]
      /\ s \in Sym \ valid /\ valid' = valid \cup {s} /\ userSel' = userSel
      /\ Deps(s) \subseteq valid /\ valid \subseteq Sym
  BY DEF IInv, TypeOK, SymTypeOK, CalcSymPlain, CalcChoice, StoreChoice
<1>2. NewVal(s, curr) \in Tristate
  BY <1>1, NewValType
<1>3. PICK x \in Tristate : curr' = [curr EXCEPT ![s] = x]
  BY <1>2, StoreType DEF CalcSymPlain, CalcChoice, StoreChoice, IInv, TypeOK
<1>4. ASSUME NEW t \in Choices, t \in valid \/ t = s
      PROVE  /\ Selected(t, curr', userSel) = Selected(t, curr, userSel)
             /\ ChoiceIs(t, curr') = ChoiceIs(t, curr)
  <2>1. \A r \in Deps(t) : curr[r] = curr'[r]
    BY <1>1, <1>3, <1>4, NoSelfDep DEF IInv, Closed
  <2>2. curr' \in [Sym -> Tristate]
    BY <1>1, <1>3
  <2>3. QED
    BY ONLY <1>1, <2>1, <2>2, ChoiceFrame, t \in Choices
<1>5. ASSUME NEW t \in Choices \cap valid
      PROVE  sel'[t] = sel[t] /\ curr'[t] = curr[t]
  BY <1>1, <1>3 DEF CalcSymPlain, CalcChoice, StoreChoice
<1>6. ASSUME s \in Choices
      PROVE  sel'[s] = Selected(s, curr, userSel) /\ curr'[s] = ChoiceIs(s, curr)
  <2>1. CalcChoice(s)
    BY <1>6 DEF CalcSymPlain
  <2>2. QED
    BY <1>1, <1>6, <2>1, CalcChoiceIs
<1>7. QED
  BY <1>1, <1>4, <1>5, <1>6 DEF Picked

\* So it does when another choice is answered with the rest.
LEMMA SetAllPicked ==
  ASSUME BoolChoices, IInv, Picked, NEW s \in Choices, SetAllChoiceValues(s)
  PROVE  Picked'
<1>1. /\ curr \in [Sym -> Tristate] /\ sel \in [Choices -> ChoiceVals \cup {NoSym}]
      /\ s \notin valid /\ valid' = valid /\ userSel' = userSel /\ StoreChoice(s)
  BY DEF IInv, TypeOK, SymTypeOK, SetAllChoiceValues
<1>2. PICK x \in Tristate : curr' = [curr EXCEPT ![s] = x] /\ sel' = [sel EXCEPT ![s] = FinalSel(s)]
  BY <1>1, StoreType DEF StoreChoice, IInv, TypeOK
<1>3. ASSUME NEW t \in Choices \cap valid
      PROVE  sel'[t] = Selected(t, curr', userSel') /\ curr'[t] = ChoiceIs(t, curr')
  <2>1. /\ sel'[t] = sel[t] /\ curr'[t] = curr[t]
        /\ \A r \in Deps(t) : curr[r] = curr'[r]
    BY <1>1, <1>2, <1>3 DEF IInv, Closed
  <2>2. curr' \in [Sym -> Tristate]
    BY <1>1, <1>2
  <2>3. /\ Selected(t, curr', userSel) = Selected(t, curr, userSel)
        /\ ChoiceIs(t, curr') = ChoiceIs(t, curr)
    BY ONLY <1>1, <2>1, <2>2, ChoiceFrame, t \in Choices
  <2>4. QED
    BY <1>1, <2>1, <2>3 DEF Picked
<1>4. QED
  BY <1>1, <1>3 DEF Picked

\* A choice value that can be seen, or is on, has its bool choice at y.
LEMMA SeenAtYes ==
  ASSUME BoolChoices, IInv, Cached, NEW v \in ChoiceVals \cap valid,
         Visibility(v, curr) # no \/ curr[v] = yes
  PROVE  Visibility(v, curr) = yes /\ curr[ChoiceOf[v]] = yes
<1>1. /\ curr \in [Sym -> Tristate] /\ user \in [Sym -> Tristate] /\ v \in Sym \ Choices
      /\ ChoiceOf[v] \in valid \cap Choices /\ ChoiceOf[v] \in Sym
      /\ curr[ChoiceOf[v]] = mod => Type[ChoiceOf[v]] = "tri" /\ Modules = yes
      /\ Type[ChoiceOf[v]] = "bool"
  BY StructureAssumption
     DEF IInv, TypeOK, SymTypeOK, Closed, Deps, BoolChoices, Cached, Modular
<1>2. CASE curr[v] = yes
  <2>1. Val(v, curr, user, hasUser, sel) = yes
    BY <1>1, <1>2, NewValIs DEF Cached, SymbolsFresh
  <2>2. QED
    BY <1>1, <2>1, ChosenAtYes
<1>3. CASE Visibility(v, curr) # no
  <2>1. ExprVal(Prompt[v], curr) # no
    BY <1>3 DEF Visibility
  <2>2. curr[ChoiceOf[v]] # no
    BY <1>1, <2>1, ChoiceAssumption
  <2>3. curr[ChoiceOf[v]] = yes
    BY <1>1, <2>2
  <2>4. QED
    BY <1>1, <1>3, <2>3, NoModuleSeen
<1>4. QED
  BY <1>2, <1>3

\* The selection of a choice at y is kept when the user chooses what it is at, and
\* becomes what the user chooses otherwise.
LEMMA ChosenIsSelected ==
  ASSUME BoolChoices, IInv, Cached, Picked, NEW v \in ChoiceVals \cap valid,
         Visibility(v, curr) # no \/ curr[v] = yes, NEW W, W[ChoiceOf[v]] = v
  PROVE  Selected(ChoiceOf[v], curr, W) = v
<1> DEFINE s == ChoiceOf[v]
<1>1. /\ curr \in [Sym -> Tristate] /\ s \in Choices \cap valid /\ s \in Sym
      /\ v \in Values(s)
  BY StructureAssumption DEF IInv, TypeOK, SymTypeOK, Closed, Deps, Values
<1>2. Visibility(v, curr) = yes /\ curr[s] = yes
  BY SeenAtYes
<1>3. Final(s, no, curr) = yes
  BY <1>1, <1>2 DEF Picked, ChoiceIs
<1>4. [curr EXCEPT ![s] = yes] = curr
  BY <1>1, <1>2
<1> HIDE DEF s
<1>5. v \in ShownIn(s, curr)
  <2>1. Visibility(v, [curr EXCEPT ![s] = yes]) # no
    BY <1>2, <1>4
  <2>2. QED
    BY <1>1, <2>1 DEF ShownIn
<1>6. QED
  BY <1>3, <1>5 DEF Selected, PickIn, s

\* An answer leaves the valid choices with what they would pick.
LEMMA AnswerPicked ==
  ASSUME BoolChoices, IInv, Cached, Picked, NEW s \in Sym, NEW val \in Tristate,
         SetTristateValue(s, val)
  PROVE  Picked'
<1>1. curr' = curr /\ sel' = sel /\ s \in valid /\ (valid' = valid \/ valid' = {})
      /\ userSel \in [Choices -> ChoiceVals \cup {NoSym}]
  BY DEF SetTristateValue, ClearAllValid, IInv, TypeOK, SymTypeOK
<1>2. CASE valid' = {}
  BY ONLY <1>2 DEF Picked
<1>3. CASE userSel' = userSel /\ valid' = valid
  BY <1>1, <1>3 DEF Picked
<1>4. CASE userSel' # userSel /\ valid' = valid /\ valid # {}
  <2>1. /\ s \in ChoiceVals \cap valid /\ val = yes /\ curr[s] = val
        /\ userSel' = [userSel EXCEPT ![ChoiceOf[s]] = s]
    BY <1>1, <1>4 DEF SetTristateValue, ClearAllValid
  <2>2. ChoiceOf[s] \in Choices \cap valid
    BY <2>1, StructureAssumption DEF IInv, Closed, Deps
  <2>3. userSel'[ChoiceOf[s]] = s /\ \A t \in Choices : t # ChoiceOf[s] => userSel'[t] = userSel[t]
    BY <1>1, <2>1, <2>2
  <2>4. Selected(ChoiceOf[s], curr, userSel') = s
    BY <2>1, <2>3, ChosenIsSelected
  <2>5. sel[ChoiceOf[s]] = s
    <3>1. Visibility(s, curr) = yes
      BY <2>1, SeenAtYes
    <3>2. curr[s] = Val(s, curr, user, hasUser, sel)
      BY <2>1, StructureAssumption, NewValIs DEF Cached, SymbolsFresh
    <3>3. QED
      BY <2>1, <3>1, <3>2 DEF Val
  <2>6. \A t \in Choices : t # ChoiceOf[s] => Selected(t, curr, userSel') = Selected(t, curr, userSel)
    BY <2>3 DEF Selected, PickIn
  <2>7. QED
    BY <1>1, <1>4, <2>4, <2>5, <2>6 DEF Picked
<1>5. QED
  BY <1>1, <1>2, <1>3, <1>4

\* The last answer is the value its symbol gets whenever it is computed, since
\* what that is computed from stays as it is: the symbols below it, all of which
\* would keep their values.
Below(s, D) == Deps(s) \subseteq D /\ \A t \in D : Deps(t) \subseteq D
Stuck ==
  asked.sym # NoSym =>
    /\ session = "menu" /\ mode \in {"idle", "write"}
    /\ \E D \in SUBSET (Sym \ {asked.sym}) :
         /\ Below(asked.sym, D)
         /\ \A t \in D : curr[t] = Recalc(t, curr, user, hasUser, userSel)
    /\ asked.val = Recalc(asked.sym, curr, user, hasUser, userSel)
    /\ asked.sym \in valid => curr[asked.sym] = asked.val

\* Computations do not disturb the last answer.
LEMMA CalcStuck ==
  ASSUME BoolChoices, IInv, Picked, Stuck, TypeOK', NEW s \in Sym,
         CalcSymPlain(s) \/ CalcChoice(s), UNCHANGED sessionVars
  PROVE  Stuck'
<1>1. asked' = asked /\ session' = session /\ mode' = mode
  BY DEF sessionVars
<1> SUFFICES ASSUME asked.sym # NoSym PROVE Stuck'
  BY <1>1 DEF Stuck
<1> DEFINE a == asked.sym
           V(t, c, H) == Recalc(t, c, user, H, userSel)
<1>2. /\ curr \in [Sym -> Tristate] /\ curr' \in [Sym -> Tristate] /\ a \in Sym
      /\ valid' = valid \cup {s} /\ user' = user /\ userSel' = userSel
      /\ \A t \in Sym \ Choices : t \in hasUser' <=> t \in hasUser
  BY DEF IInv, TypeOK, SymTypeOK, CalcSymPlain, CalcChoice, StoreChoice
<1>3. curr' = [curr EXCEPT ![s] = V(s, curr, hasUser)]
  BY CalcIsRecalc
<1>4. PICK D \in SUBSET (Sym \ {a}) :
        Below(a, D) /\ \A t \in D : curr[t] = V(t, curr, hasUser)
  BY DEF Stuck
<1> HIDE DEF V
<1>5. \A t \in D : curr[t] = curr'[t]
  BY <1>2, <1>3, <1>4
<1>6. ASSUME NEW t \in D \cup {a} PROVE V(t, curr', hasUser') = V(t, curr, hasUser)
  <2>1. t \in Sym /\ Deps(t) \subseteq D /\ \A r \in D : Deps(r) \subseteq D
    BY <1>2, <1>4 DEF Below
  <2>2. V(t, curr, hasUser) = V(t, curr', hasUser)
    BY ONLY <1>2, <1>5, <2>1, RecalcFrame, D \in SUBSET (Sym \ {a}) DEF V
  <2>3. V(t, curr', hasUser) = V(t, curr', hasUser')
    BY ONLY <1>2, <2>1, RecalcUses DEF V
  <2>4. QED
    BY <2>2, <2>3
<1>7. \A t \in D : curr'[t] = V(t, curr', hasUser')
  BY <1>4, <1>5, <1>6
<1>8. asked.val = V(a, curr', hasUser')
  BY <1>6 DEF Stuck, V
<1>9. a \in valid' => curr'[a] = asked.val
  BY <1>2, <1>3 DEF Stuck, V
<1>10. QED
  BY <1>1, <1>2, <1>4, <1>7, <1>8, <1>9 DEF Stuck, V

\* An answer within the range of a symbol is the value it then gets.
LEMMA AnswerInRange ==
  ASSUME NEW s \in Sym \ (Choices \cup ChoiceVals), NEW c \in [Sym -> Tristate],
         NEW val \in Tristate, NEW U, NEW H, NEW G, U[s] = val, s \in H,
         Visibility(s, c) # no, ~(IsBool(s, Visibility(s, c)) /\ val = mod),
         val >= RevDepVal(s, c), val <= Visibility(s, c)
  PROVE  val = Val(s, c, U, H, G)
<1>1. Visibility(s, c) \in Tristate /\ RevDepVal(s, c) \in Tristate /\ DirDepVal(s, c) = yes
  BY VisibilityType, SeenDir
<1>2. Base(s, c, U, H) = val
  BY <1>1 DEF Base, EXPR_AND
<1>3. EXPR_OR(val, RevDepVal(s, c)) = val
  BY <1>1 DEF EXPR_OR
<1>4. QED
  BY <1>1, <1>2, <1>3 DEF Val, Final, WithSelect

\* An accepted answer is the value its symbol gets.
LEMMA AnswerVal ==
  ASSUME DefaultsShown, BoolChoices, IInv, Cached, Picked, NEW s \in Sym,
         NEW val \in Tristate, SetTristateValue(s, val)
  PROVE  val = Recalc(s, curr, user', hasUser', userSel')
<1>1. /\ curr \in [Sym -> Tristate] /\ user \in [Sym -> Tristate] /\ s \in valid
      /\ userSel \in [Choices -> ChoiceVals \cup {NoSym}]
      /\ user'[s] = val /\ s \in hasUser' /\ (val = curr[s] \/ TristateWithinRange(s, val))
      /\ ~(s \in ChoiceVals /\ val = yes) => userSel' = userSel
  BY DEF SetTristateValue, Accepts, IInv, TypeOK, SymTypeOK
<1>2. /\ visible[s] = Visibility(s, curr)
      /\ s \notin ChoiceVals => revDep[s] = RevDepVal(s, curr)
      /\ Visibility(s, curr) \in Tristate /\ RevDepVal(s, curr) \in Tristate
  BY <1>1, VisibilityType DEF Cached, Seen
<1>3. curr[s] = Recalc(s, curr, user, hasUser, userSel)
  BY <1>1, ValidSettled
<1> DEFINE G == [t \in Choices |-> Selected(t, curr, userSel')]
<1> HIDE DEF G
<1>4. CASE s \in Choices
  <2>1. s \notin ChoiceVals /\ no <= Visibility(s, curr)
    BY <1>2, <1>4, StructureAssumption
  <2>2. Visibility(s, curr) # no => RevDepVal(s, curr) = yes
    BY <1>1, <1>4, <2>1, FinalOfBoolChoice
  <2>3. ~TristateWithinRange(s, val)
    BY <1>2, <2>1, <2>2 DEF TristateWithinRange
  <2>4. QED
    BY <1>1, <1>3, <1>4, <2>3 DEF Recalc
<1>5. CASE s \in ChoiceVals /\ val = yes
  <2>1. s \notin Choices /\ ChoiceOf[s] \in Choices
    BY <1>5, StructureAssumption
  <2>2. Visibility(s, curr) # no \/ curr[s] = yes
    BY <1>1, <1>2, <1>5 DEF TristateWithinRange
  <2>3. Visibility(s, curr) = yes
    BY <1>1, <1>5, <2>2, SeenAtYes
  <2>4. userSel'[ChoiceOf[s]] = s
    BY <1>1, <1>5, <2>1 DEF SetTristateValue
  <2>5. Selected(ChoiceOf[s], curr, userSel') = s
    BY <1>1, <1>5, <2>2, <2>4, ChosenIsSelected
  <2>6. G[ChoiceOf[s]] = s
    BY <2>1, <2>5 DEF G
  <2>7. Val(s, curr, user', hasUser', G) = yes
    BY <1>5, <2>3, <2>6 DEF Val
  <2>8. QED
    BY <1>5, <2>1, <2>7 DEF Recalc, G
<1>6. CASE s \in ChoiceVals /\ val # yes
  <2>1. s \notin Choices
    BY <1>6, StructureAssumption
  <2>2. Visibility(s, curr) \in {no, yes}
    BY <1>1, <1>2, <1>6, SeenAtYes
  <2>3. val = curr[s]
    BY <1>1, <1>2, <1>6, <2>2 DEF TristateWithinRange
  <2>4. curr[s] = Val(s, curr, user, hasUser, G)
    BY <1>1, <1>3, <1>6, <2>1 DEF Recalc, G
  <2>5. Val(s, curr, user, hasUser, G) = Val(s, curr, user', hasUser', G)
    BY <1>6, <2>2, ValHidden
  <2>6. QED
    BY <2>1, <2>3, <2>4, <2>5 DEF Recalc, G
<1>7. CASE s \notin Choices /\ s \notin ChoiceVals
  <2>1. curr[s] = Val(s, curr, user, hasUser, G)
    BY <1>1, <1>3, <1>7 DEF Recalc, G
  <2>2. val = Val(s, curr, user', hasUser', G)
    <3>1. CASE val = curr[s]
      <4>1. s \in Sym \ Choices /\ user'[s] = curr[s]
        BY <1>1, <1>7, <3>1
      <4>2. QED
        BY ONLY <1>1, <2>1, <3>1, <4>1, DefaultsShown, ValRepeated
    <3>2. CASE TristateWithinRange(s, val)
      <4>1. /\ Visibility(s, curr) # no /\ ~(IsBool(s, Visibility(s, curr)) /\ val = mod)
            /\ val >= RevDepVal(s, curr) /\ val <= Visibility(s, curr)
        BY <1>2, <1>7, <3>2 DEF TristateWithinRange
      <4>2. QED
        BY <1>1, <1>7, <4>1, AnswerInRange
    <3>3. QED
      BY <1>1, <3>1, <3>2
  <2>3. QED
    BY <1>7, <2>2 DEF Recalc, G
<1>8. QED
  BY <1>4, <1>5, <1>6, <1>7

\* What a valid symbol is computed from is valid, and does not include the other
\* values of its choice.
LEMMA ValidBelow ==
  ASSUME IInv, NEW s \in valid
  PROVE  \E D \in SUBSET ((Sym \cap valid) \ {s}) :
           Below(s, D) /\ (s \in ChoiceVals => D \cap Values(ChoiceOf[s]) = {})
<1>1. s \in Sym /\ \A t \in valid : t \in Sym /\ Deps(t) \subseteq valid
  BY DEF IInv, TypeOK, SymTypeOK, Closed
<1>2. CASE s \notin ChoiceVals
  <2>1. PICK E \in SUBSET (Sym \ {s}) : Deps(s) \subseteq E /\ \A t \in E : Deps(t) \subseteq E
    BY <1>1, AcyclicAssumption
  <2>2. Below(s, E \cap valid) /\ E \cap valid \in SUBSET ((Sym \cap valid) \ {s})
    BY <1>1, <2>1 DEF Below
  <2>3. QED
    BY <1>2, <2>2
<1>3. CASE s \in ChoiceVals
  <2> DEFINE ch == ChoiceOf[s]
  <2>1. ch \in Choices /\ ch \in Sym /\ ch \in Deps(s) /\ ch \in valid /\ s # ch
    BY <1>1, <1>3, StructureAssumption DEF Deps
  <2>2. Deps(s) \subseteq Deps(ch) \cup {ch}
    <3>1. DefaultReads(s) = {}
      BY <1>3, ChoiceValueAssumption DEF DefaultReads
    <3>2. Reads(Prompt[s]) \subseteq Deps(ch) \cup {ch}
      <4>1. s \in Values(ch)
        BY <1>3 DEF Values
      <4>2. (UNION {Reads(Prompt[v]) : v \in Values(ch)}) \ {ch} \subseteq Deps(ch)
        BY <2>1 DEF Deps
      <4>3. QED
        BY <4>1, <4>2
    <3>3. s \notin Choices
      BY <1>3, StructureAssumption
    <3>4. Deps(s) = Reads(Prompt[s]) \cup DefaultReads(s) \cup {ch}
      BY <1>3, <3>3 DEF Deps
    <3>5. QED
      BY <3>1, <3>2, <3>4
  <2>3. PICK E \in SUBSET (Sym \ {ch}) : Deps(ch) \subseteq E /\ \A t \in E : Deps(t) \subseteq E
    BY <2>1, AcyclicAssumption
  <2> DEFINE D == (E \cap valid) \cup {ch}
  <2>4. \A v \in Values(ch) : ch \in Deps(v) /\ v # ch
    BY <2>1, StructureAssumption DEF Values, Deps
  <2>5. D \cap Values(ch) = {}
    BY <2>3, <2>4
  <2>6. s \in Values(ch)
    BY <1>3 DEF Values
  <2> HIDE DEF ch
  <2>7. Below(s, D) /\ D \in SUBSET ((Sym \cap valid) \ {s})
    BY <1>1, <2>1, <2>2, <2>3, <2>5, <2>6 DEF Below
  <2>8. QED
    BY <2>5, <2>7 DEF ch
<1>4. QED
  BY <1>2, <1>3

\* An accepted answer sticks from the start.
LEMMA AnswerStuck ==
  ASSUME DefaultsShown, BoolChoices, IInv, Cached, Picked, NEW s \in Sym, Answer(s),
         session = "menu"
  PROVE  Stuck'
<1>1. PICK val \in Tristate : SetTristateValue(s, val)
  BY AnswerIs
<1>2. /\ s \in valid /\ curr' = curr /\ user' = [user EXCEPT ![s] = val]
      /\ \/ valid' = {}
         \/ valid' = valid /\ curr[s] = val
      /\ user \in [Sym -> Tristate] /\ userSel \in [Choices -> ChoiceVals \cup {NoSym}]
  BY <1>1 DEF SetTristateValue, ClearAllValid, IInv, TypeOK, SymTypeOK
<1>3. user'[s] = val
  BY <1>2
<1>4. asked'.sym = s /\ asked'.val = val /\ session' = "menu" /\ mode' = "idle"
  BY <1>3 DEF Answer
<1>5. val = Recalc(s, curr, user', hasUser', userSel')
  BY <1>1, AnswerVal
<1>6. PICK D \in SUBSET ((Sym \cap valid) \ {s}) :
        Below(s, D) /\ (s \in ChoiceVals => D \cap Values(ChoiceOf[s]) = {})
  BY <1>2, ValidBelow
<1>7. ASSUME NEW t \in D PROVE curr[t] = Recalc(t, curr, user', hasUser', userSel')
  <2>1. t \in valid /\ t \in Sym /\ t # s
    BY <1>6
  <2>2. curr[t] = Recalc(t, curr, user, hasUser, userSel)
    BY <2>1, ValidSettled
  <2>3. user'[t] = user[t]
    BY <1>2, <2>1
  <2>4. t \notin Choices => (t \in hasUser' <=> t \in hasUser)
    BY <1>1, <1>6, <2>1, StructureAssumption DEF SetTristateValue
  <2>5. t \in ChoiceVals => userSel'[ChoiceOf[t]] = userSel[ChoiceOf[t]]
    <3>1. CASE s \in ChoiceVals /\ val = yes
      <4>1. userSel' = [userSel EXCEPT ![ChoiceOf[s]] = s]
        BY <1>1, <3>1 DEF SetTristateValue
      <4>2. t \in ChoiceVals => ChoiceOf[t] # ChoiceOf[s] /\ ChoiceOf[t] \in Choices
        BY <1>6, <1>7, <3>1, StructureAssumption DEF Values
      <4>3. QED
        BY <1>2, <4>1, <4>2
    <3>2. CASE ~(s \in ChoiceVals /\ val = yes)
      BY <1>1, <3>2 DEF SetTristateValue
    <3>3. QED
      BY <3>1, <3>2
  <2>6. QED
    BY ONLY <2>1, <2>2, <2>3, <2>4, <2>5, RecalcUses
<1>8. s # NoSym
  BY StructureAssumption
<1>9. D \in SUBSET (Sym \ {asked'.sym}) /\ Below(asked'.sym, D)
  BY <1>4, <1>6
<1>10. \A t \in D : curr'[t] = Recalc(t, curr', user', hasUser', userSel')
  BY <1>2, <1>7
<1>11. asked'.val = Recalc(asked'.sym, curr', user', hasUser', userSel')
  BY <1>2, <1>4, <1>5
<1>12. asked'.sym \in valid' => curr'[asked'.sym] = asked'.val
  BY <1>2, <1>4
<1>13. QED
  BY <1>4, <1>9, <1>10, <1>11, <1>12 DEF Stuck

\* The invariant behind AnswersStick.
Sticky == Picked /\ Stuck /\ (mode = "idle" => session = "menu")

\* Steps that leave the choices and the last answer alone.
LEMMA KeepSticky ==
  ASSUME Sticky, valid' = {} \/ valid' = valid,
         mode' = "idle" => session' = "menu",
         \/ asked'.sym = NoSym /\ (valid' = {} \/ UNCHANGED <<curr, sel, userSel>>)
         \/ /\ UNCHANGED <<curr, sel, user, hasUser, userSel, asked, session>>
            /\ mode' \in {"idle", "write"}
  PROVE  Sticky'
<1>1. Picked'
  BY DEF Sticky, Picked
<1>2. Stuck'
  BY DEF Sticky, Stuck
<1>3. QED
  BY <1>1, <1>2 DEF Sticky

\* Every step of the configuration tools keeps the invariant.
LEMMA NextSticky ==
  ASSUME DefaultsShown, BoolChoices, IInv, IInv', Cached, Sticky, [DefNext]_<<vars, defVars>>
  PROVE  Sticky'
<1>0. asked.sym # NoSym => session = "menu" /\ mode \in {"idle", "write"}
  BY DEF Sticky, Stuck
<1>1. ASSUME NEW what, ReadBegin(what) PROVE Sticky'
  BY <1>0, <1>1, KeepSticky DEF ReadBegin
<1>2. CASE ReadEnd
  BY <1>0, <1>2, KeepSticky DEF ReadEnd
<1>3. CASE WriteBegin
  BY <1>0, <1>3, KeepSticky DEF WriteBegin, ClearAllValid
<1>4. CASE WriteEnd
  BY <1>0, <1>4, KeepSticky DEF WriteEnd
<1>5. CASE Exit
  BY <1>5, KeepSticky DEF Exit, Restart, NoAnswer
<1>6. ASSUME NEW s \in Sym, Calc(s) PROVE Sticky'
  <2>1. Picked' /\ Stuck'
    BY <1>6, BoolValues, CalcSymIs, CalcPicked, CalcStuck DEF Calc, Sticky, IInv
  <2>2. QED
    BY <1>6, <2>1 DEF Calc, Sticky, sessionVars
<1>7. ASSUME NEW s \in Sym, Answer(s) PROVE Sticky'
  <2>1. PICK val \in Tristate : SetTristateValue(s, val)
    BY <1>7, AnswerIs
  <2>2. Picked'
    BY <2>1, AnswerPicked DEF Sticky
  <2>3. session = "menu" /\ session' = "menu"
    BY <1>7 DEF Answer, Sticky
  <2>4. Stuck'
    BY <1>7, <2>3, AnswerStuck DEF Sticky
  <2>5. QED
    BY <2>2, <2>3, <2>4 DEF Sticky
<1>8. ASSUME NEW answer, AnswerAll(answer) PROVE Sticky'
  BY <1>0, <1>8, KeepSticky DEF AnswerAll, SetAllNewSymbols, ClearAllValid
<1>13. ASSUME NEW c \in Choices, AnswerChoice(c) PROVE Sticky'
  <2>1. Picked' /\ UNCHANGED sessionVars /\ mode = "pass"
    BY <1>13, SetAllPicked DEF AnswerChoice, Sticky
  <2>2. asked'.sym = NoSym /\ mode' = "pass"
    BY <1>0, <2>1 DEF sessionVars
  <2>3. QED
    BY <2>1, <2>2 DEF Sticky, Stuck
<1>9. CASE MinimizeBegin
  BY <1>0, <1>9, KeepSticky DEF MinimizeBegin, ClearAllValid
<1>10. CASE MinimizeEnd
  BY <1>10, KeepSticky DEF MinimizeEnd, Restart, NoAnswer
<1>11. CASE UNCHANGED <<symVars, mode, session, asked>>
  <2>1. UNCHANGED <<curr, sel, user, hasUser, userSel, asked, session, mode, valid>>
    BY <1>11 DEF symVars
  <2>2. mode' = "idle" => session' = "menu"
    BY <2>1 DEF Sticky
  <2>3. QED
    BY <1>0, <2>1, <2>2, KeepSticky
<1>12. QED
  BY <1>1, <1>2, <1>3, <1>4, <1>5, <1>6, <1>7, <1>8, <1>9, <1>10, <1>11, <1>13
     DEF DefNext, Others, Next, ReadDefconfig, vars, sessionVars

\* sym_set_tristate_value() returns true only for an answer that holds: for every
\* menu without tristate choices whose defaults can be answered, whatever is
\* computed and saved afterwards.
THEOREM Answers == DefaultsShown /\ BoolChoices => (DefSpec => []AnswersStick)
<1> SUFFICES ASSUME DefaultsShown, BoolChoices PROVE DefSpec => []AnswersStick
  OBVIOUS
<1>1. DefInit => Cached /\ Sticky
  BY DEF DefInit, Init, Fresh, Cached, SymbolsFresh, Seen, Modular, Sticky, Picked, Stuck,
         NoAnswer
<1>2. IInv /\ IInv' /\ Cached /\ Sticky /\ [DefNext]_<<vars, defVars>> => Cached' /\ Sticky'
  BY BoolValues, NextCached, NextSticky
<1>3. IInv /\ Sticky => AnswersStick
  BY StructureAssumption DEF Sticky, Stuck, AnswersStick, IInv, TypeOK, SymTypeOK
<1>4. QED
  BY <1>1, <1>2, <1>3, Invariance, PTL DEF DefSpec

-----------------------------------------------------------------------------
(* The sync check.                                                         *)

\* A choice value that can be seen at y has its choice at y.
LEMMA SeenYesAtYes ==
  ASSUME NEW v \in ChoiceVals, NEW c \in [Sym -> Tristate], Visibility(v, c) = yes,
         c[ChoiceOf[v]] = mod => Type[ChoiceOf[v]] = "tri" /\ Modules = yes
  PROVE  c[ChoiceOf[v]] = yes
<1>1. /\ v \in Sym /\ Type[v] \in {"bool", "tri"} /\ Modules \in {no, yes}
      /\ Type[ChoiceOf[v]] \in {"bool", "tri"} /\ ChoiceOf[v] \in Sym
      /\ ExprVal(Prompt[v], c) \in Tristate
  BY StructureAssumption, ExprAssumption
<1>2. QED
  BY <1>1, ChoiceAssumption DEF Visibility

\* What is computed of a choice value: nothing when it cannot be seen, the user's
\* value up to m when its choice is at m.
LEMMA ValOfChoiceValue ==
  ASSUME NEW v \in ChoiceVals, NEW c \in [Sym -> Tristate], NEW U \in [Sym -> Tristate],
         NEW H, NEW G
  PROVE  /\ Visibility(v, c) = no => Val(v, c, U, H, G) = no
         /\ Visibility(v, c) = yes =>
              Val(v, c, U, H, G) = IF G[ChoiceOf[v]] = v THEN yes ELSE no
         /\ Visibility(v, c) = mod =>
              Val(v, c, U, H, G) = IF v \in H THEN EXPR_AND(U[v], mod) ELSE no
<1>1. v \in Sym \ Choices /\ Visibility(v, c) \in Tristate /\ U[v] \in Tristate
  BY StructureAssumption, VisibilityType
<1>2. DefaultVal(v, c) = no
  BY ChoiceValueAssumption DEF DefaultVal, VisibleDefaults
<1>3. Visibility(v, c) = mod => ~IsBool(v, mod)
  <2>1. SUFFICES ASSUME Visibility(v, c) = mod PROVE ~IsBool(v, mod)
    OBVIOUS
  <2>2. Type[v] # "bool" /\ Modules # no
    BY <1>1, <2>1, NoModuleSeen
  <2>3. QED
    BY <2>2 DEF IsBool
<1>4. CASE Visibility(v, c) = no
  BY <1>1, <1>2, <1>4 DEF Val, Base, Final, WithSelect, EXPR_OR
<1>5. CASE Visibility(v, c) = yes
  BY <1>5 DEF Val
<1>6. CASE Visibility(v, c) = mod
  BY <1>1, <1>2, <1>3, <1>6 DEF Val, Base, Final, WithSelect, EXPR_OR, EXPR_AND
<1>7. QED
  BY <1>1, <1>4, <1>5, <1>6

\* What the lines of a file say of a choice.
UserOf(f, s) ==
  IF \E v \in Values(s) : f[v] = yes THEN yes
  ELSE IF \E v \in Values(s) : f[v] = mod THEN mod ELSE no

\* Reading the file f gives the values c: its lines have them, and they are what
\* sym_calc_value() makes of the lines.
PlainFrom(f, c, s) ==
  /\ f[s] = NoLine => Visibility(s, c) = no /\ RevDepVal(s, c) = no /\ VisibleDefaults(s, c) = {}
  /\ Visibility(s, c) = no => c[s] = Final(s, DefaultVal(s, c), c)
  /\ Visibility(s, c) # no => c[s] = Final(s, EXPR_AND(c[s], Visibility(s, c)), c)
ChoiceFrom(f, c, s) ==
  /\ c[s] = Final(s, EXPR_AND(UserOf(f, s), Visibility(s, c)), c)
  /\ c[s] = yes => \E v \in Values(s) : f[v] = yes
  /\ \A v, w \in Values(s) : f[v] = yes /\ f[w] # NoLine /\ w # v => f[w] = no
ValueFrom(f, c, v) ==
  /\ f[v] = yes => Visibility(v, c) = yes /\ c[ChoiceOf[v]] = yes
  /\ f[v] = NoLine => Visibility(v, c) = no
  /\ Visibility(v, c) = no => c[v] = no
Computes(f, c) ==
  /\ c \in [Sym -> Tristate]
  /\ \A s \in Sym : c[s] = mod => Type[s] = "tri" /\ Modules = yes
  /\ \A s \in Sym \ Choices : f[s] \in {NoLine, c[s]}
  /\ \A s \in Sym \ (Choices \cup ChoiceVals) : PlainFrom(f, c, s)
  /\ \A s \in Choices : ChoiceFrom(f, c, s)
  /\ \A v \in ChoiceVals : ValueFrom(f, c, v)

\* A valid choice was computed from an answer that can be seen.
ChoiceKept ==
  \A s \in Choices \cap valid :
    \E b \in Tristate : b <= Visibility(s, curr) /\ curr[s] = Final(s, b, curr)

\* Whatever can be seen is going to be written.
AllMarked ==
  /\ \A s \in valid \ (Choices \cup ChoiceVals) : s \in write <=> NewWrite(s, curr)
  /\ \A v \in valid \cap ChoiceVals : Visibility(v, curr) # no => v \in write
  /\ \A s \in Choices \cap valid : curr[s] = yes =>
       \A v \in Values(s) : Visibility(v, curr) # no => v \in write

\* What conf_write() prints when all is valid are the values, line by line.
LEMMA OutputIs ==
  ASSUME IInv, Cached, valid = Sym, NEW s \in Sym \ Choices
  PROVE  Output[s] = IF s \in write THEN curr[s] ELSE NoLine
<1>1. curr[s] = mod => Modules = yes
  BY DEF Cached, Modular
<1>2. QED
  BY <1>1 DEF Output

\* A choice at y has its selection printed as y; only then is one.
LEMMA OutputOfChoice ==
  ASSUME IInv, Cached, AllMarked, valid = Sym, NEW s \in Choices
  PROVE  /\ curr[s] = yes => \E v \in Values(s) : Output[v] = yes
         /\ \A v \in Values(s) : Output[v] = yes => curr[s] = yes /\ Visibility(v, curr) = yes
         /\ \A v \in Values(s) : Output[v] = mod => curr[s] # no
         /\ \A v, w \in Values(s) : Output[v] = yes /\ Output[w] # NoLine /\ w # v => Output[w] = no
<1>1. /\ curr \in [Sym -> Tristate] /\ user \in [Sym -> Tristate] /\ s \in Sym
      /\ \A v \in Values(s) : /\ v \in ChoiceVals /\ ChoiceOf[v] = s /\ v \in Sym \ Choices
                              /\ Visibility(v, curr) \in Tristate
  BY StructureAssumption, VisibilityType DEF IInv, TypeOK, SymTypeOK, Values
<1>2. \A v \in Values(s) : curr[v] = Val(v, curr, user, hasUser, sel)
  BY <1>1, NewValIs DEF Cached, SymbolsFresh
<1>3. \A v \in Values(s) : Output[v] = IF v \in write THEN curr[v] ELSE NoLine
  BY <1>1, OutputIs
<1>4. curr[s] = mod => Type[s] = "tri" /\ Modules = yes
  BY <1>1 DEF Cached, Modular
<1>5. ASSUME NEW v \in Values(s), curr[v] = yes PROVE curr[s] = yes /\ Visibility(v, curr) = yes
  BY <1>1, <1>2, <1>4, <1>5, ChosenAtYes
<1>6. curr[s] = yes => {v \in Values(s) : curr[v] # no} = {sel[s]}
  BY <1>1 DEF IInv, OneChosen, Chosen
<1>7. ASSUME curr[s] = yes PROVE \E v \in Values(s) : Output[v] = yes
  <2>1. sel[s] \in Values(s) /\ curr[sel[s]] # no
    BY <1>6, <1>7
  <2>2. Visibility(sel[s], curr) = yes /\ curr[sel[s]] = yes
    <3>1. Visibility(sel[s], curr) # mod
      BY <1>1, <1>7, <2>1, NoModuleSeen
    <3>2. Visibility(sel[s], curr) # no
      BY <1>1, <1>2, <2>1, ValOfChoiceValue
    <3>3. QED
      BY <1>1, <1>2, <2>1, <3>1, <3>2, ValOfChoiceValue
  <2>3. sel[s] \in write
    BY <1>1, <2>1, <2>2 DEF AllMarked
  <2>4. QED
    BY <1>3, <2>1, <2>2, <2>3
<1>8. ASSUME NEW v \in Values(s), Output[v] = yes PROVE curr[v] = yes
  BY <1>3, <1>8 DEF NoLine
<1>9. ASSUME NEW v \in Values(s), Output[v] = mod PROVE curr[s] # no
  <2>1. curr[v] = mod
    BY <1>3, <1>9 DEF NoLine
  <2>2. Visibility(v, curr) # no
    BY <1>1, <1>2, <2>1, ValOfChoiceValue
  <2>3. ExprVal(Prompt[v], curr) # no
    BY <2>2 DEF Visibility
  <2>4. QED
    BY <1>1, <2>3, ChoiceAssumption
<1>10. ASSUME NEW v \in Values(s), NEW w \in Values(s), Output[v] = yes, Output[w] # NoLine, w # v
       PROVE  Output[w] = no
  <2>1. curr[s] = yes /\ curr[v] = yes
    BY <1>5, <1>8, <1>10
  <2>2. curr[w] = no
    BY <1>6, <1>10, <2>1
  <2>3. QED
    BY <1>3, <1>10, <2>2
<1>11. QED
  BY <1>5, <1>7, <1>8, <1>9, <1>10

\* A symbol that is no choice value has, with the answer that is its value, that
\* value.
LEMMA PlainRepeats ==
  ASSUME NEW s \in Sym \ ChoiceVals, NEW c \in [Sym -> Tristate],
         NEW b \in Tristate, b <= Visibility(s, c), c[s] = Final(s, b, c)
  PROVE  c[s] = Final(s, EXPR_AND(c[s], Visibility(s, c)), c)
<1>1. Visibility(s, c) \in Tristate /\ c[s] \in Tristate
  BY VisibilityType
<1>2. CASE Visibility(s, c) = no
  <2>1. b = no /\ EXPR_AND(c[s], Visibility(s, c)) = no
    BY <1>1, <1>2 DEF EXPR_AND
  <2>2. QED
    BY <2>1
<1>3. CASE Visibility(s, c) # no
  BY <1>3, FinalTop
<1>4. QED
  BY <1>2, <1>3

\* A choice gets from its lines the value it has: y from the y line of its
\* selection, and m even from no line at all, since it cannot be at n.
LEMMA ChoiceRepeats ==
  ASSUME NEW s \in Choices, NEW c \in [Sym -> Tristate],
         NEW b \in Tristate, b <= Visibility(s, c), c[s] = Final(s, b, c),
         NEW u \in Tristate, c[s] = yes <=> u = yes, c[s] = no => u = no
  PROVE  c[s] = Final(s, EXPR_AND(u, Visibility(s, c)), c)
<1>1. /\ s \in Sym \ ChoiceVals /\ Visibility(s, c) \in Tristate /\ c[s] \in Tristate
      /\ RevDepVal(s, c) \in Tristate /\ DirDepVal(s, c) \in Tristate
      /\ ExprVal(RevDep[s], c) \in Tristate
  BY StructureAssumption, VisibilityType, ExprAssumption
<1>2. c[s] = Final(s, EXPR_AND(c[s], Visibility(s, c)), c)
  BY <1>1, PlainRepeats
<1>3. CASE u = c[s] \/ Visibility(s, c) = no
  <2>1. EXPR_AND(u, Visibility(s, c)) = EXPR_AND(c[s], Visibility(s, c))
    BY <1>1, <1>3 DEF EXPR_AND
  <2>2. QED
    BY <1>2, <2>1
<1>4. CASE u # c[s] /\ Visibility(s, c) # no
  <2>1. c[s] = mod /\ u = no
    BY <1>1, <1>4
  <2>2. ExprVal(Prompt[s], c) # no /\ DirDepVal(s, c) = yes
    BY <1>1, <1>4, SeenDir DEF Visibility
  <2>3. RevDepVal(s, c) # no
    BY <1>1, <2>2, ChoiceAssumption DEF RevDepVal, RevDepAt
  <2>4. EXPR_AND(mod, Visibility(s, c)) = mod /\ EXPR_AND(no, Visibility(s, c)) = no
    BY <1>1, <1>4 DEF EXPR_AND
  <2>5. mod = Final(s, mod, c)
    BY <1>2, <2>1, <2>4
  <2>6. ~IsBool(s, Visibility(s, c)) /\ RevDepVal(s, c) = mod
    BY <1>1, <2>2, <2>3, <2>5 DEF Final, WithSelect, EXPR_OR
  <2>7. Final(s, no, c) = mod
    BY <1>1, <2>2, <2>6 DEF Final, WithSelect, EXPR_OR
  <2>8. QED
    BY <2>1, <2>4, <2>7
<1>5. QED
  BY <1>3, <1>4

\* A file that conf_write() has written gives, when it is read, the values it was
\* written from.
LEMMA OutputComputes ==
  ASSUME DefaultsShown, IInv, Cached, ChoiceKept, AllMarked, valid = Sym
  PROVE  Computes(Output, curr)
<1>1. curr \in [Sym -> Tristate] /\ user \in [Sym -> Tristate]
  BY DEF IInv, TypeOK, SymTypeOK
<1>2. \A s \in Sym \ Choices : Output[s] = IF s \in write THEN curr[s] ELSE NoLine
  BY OutputIs
<1>3. \A s \in Sym : curr[s] = mod => Type[s] = "tri" /\ Modules = yes
  BY DEF Cached, Modular
<1>4. ASSUME NEW s \in Sym \ (Choices \cup ChoiceVals) PROVE PlainFrom(Output, curr, s)
  <2>1. curr[s] \in Tristate /\ Visibility(s, curr) \in Tristate /\ user[s] \in Tristate
    BY <1>1, VisibilityType
  <2>2. Output[s] = NoLine =>
          Visibility(s, curr) = no /\ RevDepVal(s, curr) = no /\ VisibleDefaults(s, curr) = {}
    BY <1>2, <2>1 DEF AllMarked, NewWrite, NewWriteAt, RevDepVal, NoLine
  <2>3. curr[s] = Final(s, Base(s, curr, user, hasUser), curr)
    BY NewValIs DEF Cached, SymbolsFresh, Val
  <2>4. Visibility(s, curr) = no => curr[s] = Final(s, DefaultVal(s, curr), curr)
    BY <2>3 DEF Base
  <2>5. ASSUME Visibility(s, curr) # no
        PROVE  curr[s] = Final(s, EXPR_AND(curr[s], Visibility(s, curr)), curr)
    <3>1. DefaultVal(s, curr) \in Tristate /\ DefaultVal(s, curr) <= Visibility(s, curr)
      BY <1>1, <2>5, DefaultType DEF DefaultsShown
    <3>2. /\ Base(s, curr, user, hasUser) \in Tristate
          /\ Base(s, curr, user, hasUser) <= Visibility(s, curr)
      BY <2>1, <2>5, <3>1 DEF Base, EXPR_AND
    <3>3. QED
      BY <1>1, <2>3, <3>2, PlainRepeats
  <2>6. QED
    BY <2>2, <2>4, <2>5 DEF PlainFrom
<1>5. ASSUME NEW s \in Choices PROVE ChoiceFrom(Output, curr, s)
  <2>1. /\ curr[s] = yes => \E v \in Values(s) : Output[v] = yes
        /\ \A v \in Values(s) : Output[v] = yes => curr[s] = yes
        /\ \A v \in Values(s) : Output[v] = mod => curr[s] # no
        /\ \A v, w \in Values(s) : Output[v] = yes /\ Output[w] # NoLine /\ w # v => Output[w] = no
    BY OutputOfChoice
  <2>2. UserOf(Output, s) \in Tristate /\ (curr[s] = yes <=> UserOf(Output, s) = yes)
        /\ (curr[s] = no => UserOf(Output, s) = no)
    BY <2>1 DEF UserOf
  <2>3. PICK b \in Tristate : b <= Visibility(s, curr) /\ curr[s] = Final(s, b, curr)
    BY StructureAssumption DEF ChoiceKept
  <2>4. curr[s] = Final(s, EXPR_AND(UserOf(Output, s), Visibility(s, curr)), curr)
    BY <1>1, <2>2, <2>3, ChoiceRepeats
  <2>5. QED
    BY <2>1, <2>4 DEF ChoiceFrom
<1>6. ASSUME NEW v \in ChoiceVals PROVE ValueFrom(Output, curr, v)
  <2>1. v \in Sym \ Choices /\ ChoiceOf[v] \in Choices /\ v \in Values(ChoiceOf[v])
        /\ curr[v] \in Tristate
    BY <1>1, StructureAssumption DEF Values
  <2>2. Output[v] = yes => Visibility(v, curr) = yes /\ curr[ChoiceOf[v]] = yes
    BY <2>1, OutputOfChoice
  <2>3. Output[v] = NoLine => Visibility(v, curr) = no
    BY <1>2, <2>1 DEF AllMarked, NoLine
  <2>4. curr[v] = Val(v, curr, user, hasUser, sel)
    BY <2>1, NewValIs DEF Cached, SymbolsFresh
  <2>5. QED
    BY <1>1, <2>2, <2>3, <2>4, ValOfChoiceValue DEF ValueFrom
<1>7. QED
  BY <1>1, <1>2, <1>3, <1>4, <1>5, <1>6 DEF Computes

\* What is stored for a choice is what its answer gives, and with values to show it
\* stays.
LEMMA StoreKept ==
  ASSUME ValuesShown, IInv, NEW s \in Choices, StoreChoice(s)
  PROVE  /\ curr' = [curr EXCEPT ![s] = NewVal(s, curr)]
         /\ \E b \in Tristate : b <= Visibility(s, curr) /\ NewVal(s, curr) = Final(s, b, curr)
<1>1. /\ s \in Sym \ ChoiceVals /\ curr \in [Sym -> Tristate] /\ SymTypeOK
      /\ user \in [Sym -> Tristate] /\ Visibility(s, curr) \in Tristate
  BY StructureAssumption, VisibilityType DEF IInv, TypeOK, SymTypeOK
<1>2. Base(s, curr, user, hasUser) \in Tristate
      /\ Base(s, curr, user, hasUser) <= Visibility(s, curr)
  BY <1>1 DEF Base, EXPR_AND
<1>3. NewVal(s, curr) = Final(s, Base(s, curr, user, hasUser), curr)
  BY <1>1, NewValIs DEF Val
<1>4. FinalVal(s) = NewVal(s, curr)
  BY <1>1, FinalIs, NewValIs
<1>5. QED
  BY <1>2, <1>3, <1>4 DEF StoreChoice

\* The steps that compute a symbol.
Computing(s) ==
  CalcSymPlain(s) \/ CalcChoice(s) \/ (s \in Choices /\ SetAllChoiceValues(s))

\* They change the value of their symbol only, and what the valid symbols are
\* computed from not at all.
LEMMA CalcLocal ==
  ASSUME IInv, NEW s \in Sym, Computing(s)
  PROVE  /\ curr \in [Sym -> Tristate] /\ curr' \in [Sym -> Tristate]
         /\ s \notin valid /\ valid \subseteq Sym /\ Deps(s) \subseteq valid
         /\ valid' = valid \/ valid' = valid \cup {s}
         /\ s \in Choices => StoreChoice(s)
         /\ s \notin Choices => CalcSymPlain(s)
         /\ \A t \in Sym : t # s => curr'[t] = curr[t]
         /\ \A t \in valid' : t \in Sym /\ Deps(t) \subseteq valid
                              /\ \A r \in Deps(t) : curr[r] = curr'[r]
<1>1. /\ curr \in [Sym -> Tristate] /\ user \in [Sym -> Tristate] /\ SymTypeOK
      /\ s \in Sym \ valid /\ (valid' = valid \/ valid' = valid \cup {s})
      /\ Deps(s) \subseteq valid /\ valid \subseteq Sym
      /\ s \in Choices => StoreChoice(s)
      /\ s \notin Choices => CalcSymPlain(s)
  BY DEF Computing, IInv, TypeOK, SymTypeOK, CalcSymPlain, CalcChoice, SetAllChoiceValues
<1>2. NewVal(s, curr) \in Tristate /\ (s \in Choices => FinalVal(s) \in Tristate)
  BY <1>1, NewValType, StoreType
<1>3. PICK x \in Tristate : curr' = [curr EXCEPT ![s] = x]
  BY <1>1, <1>2 DEF CalcSymPlain, StoreChoice
<1>4. \A t \in valid' : Deps(t) \subseteq valid
  BY <1>1 DEF IInv, Closed
<1>5. QED
  BY <1>1, <1>3, <1>4

\* A choice that was valid, and one that is computed, has the value its answer gives.
LEMMA CalcKept ==
  ASSUME ValuesShown, IInv, ChoiceKept, NEW s \in Sym, Computing(s)
  PROVE  ChoiceKept'
<1>1. SUFFICES ASSUME NEW t \in Choices, t \in valid'
               PROVE  \E b \in Tristate : b <= Visibility(t, curr') /\ curr'[t] = Final(t, b, curr')
  BY DEF ChoiceKept
<1>2. /\ t \in Sym /\ curr \in [Sym -> Tristate] /\ curr' \in [Sym -> Tristate]
      /\ \A r \in Deps(t) : curr[r] = curr'[r]
  BY <1>1, CalcLocal
<1>3. Visibility(t, curr') = Visibility(t, curr) /\ \A b : Final(t, b, curr') = Final(t, b, curr)
  BY <1>2, Frame
<1>4. \E b \in Tristate : b <= Visibility(t, curr) /\ curr'[t] = Final(t, b, curr)
  <2>1. CASE t = s
    <3>1. StoreChoice(s)
      BY <2>1, CalcLocal
    <3>2. QED
      BY <1>2, <2>1, <3>1, StoreKept
  <2>2. CASE t # s
    <3>1. t \in valid /\ curr'[t] = curr[t]
      BY <1>1, <1>2, <2>2, CalcLocal
    <3>2. QED
      BY <3>1 DEF ChoiceKept
  <2>3. QED
    BY <2>1, <2>2
<1>5. QED
  BY <1>3, <1>4

\* SYMBOL_WRITE follows the values: nothing that can be seen loses it.
LEMMA CalcMarked ==
  ASSUME IInv, Cached, AllMarked, NEW s \in Sym, Computing(s)
  PROVE  AllMarked'
<1>1. /\ curr \in [Sym -> Tristate] /\ curr' \in [Sym -> Tristate]
      /\ s \notin valid /\ valid \subseteq Sym /\ valid' \subseteq valid \cup {s}
      /\ s \in Choices => StoreChoice(s)
      /\ s \notin Choices => CalcSymPlain(s)
      /\ \A t \in Sym : t # s => curr'[t] = curr[t]
      /\ \A t \in valid' : t \in Sym /\ Deps(t) \subseteq valid
                           /\ \A r \in Deps(t) : curr[r] = curr'[r]
  BY CalcLocal
<1>2. \A t \in valid' : /\ Visibility(t, curr') = Visibility(t, curr)
                        /\ t \notin ChoiceVals => RevDepVal(t, curr') = RevDepVal(t, curr)
                        /\ VisibleDefaults(t, curr') = VisibleDefaults(t, curr)
  BY <1>1, Frame
<1>3. \A t \in ChoiceVals : t \in write => t \in write'
  BY <1>1, StructureAssumption DEF CalcSymPlain, StoreChoice, NewWrite, NewWriteAt
<1>4. \A t \in Sym \ (Choices \cup ChoiceVals) : t # s => (t \in write' <=> t \in write)
  BY <1>1 DEF CalcSymPlain, StoreChoice, Values
<1>5. ASSUME NEW t \in valid' \ (Choices \cup ChoiceVals) PROVE t \in write' <=> NewWrite(t, curr)'
  <2>1. NewWrite(t, curr)' <=> NewWrite(t, curr)
    BY <1>2, <1>5 DEF NewWrite, NewWriteAt, RevDepVal
  <2>2. CASE t = s
    BY <1>1, <1>5, <2>1, <2>2 DEF CalcSymPlain
  <2>3. CASE t # s
    BY <1>1, <1>4, <2>1, <2>3 DEF AllMarked
  <2>4. QED
    BY <2>2, <2>3
<1>6. ASSUME NEW t \in Choices, t \in valid', curr'[t] = yes, NEW v \in Values(t),
             Visibility(v, curr') # no
      PROVE  v \in write'
  <2>1. v \in ChoiceVals /\ t \in Sym \ ChoiceVals /\ Visibility(t, curr) \in Tristate
    BY <1>1, StructureAssumption, VisibilityType DEF Values
  <2>2. CASE t = s
    <3>1. StoreChoice(s)
      BY <1>1, <2>2
    <3>2. curr'[s] = FinalVal(s) /\ curr' = [curr EXCEPT ![s] = FinalVal(s)]
      BY <1>1, <3>1 DEF StoreChoice
    <3>3. ChoiceVal(s) = yes /\ curr' = AtChoice(s)
      BY <1>6, <2>2, <3>2 DEF FinalVal, AtChoice
    <3>4. visible'[v] = Visibility(v, curr')
      <4>1. v \in Sym /\ v # s /\ v \in Values(s)
        BY <1>6, <2>1, <2>2, StructureAssumption
      <4>2. QED
        BY <3>1, <3>3, <4>1 DEF StoreChoice
    <3>5. NewWrite(s, curr)
      <4>1. ChoiceVal(s) = Final(s, Base(s, curr, user, hasUser), curr)
        BY <2>1, <2>2, NewValIs DEF Val, ChoiceVal
      <4>2. Visibility(s, curr) # no \/ RevDepVal(s, curr) # no
        BY <1>6, <2>1, <2>2, <3>3, <4>1 DEF Base, Final, WithSelect, EXPR_OR
      <4>3. QED
        BY <2>1, <2>2, <4>2 DEF NewWrite, NewWriteAt, RevDepVal
    <3>6. QED
      BY <1>6, <2>2, <3>1, <3>4, <3>5 DEF StoreChoice
  <2>3. CASE t # s
    <3>1. t \in valid /\ curr[t] = yes /\ \A r \in Deps(t) \cup {t} : curr[r] = curr'[r]
      BY <1>1, <1>6, <2>1, <2>3
    <3>2. Visibility(v, curr) = Visibility(v, curr')
      BY <1>1, <3>1, ValuesFrame
    <3>3. v \in write
      BY <1>6, <3>1, <3>2 DEF AllMarked
    <3>4. QED
      BY <1>3, <2>1, <3>3
  <2>4. QED
    BY <2>2, <2>3
<1>7. ASSUME NEW v \in valid' \cap ChoiceVals, Visibility(v, curr') # no PROVE v \in write'
  <2>1. /\ v \in Sym \ Choices /\ Visibility(v, curr) # no /\ Visibility(v, curr) \in Tristate
        /\ ChoiceOf[v] \in valid /\ ChoiceOf[v] \in Choices /\ v \in Values(ChoiceOf[v])
    BY <1>1, <1>2, <1>7, StructureAssumption, VisibilityType DEF Deps, Values
  <2>2. CASE v # s
    BY <1>1, <1>3, <1>7, <2>1, <2>2 DEF AllMarked
  <2>3. CASE v = s /\ Visibility(v, curr) # yes
    BY <1>1, <1>7, <2>1, <2>3 DEF CalcSymPlain, NewWrite, NewWriteAt
  <2>4. CASE v = s /\ Visibility(v, curr) = yes
    <3>1. curr[ChoiceOf[v]] = yes
      BY <1>1, <2>1, <2>4, SeenYesAtYes DEF Cached, Modular
    <3>2. v \in write
      BY <2>1, <3>1 DEF AllMarked
    <3>3. QED
      BY <1>3, <3>2
  <2>5. QED
    BY <2>2, <2>3, <2>4
<1>8. QED
  BY <1>1, <1>5, <1>6, <1>7 DEF AllMarked

\* The sync check on a file that gives the values c: what was read and computed so
\* far is what c has, and nothing is going to be written that has no line.
SyncWith(c) ==
  /\ Computes(config, c)
  /\ \A s \in hasUser \ Choices : user[s] = config[s] /\ config[s] # NoLine
  /\ \A s \in Sym \ Choices : config[s] # NoLine /\ Visibility(s, c) # no => s \in hasUser
  /\ \A s \in Choices : /\ user[s] = UserOf(config, s)
                        /\ Visibility(s, c) # no => s \in hasUser
                        /\ c[s] = yes => userSel[s] \in Values(s) /\ config[userSel[s]] = yes
  /\ \A s \in valid : curr[s] = c[s]
  /\ \A s \in valid \cap Choices : sel[s] = IF c[s] = yes THEN userSel[s] ELSE NoSym
  /\ \A s \in Sym : visible[s] # no => Visibility(s, c) # no
  /\ \A s \in write \ Choices : config[s] # NoLine

\* conf_read() of such a file.
LEMMA ReadSync ==
  ASSUME IInv, NEW c, Computes(config, c), visible = [s \in Sym |-> no], write = {},
         NEW what, ReadBegin(what)
  PROVE  SyncWith(c)'
<1>1. /\ c \in [Sym -> Tristate] /\ config \in File
      /\ \A s \in Sym \ Choices :
           config[s] \in {NoLine, c[s]} /\ (c[s] = mod => Type[s] = "tri")
      /\ config' = config /\ valid' = {} /\ visible' = visible /\ write' = write
  BY DEF Computes, IInv, TypeOK, ReadBegin
<1>2. \A s \in Sym \ Choices : Parsed(s) <=> config[s] # NoLine
  BY <1>1 DEF Parsed, NoLine
<1>3. \A s \in Choices : Values(s) \subseteq Sym \ Choices
  BY StructureAssumption DEF Values
<1>4. ASSUME NEW s \in Choices, NEW t \in Tristate
      PROVE  Lines(s, t) = {v \in Values(s) : config[v] = t}
  BY <1>2, <1>3 DEF Lines, NoLine
<1>5. \A s \in Choices : ~Inconsistent(s)
  <2>1. SUFFICES ASSUME NEW s \in Choices, Inconsistent(s) PROVE FALSE
    OBVIOUS
  <2>2. PICK v \in Lines(s, yes), w \in Lines(s, mod) : MenuPos[v] < MenuPos[w]
    BY <2>1 DEF Inconsistent
  <2>3. v \in Values(s) /\ w \in Values(s) /\ config[v] = yes /\ config[w] = mod /\ v # w
    BY <1>4, <2>2
  <2>4. QED
    BY <2>3 DEF Computes, ChoiceFrom, NoLine
<1>6. /\ \A s \in Sym \ Choices : (s \in hasUser' <=> config[s] # NoLine)
                                 /\ (config[s] # NoLine => user'[s] = config[s])
      /\ Choices \subseteq hasUser' /\ hasUser' \subseteq Sym
  BY <1>2, <1>5, StructureAssumption DEF ReadBegin
<1>7. ASSUME NEW s \in Choices
      PROVE  /\ user'[s] = UserOf(config, s)
             /\ c[s] = yes => userSel'[s] \in Values(s) /\ config[userSel'[s]] = yes
  <2>1. /\ user'[s] = IF Lines(s, yes) # {} THEN yes
                      ELSE IF Lines(s, mod) # {} THEN mod ELSE no
        /\ userSel'[s] = IF Lines(s, yes) = {} THEN NoSym ELSE LastSym(Lines(s, yes))
    BY StructureAssumption DEF ReadBegin
  <2>2. user'[s] = UserOf(config, s)
    BY <1>4, <2>1 DEF UserOf
  <2>3. ASSUME c[s] = yes PROVE userSel'[s] \in Values(s) /\ config[userSel'[s]] = yes
    <3>1. Lines(s, yes) # {} /\ Lines(s, yes) \in SUBSET Sym
      BY <1>3, <1>4, <2>3 DEF Computes, ChoiceFrom
    <3>2. userSel'[s] \in Lines(s, yes)
      BY <2>1, <3>1, LastSymIn
    <3>3. QED
      BY <1>4, <3>2
  <2>4. QED
    BY <2>2, <2>3
<1>8. QED
  BY <1>1, <1>6, <1>7 DEF SyncWith

\* What is computed during the check is the value the file gives: of a symbol ...
LEMMA SyncVal ==
  ASSUME IInv, NEW c, SyncWith(c), NEW s \in Sym \ Choices, Deps(s) \subseteq valid
  PROVE  NewVal(s, curr) = c[s] /\ Visibility(s, curr) = Visibility(s, c)
<1>1. /\ curr \in [Sym -> Tristate] /\ c \in [Sym -> Tristate]
      /\ user \in [Sym -> Tristate] /\ Visibility(s, c) \in Tristate
      /\ \A t \in Deps(s) : curr[t] = c[t]
      /\ config[s] \in {NoLine, c[s]}
      /\ \A t \in Sym : c[t] = mod => Type[t] = "tri" /\ Modules = yes
  BY VisibilityType DEF IInv, TypeOK, SymTypeOK, SyncWith, Computes
<1>2. Visibility(s, curr) = Visibility(s, c)
  BY <1>1, Frame
<1>3. NewVal(s, curr) = Val(s, c, user, hasUser, sel)
  <2>1. NewVal(s, curr) = Val(s, curr, user, hasUser, sel)
    BY NewValIs
  <2>2. Val(s, curr, user, hasUser, sel) = Val(s, c, user, hasUser, sel)
    BY ONLY <1>1, ValFrame, s \in Sym
  <2>3. QED
    BY <2>1, <2>2
<1>4. ASSUME config[s] # NoLine, Visibility(s, c) # no PROVE s \in hasUser /\ user[s] = c[s]
  BY <1>1, <1>4 DEF SyncWith
<1>5. CASE s \notin ChoiceVals
  <2>1. PlainFrom(config, c, s)
    BY <1>5 DEF SyncWith, Computes
  <2>2. CASE Visibility(s, c) = no
    BY <1>2, <1>3, <1>5, <2>1, <2>2 DEF PlainFrom, Val, Base
  <2>3. CASE Visibility(s, c) # no
    <3>1. s \in hasUser /\ user[s] = c[s]
      BY <1>4, <2>1, <2>3 DEF PlainFrom
    <3>2. QED
      BY <1>2, <1>3, <1>5, <2>1, <2>3, <3>1 DEF PlainFrom, Val, Base
  <2>4. QED
    BY <1>2, <2>2, <2>3
<1>6. CASE s \in ChoiceVals
  <2> DEFINE ch == ChoiceOf[s]
  <2>1. ch \in Choices /\ ch \in valid /\ s \in Values(ch) /\ ch \in Sym
    BY <1>6, StructureAssumption DEF Deps, Values
  <2>2. /\ ValueFrom(config, c, s) /\ ChoiceFrom(config, c, ch)
        /\ sel[ch] = IF c[ch] = yes THEN userSel[ch] ELSE NoSym
        /\ c[ch] = yes => userSel[ch] \in Values(ch) /\ config[userSel[ch]] = yes
    BY <1>6, <2>1 DEF SyncWith, Computes
  <2>3. CASE Visibility(s, c) = no
    BY <1>1, <1>2, <1>3, <1>6, <2>2, <2>3, ValOfChoiceValue DEF ValueFrom
  <2>4. CASE Visibility(s, c) = yes
    <3>1. c[ch] = yes
      BY <1>1, <1>6, <2>1, <2>4, SeenYesAtYes
    <3>2. Val(s, c, user, hasUser, sel) = IF userSel[ch] = s THEN yes ELSE no
      BY <1>1, <1>6, <2>2, <2>4, <3>1, ValOfChoiceValue
    <3>3. config[s] # NoLine /\ config[s] = c[s]
      BY <1>1, <2>2, <2>4 DEF ValueFrom
    <3>4. userSel[ch] # s => config[s] = no
      BY <2>1, <2>2, <3>1, <3>3 DEF ChoiceFrom
    <3>5. QED
      BY <1>2, <1>3, <2>2, <3>1, <3>2, <3>3, <3>4
  <2>5. CASE Visibility(s, c) = mod
    <3>1. config[s] # NoLine /\ config[s] = c[s]
      BY <1>1, <2>2, <2>5 DEF ValueFrom
    <3>2. c[s] # yes /\ c[s] \in Tristate
      BY <1>1, <2>2, <2>5, <3>1 DEF ValueFrom
    <3>3. s \in hasUser /\ user[s] = c[s]
      BY <1>4, <2>5, <3>1
    <3>4. QED
      BY <1>1, <1>2, <1>3, <1>6, <2>5, <3>2, <3>3, ValOfChoiceValue DEF EXPR_AND
  <2>6. QED
    BY <1>1, <2>3, <2>4, <2>5
<1>7. QED
  BY <1>5, <1>6

\* ... and of a choice, which takes its selection from the file as well.
LEMMA SyncChoice ==
  ASSUME IInv, NEW c, SyncWith(c), NEW s \in Choices, Deps(s) \subseteq valid
  PROVE  /\ NewVal(s, curr) = c[s] /\ Visibility(s, curr) = Visibility(s, c)
         /\ \A v \in Values(s) : Visibility(v, [curr EXCEPT ![s] = c[s]]) = Visibility(v, c)
<1>1. /\ curr \in [Sym -> Tristate] /\ c \in [Sym -> Tristate] /\ s \in Sym \ ChoiceVals
      /\ user \in [Sym -> Tristate] /\ Visibility(s, c) \in Tristate
      /\ \A t \in Deps(s) : curr[t] = c[t]
      /\ ChoiceFrom(config, c, s) /\ user[s] = UserOf(config, s)
      /\ Visibility(s, c) # no => s \in hasUser
  BY StructureAssumption, VisibilityType DEF IInv, TypeOK, SymTypeOK, SyncWith, Computes
<1>2. Visibility(s, curr) = Visibility(s, c)
  BY <1>1, Frame
<1>3. NewVal(s, curr) = Val(s, c, user, hasUser, sel)
  <2>1. NewVal(s, curr) = Val(s, curr, user, hasUser, sel)
    BY NewValIs
  <2>2. Val(s, curr, user, hasUser, sel) = Val(s, c, user, hasUser, sel)
    BY ONLY <1>1, ValFrame
  <2>3. QED
    BY <2>1, <2>2
<1>4. Base(s, c, user, hasUser) = EXPR_AND(UserOf(config, s), Visibility(s, c))
  BY <1>1 DEF Base, EXPR_AND
<1>5. NewVal(s, curr) = c[s]
  BY <1>1, <1>3, <1>4 DEF Val, ChoiceFrom
<1> DEFINE d == [curr EXCEPT ![s] = c[s]]
<1>6. d \in [Sym -> Tristate] /\ \A t \in Deps(s) \cup {s} : d[t] = c[t]
  <2>1. \A t \in Deps(s) : t \in Sym
    BY DEF IInv, TypeOK, SymTypeOK
  <2>2. QED
    BY <1>1, <2>1
<1> HIDE DEF d
<1>7. \A v \in Values(s) : Visibility(v, d) = Visibility(v, c)
  BY <1>1, <1>6, ValuesFrame
<1>8. QED
  BY <1>2, <1>5, <1>7 DEF d

\* The computations of the check keep to the file.
LEMMA CalcSymSync ==
  ASSUME IInv, NEW c, SyncWith(c), NEW s \in Sym, CalcSymPlain(s), config' = config
  PROVE  SyncWith(c)'
<1>1. /\ curr \in [Sym -> Tristate] /\ c \in [Sym -> Tristate] /\ valid \subseteq Sym
      /\ s \in Sym \ Choices /\ Deps(s) \subseteq valid /\ s \notin valid
      /\ visible \in [Sym -> Tristate] /\ \A t \in Deps(s) : curr[t] = c[t]
      /\ Computes(config, c)
  BY DEF CalcSymPlain, IInv, TypeOK, SymTypeOK, SyncWith, Computes
<1>2. NewVal(s, curr) = c[s] /\ Visibility(s, curr) = Visibility(s, c)
  BY <1>1, SyncVal
<1>3. /\ valid' = valid \cup {s} /\ curr' = [curr EXCEPT ![s] = c[s]]
      /\ visible' = [visible EXCEPT ![s] = Visibility(s, c)]
      /\ write' \subseteq write \cup {s} /\ (s \in write' => NewWrite(s, curr))
      /\ sel' = sel /\ hasUser' = hasUser /\ user' = user /\ userSel' = userSel
  BY <1>1, <1>2 DEF CalcSymPlain
<1>4. NewWrite(s, curr) => config[s] # NoLine
  <2>1. /\ s \notin ChoiceVals => RevDepVal(s, curr) = RevDepVal(s, c)
        /\ VisibleDefaults(s, curr) = VisibleDefaults(s, c)
    BY <1>1, Frame
  <2>2. CASE s \notin ChoiceVals
    <3>1. PlainFrom(config, c, s)
      BY <1>1, <2>2 DEF Computes
    <3>2. QED
      BY <1>1, <1>2, <2>1, <2>2, <3>1 DEF NewWrite, NewWriteAt, RevDepVal, PlainFrom
  <2>3. CASE s \in ChoiceVals
    <3>1. ValueFrom(config, c, s)
      BY <2>3 DEF SyncWith, Computes
    <3>2. VisibleDefaults(s, curr) = {}
      BY <2>3, ChoiceValueAssumption DEF VisibleDefaults
    <3>3. s \in write => config[s] # NoLine
      BY <1>1 DEF SyncWith
    <3>4. QED
      BY <1>2, <2>3, <3>1, <3>2, <3>3 DEF NewWrite, NewWriteAt, ValueFrom
  <2>4. QED
    BY <2>2, <2>3
<1>5. \A t \in valid' : curr'[t] = c[t]
  BY <1>1, <1>3 DEF SyncWith
<1>6. \A t \in Sym : visible'[t] # no => Visibility(t, c) # no
  BY <1>1, <1>3 DEF SyncWith
<1>7. \A t \in write' \ Choices : config[t] # NoLine
  BY <1>3, <1>4 DEF SyncWith
<1>8. \A t \in valid' \cap Choices : sel'[t] = IF c[t] = yes THEN userSel'[t] ELSE NoSym
  BY <1>1, <1>3 DEF SyncWith
<1>9. QED
  BY <1>1, <1>3, <1>5, <1>6, <1>7, <1>8 DEF SyncWith

\* The same of a choice: every value it shows has its line.
LEMMA StoreSync ==
  ASSUME IInv, NEW c, SyncWith(c), NEW s \in Choices, s \notin valid, Deps(s) \subseteq valid,
         StoreChoice(s), valid' = valid \/ valid' = valid \cup {s},
         UNCHANGED <<config, userSel>>, hasUser' = hasUser \/ hasUser' = hasUser \cup {s},
         \A t \in Choices \cup hasUser : user'[t] = user[t]
  PROVE  SyncWith(c)'
<1>1. /\ curr \in [Sym -> Tristate] /\ c \in [Sym -> Tristate] /\ valid \subseteq Sym
      /\ s \in Sym \ ChoiceVals
      /\ visible \in [Sym -> Tristate] /\ Computes(config, c)
      /\ sel \in [Choices -> ChoiceVals \cup {NoSym}]
      /\ Values(s) \subseteq ChoiceVals /\ ChoiceVals \subseteq Sym \ Choices
  BY StructureAssumption DEF IInv, TypeOK, SymTypeOK, SyncWith, Computes, Values
<1>2. /\ ChoiceVal(s) = c[s] /\ Visibility(s, curr) = Visibility(s, c)
      /\ \A v \in Values(s) : Visibility(v, AtChoice(s)) = Visibility(v, c)
  <2>1. /\ ChoiceVal(s) = c[s] /\ Visibility(s, curr) = Visibility(s, c)
        /\ \A v \in Values(s) : Visibility(v, [curr EXCEPT ![s] = c[s]]) = Visibility(v, c)
    BY SyncChoice DEF ChoiceVal
  <2>2. AtChoice(s) = [curr EXCEPT ![s] = c[s]]
    BY <2>1 DEF AtChoice
  <2>3. QED
    BY <2>1, <2>2
<1>3. \A v \in Values(s) : Visibility(v, c) # no => config[v] # NoLine
  BY <1>1 DEF Computes, ValueFrom
<1>4. c[s] = yes => Pick(s) = userSel[s] /\ Pick(s) # NoSym
  <2>1. SUFFICES ASSUME c[s] = yes PROVE userSel[s] \in Shown(s) /\ NoSym \notin Shown(s)
    BY DEF Pick
  <2>2. userSel[s] \in Values(s) /\ config[userSel[s]] = yes
    BY <1>1, <2>1 DEF SyncWith
  <2>3. Visibility(userSel[s], c) = yes
    BY <1>1, <2>2 DEF Computes, ValueFrom
  <2>4. QED
    BY <1>1, <1>2, <2>2, <2>3, StructureAssumption DEF Shown
<1>5. FinalVal(s) = c[s] /\ FinalSel(s) = IF c[s] = yes THEN userSel[s] ELSE NoSym
  BY <1>2, <1>4 DEF FinalVal, FinalSel
<1>6. /\ sel' = [sel EXCEPT ![s] = IF c[s] = yes THEN userSel[s] ELSE NoSym]
      /\ curr' = [curr EXCEPT ![s] = c[s]]
      /\ \A t \in Sym : visible'[t] \in {visible[t], Visibility(t, c)}
      /\ write' \subseteq write \cup {s} \cup {v \in Values(s) : visible'[v] # no}
  BY <1>2, <1>5 DEF StoreChoice
<1>7. \A t \in valid' : curr'[t] = c[t]
  BY <1>1, <1>6 DEF SyncWith
<1>8. \A t \in Sym : visible'[t] # no => Visibility(t, c) # no
  BY <1>6 DEF SyncWith
<1>9. \A t \in write' \ Choices : config[t] # NoLine
  BY <1>1, <1>3, <1>6, <1>8 DEF SyncWith
<1>10. \A t \in valid' \cap Choices : sel'[t] = IF c[t] = yes THEN userSel'[t] ELSE NoSym
  BY <1>1, <1>6 DEF SyncWith
<1>11. /\ \A t \in hasUser' \ Choices : user'[t] = config[t] /\ config[t] # NoLine
       /\ \A t \in Choices : user'[t] = user[t]
       /\ hasUser \subseteq hasUser'
  BY DEF SyncWith
<1>12. QED
  BY <1>1, <1>7, <1>8, <1>9, <1>10, <1>11 DEF SyncWith

\* A choice that is computed keeps to the file: no value it shows is new.
LEMMA CalcChoiceSync ==
  ASSUME IInv, NEW c, SyncWith(c), NEW s \in Sym, CalcChoice(s), config' = config
  PROVE  SyncWith(c)'
<1>1. s \in Choices /\ Deps(s) \subseteq valid /\ StoreChoice(s) /\ Values(s) \subseteq Sym \ Choices
  BY StructureAssumption DEF CalcChoice, Values
<1>2. /\ ChoiceVal(s) = c[s]
      /\ \A v \in Values(s) : Visibility(v, AtChoice(s)) = Visibility(v, c)
  <2>1. /\ ChoiceVal(s) = c[s]
        /\ \A v \in Values(s) : Visibility(v, [curr EXCEPT ![s] = c[s]]) = Visibility(v, c)
    BY <1>1, SyncChoice DEF ChoiceVal
  <2>2. AtChoice(s) = [curr EXCEPT ![s] = c[s]]
    BY <2>1 DEF AtChoice
  <2>3. QED
    BY <2>1, <2>2
<1>3. \A v \in Values(s) : Visibility(v, c) # no => v \in hasUser
  BY <1>1, StructureAssumption DEF SyncWith, Computes, ValueFrom, Values
<1>4. hasUser' = hasUser
  BY <1>2, <1>3 DEF CalcChoice, Shown
<1>5. QED
  BY <1>1, <1>4, StoreSync DEF CalcChoice

\* So does one that is answered with the rest.
LEMMA SetAllSync ==
  ASSUME IInv, NEW c, SyncWith(c), NEW s \in Choices, SetAllChoiceValues(s), config' = config
  PROVE  SyncWith(c)'
<1>1. \A t \in Choices \cup hasUser : user'[t] = user[t]
  BY StructureAssumption DEF SetAllChoiceValues, Values, IInv, TypeOK, SymTypeOK
<1>2. QED
  BY <1>1, StoreSync DEF SetAllChoiceValues

\* The invariant behind InSync: what the tools wrote can be read back, they are
\* about to write everything that can be seen, and the check stays with the file.
Marked == mode \in {"done", "new"} \/ (mode = "idle" /\ ~changed) \/ AllMarked
ByTool == bytool => \E c \in [Sym -> Tristate] : Computes(config, c)
StartsFresh == mode = "start" => visible = [s \in Sym |-> no] /\ write = {}
Synced ==
  session = "sync" /\ mode # "start" /\ bytool =>
    /\ mode # "idle"
    /\ mode # "done" => \E c \in [Sym -> Tristate] : SyncWith(c)
    /\ mode = "done" => \A s \in DOMAIN tmp : tmp[s] \in {NoLine, config[s]}
SyncInv == ChoiceKept /\ Marked /\ ByTool /\ StartsFresh /\ Synced

\* Steps that clear the cache, or touch no value.
LEMMA KeepMarks ==
  ASSUME SyncInv, valid' = {} \/ UNCHANGED <<valid, curr>>
  PROVE  /\ ChoiceKept'
         /\ valid' = {} \/ (UNCHANGED write /\ AllMarked) => AllMarked'
<1>1. ChoiceKept'
  BY DEF SyncInv, ChoiceKept
<1>2. CASE valid' = {}
  BY <1>1, <1>2 DEF AllMarked
<1>3. CASE UNCHANGED <<valid, curr, write>> /\ AllMarked
  BY <1>1, <1>3 DEF AllMarked, NewWrite, NewWriteAt
<1>4. QED
  BY <1>1, <1>2, <1>3

\* Steps outside the check, or which leave what it read alone.
LEMMA KeepSynced ==
  ASSUME SyncInv, UNCHANGED <<config, bytool>>, session' = "sync" => session = "sync",
         \/ mode' = "start" \/ session # "sync"
         \/ /\ mode # "start" /\ mode' \notin {"idle", "done"} /\ mode # "done"
            /\ \/ UNCHANGED <<valid, curr, sel>>
               \/ valid' = {}
            /\ UNCHANGED <<visible, write, user, userSel>>
            /\ hasUser' = hasUser
  PROVE  ByTool' /\ Synced'
<1>1. ByTool'
  BY DEF SyncInv, ByTool
<1>2. CASE mode' = "start" \/ session # "sync"
  BY <1>1, <1>2 DEF Synced
<1>3. ASSUME session' = "sync", bytool', mode # "start", mode' \notin {"idle", "done"},
             mode # "done", valid' = {} \/ UNCHANGED <<valid, curr, sel>>,
             UNCHANGED <<visible, write, user, userSel>>,
             hasUser' = hasUser
      PROVE  Synced'
  <2>1. PICK c \in [Sym -> Tristate] : SyncWith(c)
    BY <1>3 DEF SyncInv, Synced
  <2>2. SyncWith(c)'
    BY <1>3, <2>1 DEF SyncWith
  <2>3. QED
    BY <1>3, <2>2 DEF Synced
<1>4. QED
  BY <1>1, <1>2, <1>3 DEF Synced

\* conf_write() ends: the file can be read back, or the check has its lines.
LEMMA WriteSync ==
  ASSUME DefaultsShown, IInv, Cached, SyncInv, WriteEnd
  PROVE  ByTool' /\ Synced'
<1>1. /\ mode = "write" /\ valid = Sym /\ session' = session
      /\ mode' = IF session = "menu" THEN "idle" ELSE "done"
      /\ curr \in [Sym -> Tristate]
  BY DEF WriteEnd, IInv, TypeOK, SymTypeOK
<1>2. CASE session # "sync"
  <2>1. config' = Output /\ bytool' = TRUE
    BY <1>2 DEF WriteEnd
  <2>2. AllMarked /\ ChoiceKept
    BY <1>1 DEF SyncInv, Marked
  <2>3. Computes(Output, curr)
    BY <1>1, <2>2, OutputComputes
  <2>4. QED
    BY <1>1, <1>2, <2>1, <2>3 DEF ByTool, Synced
<1>3. CASE session = "sync"
  <2>1. tmp' = Output /\ config' = config /\ bytool' = bytool /\ mode' = "done"
    BY <1>1, <1>3 DEF WriteEnd
  <2>2. ASSUME bytool, NEW s \in DOMAIN tmp' PROVE tmp'[s] \in {NoLine, config[s]}
    <3>1. s \in Sym \ Choices
      BY <2>1, <2>2 DEF Output
    <3>2. PICK c \in [Sym -> Tristate] : SyncWith(c)
      BY <1>1, <1>3, <2>2 DEF SyncInv, Synced
    <3>3. tmp'[s] = IF s \in write THEN curr[s] ELSE NoLine
      BY <1>1, <2>1, <3>1, OutputIs
    <3>4. s \in write => config[s] # NoLine /\ config[s] \in {NoLine, c[s]} /\ curr[s] = c[s]
      BY <1>1, <3>1, <3>2 DEF SyncWith, Computes
    <3>5. QED
      BY <3>3, <3>4
  <2>3. QED
    BY <1>1, <1>3, <2>1, <2>2 DEF ByTool, Synced, SyncInv
<1>4. QED
  BY <1>2, <1>3

\* The end of conf_read() forgets no answer that counts.
LEMMA ReadEndSync ==
  ASSUME IInv, Cached, SyncInv, ReadEnd
  PROVE  ByTool' /\ Synced'
<1>1. /\ mode = "read" /\ valid = Sym /\ UNCHANGED <<session, config, bytool>>
      /\ mode' = IF session = "menu" THEN "idle" ELSE "new"
      /\ UNCHANGED <<valid, curr, sel, visible, user, userSel, write>>
      /\ hasUser' \subseteq hasUser
      /\ \A s \in hasUser : visible[s] # no \/ s \in ChoiceVals => s \in hasUser'
      /\ curr \in [Sym -> Tristate]
  BY DEF ReadEnd, IInv, TypeOK, SymTypeOK
<1>2. ByTool'
  BY <1>1 DEF ByTool, SyncInv
<1>3. ASSUME session = "sync", bytool PROVE \E c \in [Sym -> Tristate] : SyncWith(c)'
  <2>1. PICK c \in [Sym -> Tristate] : SyncWith(c)
    BY <1>1, <1>3 DEF SyncInv, Synced
  <2>2. curr = c
    BY <1>1, <2>1 DEF SyncWith
  <2>3. \A s \in Sym : visible[s] = Visibility(s, c)
    BY <1>1, <2>2 DEF Cached, Seen
  <2>4. \A s \in hasUser \cap Sym : Visibility(s, c) # no => s \in hasUser'
    BY <1>1, <2>3
  <2>5. \A s \in hasUser' \ Choices : user[s] = config[s] /\ config[s] # NoLine
    BY <1>1, <2>1 DEF SyncWith
  <2>6. \A s \in Sym \ Choices : config[s] # NoLine /\ Visibility(s, c) # no => s \in hasUser'
    BY <2>1, <2>4 DEF SyncWith
  <2>7. \A s \in Choices : Visibility(s, c) # no => s \in hasUser'
    BY <2>1, <2>4, StructureAssumption DEF SyncWith
  <2>8. SyncWith(c)'
    BY <1>1, <2>1, <2>5, <2>6, <2>7 DEF SyncWith
  <2>9. QED
    BY <2>8
<1>4. QED
  BY <1>1, <1>2, <1>3 DEF Synced

\* Every step of the configuration tools keeps the invariant.
LEMMA NextSync ==
  ASSUME DefaultsShown, ValuesShown, ValuesOnly, IInv, Cached, SyncInv, [DefNext]_<<vars, defVars>>
  PROVE  SyncInv'
<1>1. ASSUME NEW what \in {"menu", "defconfig", "sync"}, ReadBegin(what) PROVE SyncInv'
  <2>1. /\ mode = "start" /\ mode' = "read" /\ valid' = {} /\ session' = what
        /\ UNCHANGED <<config, bytool>>
    BY <1>1 DEF ReadBegin
  <2>2. ByTool'
    BY <2>1 DEF SyncInv, ByTool
  <2>3. Synced'
    <3>1. ASSUME bytool PROVE \E c \in [Sym -> Tristate] : SyncWith(c)'
      <4>1. PICK c \in [Sym -> Tristate] : Computes(config, c)
        BY <3>1 DEF SyncInv, ByTool
      <4>2. visible = [s \in Sym |-> no] /\ write = {}
        BY <2>1 DEF SyncInv, StartsFresh
      <4>3. SyncWith(c)'
        BY <1>1, <4>1, <4>2, ReadSync
      <4>4. QED
        BY <4>3
    <3>2. QED
      BY <2>1, <3>1 DEF Synced
  <2>4. QED
    BY <2>1, <2>2, <2>3, KeepMarks DEF SyncInv, Marked, StartsFresh
<1>2. CASE ReadEnd
  <2>1. /\ mode = "read" /\ UNCHANGED <<valid, curr, write>> /\ mode' # "start"
    BY <1>2 DEF ReadEnd
  <2>2. AllMarked
    BY <2>1 DEF SyncInv, Marked
  <2>3. QED
    BY <1>2, <2>1, <2>2, KeepMarks, ReadEndSync DEF SyncInv, Marked, StartsFresh
<1>3. CASE WriteBegin
  <2>1. /\ mode' = "write" /\ mode \in {"idle", "pass"} /\ UNCHANGED <<curr, write, config, bytool, session>>
        /\ UNCHANGED <<sel, visible, user, userSel, hasUser>>
        /\ (valid' = {} \/ (valid' = valid /\ changed))
    BY <1>3 DEF WriteBegin, ClearAllValid
  <2>2. valid' = {} \/ AllMarked
    BY <2>1 DEF SyncInv, Marked
  <2>3. ByTool' /\ Synced'
    <3>1. CASE session = "sync"
      BY <2>1, <3>1, KeepSynced
    <3>2. CASE session # "sync"
      BY <2>1, <3>2, KeepSynced
    <3>3. QED
      BY <3>1, <3>2
  <2>4. QED
    BY <2>1, <2>2, <2>3, KeepMarks DEF SyncInv, Marked, StartsFresh
<1>4. CASE WriteEnd
  <2>1. /\ UNCHANGED <<valid, curr>> /\ mode' \in {"idle", "done"} /\ ~changed'
    BY <1>4 DEF WriteEnd
  <2>2. QED
    BY <1>4, <2>1, KeepMarks, WriteSync DEF SyncInv, Marked, StartsFresh
<1>5. CASE Exit \/ MinimizeEnd
  <2>1. /\ valid' = {} /\ mode' = "start" /\ visible' = [s \in Sym |-> no] /\ write' = {}
        /\ UNCHANGED <<session, config, bytool>>
    BY <1>5 DEF Exit, MinimizeEnd, Restart
  <2>2. QED
    BY <2>1, KeepMarks, KeepSynced DEF SyncInv, Marked, StartsFresh
<1>6. ASSUME NEW s \in Sym, Calc(s) PROVE SyncInv'
  <2>1. /\ CalcSymPlain(s) \/ CalcChoice(s)
        /\ UNCHANGED <<mode, session, config, bytool, tmp, changed>>
        /\ mode \in {"read", "idle", "pass", "write"}
    BY <1>6, CalcSymIs DEF Calc, sessionVars, CalcSymPlain, CalcChoice
  <2>0. Computing(s)
    BY <2>1 DEF Computing
  <2>2. ChoiceKept'
    BY <2>0, CalcKept DEF SyncInv
  <2>3. Marked'
    <3>1. AllMarked => AllMarked'
      BY <2>0, CalcMarked
    <3>2. QED
      BY <2>1, <3>1 DEF SyncInv, Marked
  <2>4. ByTool' /\ StartsFresh'
    BY <2>1 DEF SyncInv, ByTool, StartsFresh
  <2>5. Synced'
    <3>1. ASSUME session = "sync", bytool PROVE mode # "idle" /\ \E c \in [Sym -> Tristate] : SyncWith(c)'
      <4>1. mode # "idle" /\ \E c \in [Sym -> Tristate] : SyncWith(c)
        BY <2>1, <3>1 DEF SyncInv, Synced
      <4>2. PICK c \in [Sym -> Tristate] : SyncWith(c)
        BY <4>1
      <4>3. SyncWith(c)'
        BY <2>1, <4>2, CalcSymSync, CalcChoiceSync
      <4>4. QED
        BY <4>1, <4>3
    <3>2. QED
      BY <2>1, <3>1 DEF Synced
  <2>6. QED
    BY <2>2, <2>3, <2>4, <2>5 DEF SyncInv
<1>7. ASSUME NEW s \in Sym, Answer(s) PROVE SyncInv'
  <2>1. PICK val \in Tristate : SetTristateValue(s, val)
    BY <1>7, AnswerIs
  <2>2. /\ mode = "idle" /\ mode' = "idle" /\ UNCHANGED <<curr, write, session, config, bytool>>
        /\ \/ valid' = {}
           \/ valid' = valid /\ changed' = changed
    BY <1>7, <2>1 DEF Answer, SetTristateValue, ClearAllValid
  <2>3. ByTool' /\ Synced'
    BY <2>2 DEF SyncInv, ByTool, Synced
  <2>4. Marked'
    BY <2>2, KeepMarks DEF SyncInv, Marked
  <2>5. QED
    BY <2>2, <2>3, <2>4, KeepMarks DEF SyncInv, StartsFresh
<1>8. ASSUME NEW answer, answer \in Tristate => session = "defconfig",
             answer \in Tristate \cup {def_default}, AnswerAll(answer)
      PROVE  SyncInv'
  <2>1. /\ mode = "new" /\ mode' = "pass" /\ valid' = {}
        /\ UNCHANGED <<write, session, config, bytool, visible, userSel>>
    BY <1>8 DEF AnswerAll, SetAllNewSymbols, ClearAllValid
  <2>2. ByTool' /\ Synced'
    <3>1. CASE session # "sync"
      BY <2>1, <3>1, KeepSynced
    <3>2. CASE session = "sync"
      <4>1. user' = user /\ hasUser' = hasUser
        BY <1>8, <3>2 DEF AnswerAll, SetAllNewSymbols
      <4>2. QED
        BY <2>1, <3>2, <4>1, KeepSynced
    <3>3. QED
      BY <3>1, <3>2
  <2>3. QED
    BY <2>1, <2>2, KeepMarks DEF SyncInv, Marked, StartsFresh
<1>13. ASSUME NEW s \in Choices, AnswerChoice(s) PROVE SyncInv'
  <2>1. /\ Computing(s) /\ s \in Sym /\ SetAllChoiceValues(s) /\ mode = "pass"
        /\ UNCHANGED <<mode, session, config, bytool, tmp, changed>>
    BY <1>13, StructureAssumption DEF AnswerChoice, Computing, sessionVars, SetAllChoiceValues
  <2>2. ChoiceKept' /\ AllMarked'
    BY <2>1, CalcKept, CalcMarked DEF SyncInv, Marked
  <2>3. ByTool' /\ StartsFresh'
    BY <2>1 DEF SyncInv, ByTool, StartsFresh
  <2>4. Synced'
    <3>1. ASSUME session = "sync", bytool PROVE \E c \in [Sym -> Tristate] : SyncWith(c)'
      <4>1. PICK c \in [Sym -> Tristate] : SyncWith(c)
        BY <2>1, <3>1 DEF SyncInv, Synced
      <4>2. SyncWith(c)'
        BY <2>1, <4>1, SetAllSync
      <4>3. QED
        BY <4>2
    <3>2. QED
      BY <2>1, <3>1 DEF Synced
  <2>5. QED
    BY <2>2, <2>3, <2>4 DEF SyncInv, Marked
<1>9. CASE MinimizeBegin
  <2>1. /\ mode = "idle" /\ mode' = "write" /\ valid' = {} /\ UNCHANGED <<session, config, bytool>>
    BY <1>9 DEF MinimizeBegin, ClearAllValid
  <2>2. ByTool' /\ Synced'
    BY <2>1 DEF SyncInv, ByTool, Synced
  <2>3. QED
    BY <2>1, <2>2, KeepMarks DEF SyncInv, Marked, StartsFresh
<1>10. CASE ReadDefconfig
  <2>1. ~bytool' /\ UNCHANGED <<valid, curr, write, mode, changed, visible>>
    BY <1>10 DEF ReadDefconfig, symVars
  <2>2. Marked'
    BY <2>1, KeepMarks DEF SyncInv, Marked
  <2>3. QED
    BY <2>1, <2>2, KeepMarks DEF SyncInv, ByTool, Synced, StartsFresh
<1>11. CASE UNCHANGED vars
  <2>1. UNCHANGED <<valid, curr, write, mode, changed, visible, sel, user, userSel, hasUser,
                    session, config, bytool, tmp>>
    BY <1>11 DEF vars, symVars, sessionVars
  <2>2. Marked'
    BY <2>1, KeepMarks DEF SyncInv, Marked
  <2>3. ByTool' /\ Synced'
    BY <2>1 DEF SyncInv, ByTool, Synced, SyncWith
  <2>4. QED
    BY <2>1, <2>2, <2>3, KeepMarks DEF SyncInv, StartsFresh
<1>12. QED
  BY <1>1, <1>2, <1>3, <1>4, <1>5, <1>6, <1>7, <1>8, <1>9, <1>10, <1>11, <1>13
     DEF DefNext, Others, Next, def_default

\* The sync check of toplevel.mk never stops a build over a .config that a tool
\* wrote: for every menu whose defaults can be answered, whose choices have a value
\* to show and whose tristate choices hold nothing but their values, whatever was
\* answered before.
THEOREM Syncs == DefaultsShown /\ ValuesShown /\ ValuesOnly => (DefSpec => []InSync)
<1> SUFFICES ASSUME DefaultsShown, ValuesShown, ValuesOnly PROVE DefSpec => []InSync
  OBVIOUS
<1>1. DefInit => Cached /\ SyncInv
  BY DEF DefInit, Init, Fresh, Cached, SymbolsFresh, Seen, Modular, SyncInv, ChoiceKept,
         Marked, AllMarked, ByTool, StartsFresh, Synced
<1>2. IInv /\ Cached /\ SyncInv /\ [DefNext]_<<vars, defVars>> => Cached' /\ SyncInv'
  BY NextCached, NextSync
<1>3. SyncInv => InSync
  BY DEF SyncInv, Synced, InSync
<1>4. QED
  BY <1>1, <1>2, <1>3, Invariance, PTL DEF DefSpec

-----------------------------------------------------------------------------
(* The minimal file.                                                       *)

\* What a read of the minimal file f has to make of it: of a symbol that is no
\* choice value the value c[s], from its line or else from its defaults ...
PlainKept(f, c, s) ==
  /\ f[s] = NoLine => c[s] = Final(s, DefaultVal(s, c), c)
  /\ f[s] # NoLine => /\ f[s] = c[s] /\ Visibility(s, c) # no
                      /\ c[s] = Final(s, EXPR_AND(c[s], Visibility(s, c)), c)

\* ... and of a choice the value g, if it is at y: g has the only line among its
\* values, or is what the choice takes without one.
SelectionKept(f, c, s, g) ==
  /\ g \in ShownIn(s, c) /\ f[g] \in {NoLine, yes}
  /\ f[g] = NoLine => g = ChoiceDefault(s, ShownIn(s, c), c)
  /\ \A v \in Values(s) : c[v] = IF v = g THEN yes ELSE no
  /\ \A v \in Values(s) \ {g} : f[v] = NoLine
ChoiceKeeps(f, c, s) ==
  /\ c[s] = ChoiceIs(s, c)
  /\ c[s] = yes => \E g \in Values(s) : SelectionKept(f, c, s, g)
  /\ c[s] # yes => \A v \in Values(s) : c[v] = no /\ f[v] = NoLine
MiniOf(f, c) ==
  /\ \A s \in Sym : c[s] = mod => Type[s] = "tri"
  /\ \A s \in Sym \ (Choices \cup ChoiceVals) : PlainKept(f, c, s)
  /\ \A s \in Choices : ChoiceKeeps(f, c, s)

\* The lines conf_write() prints when the values are c.
Printed(c) ==
  [s \in Sym \ Choices |->
     IF \/ Visibility(s, c) # no
        \/ s \notin ChoiceVals /\ (RevDepVal(s, c) # no \/ VisibleDefaults(s, c) # {})
     THEN c[s] ELSE NoLine]

\* The answers give the values c, which is what was computed so far, and no choice
\* value is marked for writing that cannot be seen.
Fixed(c) ==
  /\ \A s \in Sym : c[s] = Recalc(s, c, user, hasUser, userSel)
  /\ \A s \in valid : curr[s] = c[s]
  /\ \A v \in ChoiceVals : visible[v] # no \/ v \in write => Visibility(v, c) # no

\* The same while the values are first computed.
Clean ==
  \A v \in ChoiceVals :
    visible[v] # no \/ v \in write => ChoiceOf[v] \in valid /\ Visibility(v, curr) # no

\* The invariant behind DefconfigKeeps.
Loaded ==
  /\ mode = "read" => Clean
  /\ mode = "idle" /\ ops = 0 => valid = Sym /\ Clean
  /\ mode = "write" /\ session = "menu" => phase = "minimize" \/ ops # 0
  /\ mode \in {"new", "pass"} => session # "menu"
Minimizing ==
  phase = "minimize" => mode = "write" /\ \E c \in [Sym -> Tristate] : Fixed(c)
Saved ==
  phase = "saved" =>
    mode = "start" /\ \E c \in [Sym -> Tristate] : MiniOf(mini, c) /\ full = Printed(c)
Again ==
  phase = "again" =>
    /\ mode # "idle"
    /\ mode = "start" => \E c \in [Sym -> Tristate] : MiniOf(config, c) /\ full = Printed(c)
    /\ mode \notin {"start", "done"} =>
         session = "defconfig" /\ \E c \in [Sym -> Tristate] : Fixed(c) /\ full = Printed(c)
    /\ mode = "done" => config = full
Unselected == \A v \in ChoiceVals : revDep[v] = no
KeepInv == Unselected /\ Marked /\ StartsFresh /\ Loaded /\ Minimizing /\ Saved /\ Again

\* SYMBOL_WRITE is right whenever the values are: steps that clear the cache, or
\* touch neither a value nor the marks, keep it so.
LEMMA KeepMarked ==
  ASSUME valid' = {} \/ (AllMarked /\ UNCHANGED <<valid, curr, write>>)
  PROVE  AllMarked'
<1>1. CASE valid' = {}
  BY <1>1 DEF AllMarked
<1>2. CASE AllMarked /\ UNCHANGED <<valid, curr, write>>
  BY <1>2 DEF AllMarked, NewWrite, NewWriteAt
<1>3. QED
  BY <1>1, <1>2

\* Every step leaves all that can be seen to be written.
LEMMA NextMarked ==
  ASSUME ValuesOnly, IInv, Cached, Marked, [DefNext]_<<vars, defVars>>
  PROVE  Marked'
<1>1. ASSUME NEW what, ReadBegin(what) PROVE Marked'
  BY <1>1, KeepMarked DEF ReadBegin, Marked
<1>2. CASE ReadEnd
  BY <1>2, KeepMarked DEF ReadEnd, Marked
<1>3. CASE WriteBegin
  BY <1>3, KeepMarked DEF WriteBegin, ClearAllValid, Marked
<1>4. CASE WriteEnd
  BY <1>4 DEF WriteEnd, Marked
<1>5. CASE Exit \/ MinimizeEnd
  BY <1>5, KeepMarked DEF Exit, MinimizeEnd, Restart, Marked
<1>6. ASSUME NEW s \in Sym, Calc(s) PROVE Marked'
  <2>1. Computing(s) /\ UNCHANGED <<mode, changed>>
    BY <1>6, CalcSymIs DEF Calc, sessionVars, Computing, CalcSymPlain, CalcChoice
  <2>2. AllMarked => AllMarked'
    BY <2>1, CalcMarked
  <2>3. QED
    BY <2>1, <2>2 DEF Marked
<1>7. ASSUME NEW s \in Sym, Answer(s) PROVE Marked'
  <2>1. PICK val \in Tristate : SetTristateValue(s, val)
    BY <1>7, AnswerIs
  <2>2. /\ mode = "idle" /\ mode' = "idle" /\ UNCHANGED <<curr, write>>
        /\ \/ valid' = {}
           \/ valid' = valid /\ changed' = changed
    BY <1>7, <2>1 DEF Answer, SetTristateValue, ClearAllValid
  <2>3. QED
    BY <2>2, KeepMarked DEF Marked
<1>8. ASSUME NEW answer, AnswerAll(answer) PROVE Marked'
  BY <1>8, KeepMarked DEF AnswerAll, SetAllNewSymbols, ClearAllValid, Marked
<1>9. CASE MinimizeBegin
  BY <1>9, KeepMarked DEF MinimizeBegin, ClearAllValid, Marked
<1>10. CASE UNCHANGED <<symVars, mode>>
  <2>1. UNCHANGED <<valid, curr, write, changed, mode>>
    BY <1>10 DEF symVars
  <2>2. QED
    BY <2>1, KeepMarked DEF Marked
<1>12. ASSUME NEW c \in Choices, AnswerChoice(c) PROVE Marked'
  <2>1. Computing(c) /\ c \in Sym /\ UNCHANGED mode /\ AllMarked
    BY <1>12, StructureAssumption DEF AnswerChoice, Computing, sessionVars, Marked
  <2>2. QED
    BY <2>1, CalcMarked DEF Marked
<1>11. QED
  BY <1>1, <1>2, <1>3, <1>4, <1>5, <1>6, <1>7, <1>8, <1>9, <1>10, <1>12
     DEF DefNext, Others, Next, ReadDefconfig, vars, sessionVars

\* A value of a bool choice that can be seen is seen at y, with its choice at y.
LEMMA SeenInBoolChoice ==
  ASSUME BoolChoices, NEW v \in ChoiceVals, NEW c \in [Sym -> Tristate],
         c[ChoiceOf[v]] # mod, Visibility(v, c) # no
  PROVE  Visibility(v, c) = yes /\ c[ChoiceOf[v]] = yes
<1>1. v \in Sym \ Choices /\ ChoiceOf[v] \in Sym /\ c[ChoiceOf[v]] \in Tristate
  BY StructureAssumption
<1>2. ExprVal(Prompt[v], c) # no
  BY DEF Visibility
<1>3. c[ChoiceOf[v]] = yes
  BY <1>1, <1>2, ChoiceAssumption
<1>4. QED
  BY <1>1, <1>3, NoModuleSeen

\* A computation shows a choice value, or marks it for writing, only when it can be
\* seen with its choice as it is computed.
LEMMA CalcShows ==
  ASSUME BoolChoices, IInv, NEW s \in Sym, Computing(s),
         NEW v \in ChoiceVals, visible'[v] # no \/ v \in write'
  PROVE  \/ visible[v] # no \/ v \in write
         \/ ChoiceOf[v] \in valid \cup {s} /\ Visibility(v, curr') # no
<1>1. /\ curr \in [Sym -> Tristate] /\ curr' \in [Sym -> Tristate]
      /\ visible \in [Sym -> Tristate] /\ v \in Sym \ Choices
      /\ \A r \in Deps(s) : curr[r] = curr'[r]
  BY CalcLocal, StructureAssumption DEF IInv, TypeOK, SymTypeOK
<1>2. CASE s \notin Choices
  <2>0. CalcSymPlain(s)
    BY <1>2, CalcLocal
  <2>1. v # s => visible'[v] = visible[v] /\ (v \in write' => v \in write)
    BY <1>1, <2>0 DEF CalcSymPlain
  <2>2. CASE v = s
    <3>1. VisibleDefaults(v, curr) = {}
      BY ChoiceValueAssumption DEF VisibleDefaults
    <3>2. visible'[v] = Visibility(v, curr) /\ (v \in write' => v \in write \/ Visibility(v, curr) # no)
      BY <1>1, <2>0, <2>2, <3>1 DEF CalcSymPlain, NewWrite, NewWriteAt
    <3>3. Visibility(v, curr') = Visibility(v, curr)
      BY <1>1, <2>2, Frame
    <3>4. ChoiceOf[v] \in valid
      BY <2>0, <2>2 DEF CalcSymPlain, Deps
    <3>5. QED
      BY <3>2, <3>3, <3>4
  <2>3. QED
    BY <2>1, <2>2
<1>3. CASE s \in Choices
  <2> DEFINE new == NewVal(s, curr)
  <2>1. /\ StoreChoice(s) /\ v # s /\ new = Final(s, no, curr)
        /\ curr' = [curr EXCEPT ![s] = ChoiceIs(s, curr)]
    BY <1>1, <1>3, CalcLocal, StoreIs
  <2>2. /\ visible'[v] = IF new = yes /\ v \in Values(s)
                         THEN Visibility(v, [curr EXCEPT ![s] = new]) ELSE visible[v]
        /\ v \in write' => v \in write \/ (v \in Values(s) /\ visible'[v] # no)
    BY <1>1, <2>1 DEF StoreChoice, ChoiceVal, AtChoice
  <2>3. CASE ~(new = yes /\ v \in Values(s))
    BY <2>2, <2>3
  <2>4. CASE new = yes /\ v \in Values(s) /\ visible'[v] # no
    <3>1. v \in ShownIn(s, curr)
      BY <2>2, <2>4 DEF ShownIn
    <3>2. curr' = [curr EXCEPT ![s] = new]
      BY <2>1, <2>4, <3>1 DEF ChoiceIs
    <3>3. QED
      BY <1>1, <2>2, <2>4, <3>2 DEF Values
  <2>5. QED
    BY <2>2, <2>3, <2>4
<1>4. QED
  BY <1>2, <1>3

\* The first computation after a read shows and marks no choice value that cannot
\* be seen ...
LEMMA CalcClean ==
  ASSUME BoolChoices, IInv, Clean, NEW s \in Sym, CalcSymPlain(s) \/ CalcChoice(s)
  PROVE  Clean'
<1>1. /\ curr \in [Sym -> Tristate] /\ curr' \in [Sym -> Tristate]
      /\ valid' = valid \cup {s} /\ s \notin valid /\ Computing(s)
      /\ \A t \in Sym : t # s => curr'[t] = curr[t]
      /\ \A t \in valid' : t \in Sym /\ \A r \in Deps(t) : curr[r] = curr'[r]
  BY CalcLocal DEF Computing, CalcSymPlain, CalcChoice
<1>2. SUFFICES ASSUME NEW v \in ChoiceVals, visible'[v] # no \/ v \in write'
               PROVE  ChoiceOf[v] \in valid' /\ Visibility(v, curr') # no
  BY DEF Clean
<1>3. CASE visible[v] # no \/ v \in write
  <2>1. ChoiceOf[v] \in valid /\ Visibility(v, curr) # no
    BY <1>3 DEF Clean
  <2>2. ChoiceOf[v] \in Choices /\ v \in Values(ChoiceOf[v])
        /\ \A r \in Deps(ChoiceOf[v]) \cup {ChoiceOf[v]} : curr[r] = curr'[r]
    BY <1>1, <2>1, StructureAssumption DEF Values
  <2>3. Visibility(v, curr') = Visibility(v, curr)
    BY <1>1, <2>2, ValuesFrame
  <2>4. QED
    BY <1>1, <2>1, <2>3
<1>4. QED
  BY <1>1, <1>2, <1>3, CalcShows

\* ... and computing again what the answers give changes nothing.
LEMMA CalcFixed ==
  ASSUME BoolChoices, IInv, Picked, NEW c \in [Sym -> Tristate], Fixed(c),
         NEW s \in Sym, Computing(s)
  PROVE  Fixed(c)'
<1>1. /\ curr \in [Sym -> Tristate] /\ curr' \in [Sym -> Tristate]
      /\ valid \in SUBSET Sym /\ s \notin valid /\ valid' \subseteq valid \cup {s}
      /\ Deps(s) \subseteq valid /\ \A t \in valid : Deps(t) \subseteq valid
      /\ \A t \in Sym : t # s => curr'[t] = curr[t]
      /\ \A t \in valid : curr[t] = c[t]
  BY CalcLocal DEF Fixed, IInv, TypeOK, SymTypeOK, Closed
<1>2. \A t \in Sym : c[t] = Recalc(t, c, user', hasUser', userSel')
  <2>1. TAKE t \in Sym
  <2>2. c[t] = Recalc(t, c, user, hasUser, userSel)
    BY DEF Fixed
  <2>3. /\ userSel' = userSel
        /\ t \notin Choices => (t \in hasUser' <=> t \in hasUser) /\ (t \in hasUser => user'[t] = user[t])
    BY StructureAssumption
       DEF Computing, CalcSymPlain, CalcChoice, SetAllChoiceValues, IInv, TypeOK, SymTypeOK
  <2>4. QED
    BY ONLY <2>2, <2>3, RecalcUses, t \in Sym
<1>3. curr'[s] = c[s]
  <2>1. curr'[s] = Recalc(s, curr, user, hasUser, userSel)
    <3>1. CASE s \in Choices
      <4>1. curr' = [curr EXCEPT ![s] = ChoiceIs(s, curr)]
        BY <3>1, CalcLocal, StoreIs
      <4>2. QED
        BY <1>1, <3>1, <4>1 DEF Recalc
    <3>2. CASE s \notin Choices
      BY <1>1, <3>2, CalcLocal, CalcIsRecalc
    <3>3. QED
      BY <3>1, <3>2
  <2>2. Recalc(s, curr, user, hasUser, userSel) = Recalc(s, c, user, hasUser, userSel)
    BY ONLY <1>1, RecalcFrame, s \in Sym, c \in [Sym -> Tristate]
  <2>3. QED
    BY <2>1, <2>2 DEF Fixed
<1>4. \A t \in valid \cup {s} : curr'[t] = c[t]
  BY <1>1, <1>3
<1>5. ASSUME NEW v \in ChoiceVals, visible'[v] # no \/ v \in write' PROVE Visibility(v, c) # no
  <2>1. CASE visible[v] # no \/ v \in write
    BY <2>1 DEF Fixed
  <2>2. CASE ChoiceOf[v] \in valid \cup {s} /\ Visibility(v, curr') # no
    <3>1. ChoiceOf[v] \in Choices /\ v \in Values(ChoiceOf[v])
          /\ \A r \in Deps(ChoiceOf[v]) \cup {ChoiceOf[v]} : curr'[r] = c[r]
      BY <1>1, <1>4, <2>2, StructureAssumption DEF Values
    <3>2. Visibility(v, curr') = Visibility(v, c)
      BY <1>1, <3>1, ValuesFrame
    <3>3. QED
      BY <2>2, <3>2
  <2>3. QED
    BY <1>5, <2>1, <2>2, CalcShows
<1>6. QED
  BY <1>1, <1>2, <1>4, <1>5 DEF Fixed

\* What is computed and shown when all is valid is what the answers give.
LEMMA CleanFixed ==
  ASSUME IInv, Cached, Picked, Clean, valid = Sym
  PROVE  Fixed(curr)
<1>1. \A s \in Sym : curr[s] = Recalc(s, curr, user, hasUser, userSel)
  BY ValidSettled
<1>2. QED
  BY <1>1 DEF Fixed, Clean

\* conf_write() prints the lines of the values that the answers give.
LEMMA OutputPrinted ==
  ASSUME IInv, Cached, AllMarked, valid = Sym, NEW c \in [Sym -> Tristate], Fixed(c)
  PROVE  curr = c /\ Output = Printed(c)
<1>1. curr \in [Sym -> Tristate]
  BY DEF IInv, TypeOK, SymTypeOK
<1>2. curr = c
  BY <1>1 DEF Fixed
<1>3. ASSUME NEW s \in Sym \ Choices PROVE Output[s] = Printed(c)[s]
  <2>1. Output[s] = IF s \in write THEN curr[s] ELSE NoLine
    BY OutputIs
  <2>2. CASE s \in ChoiceVals
    <3>1. s \in write <=> Visibility(s, c) # no
      BY <1>2, <2>2 DEF AllMarked, Fixed
    <3>2. QED
      BY <1>2, <2>1, <2>2, <3>1 DEF Printed
  <2>3. CASE s \notin ChoiceVals
    <3>1. s \in write <=> NewWrite(s, c)
      BY <1>2, <2>3 DEF AllMarked
    <3>2. QED
      BY <1>2, <2>1, <2>3, <3>1 DEF Printed, NewWrite, NewWriteAt, RevDepVal
  <2>4. QED
    BY <2>2, <2>3
<1>4. Output = [s \in Sym \ Choices |-> Output[s]]
  BY DEF Output
<1>5. Printed(c) = [s \in Sym \ Choices |-> Printed(c)[s]]
  BY DEF Printed
<1>6. QED
  BY <1>2, <1>3, <1>4, <1>5

\* A symbol without a line in the minimal file cannot be changed, or has the value
\* of its defaults; one with a line can be seen.
LEMMA PlainMini ==
  ASSUME DefaultsShown, IInv, Cached, AllMarked, valid = Sym,
         NEW s \in Sym \ (Choices \cup ChoiceVals)
  PROVE  PlainKept(Minimal, curr, s)
<1> DEFINE vis == Visibility(s, curr)
           rev == RevDepVal(s, curr)
           def == DefaultVal(s, curr)
           b == Base(s, curr, user, hasUser)
<1>1. /\ curr \in [Sym -> Tristate] /\ user[s] \in Tristate /\ curr[s] \in Tristate
      /\ vis \in Tristate /\ rev \in Tristate /\ def \in Tristate
      /\ vis # no => DirDepVal(s, curr) = yes /\ def <= vis
  BY VisibilityType, DefaultType, SeenDir DEF IInv, TypeOK, SymTypeOK, DefaultsShown
<1>2. curr[s] = Final(s, b, curr)
  BY NewValIs DEF Cached, SymbolsFresh, Val
<1>3. /\ vis # no => s \in write
      /\ Output[s] = IF s \in write THEN curr[s] ELSE NoLine
      /\ visible[s] = vis /\ revDep[s] = rev
  BY OutputIs DEF AllMarked, NewWrite, NewWriteAt, Cached, Seen
<1>4. vis # no => StringDefault(s) = Final(s, def, curr)
  BY <1>1, <1>3 DEF StringDefault, Final, WithSelect, IsBool
<1>5. Minimal[s] = IF s \in write /\ vis > rev /\ curr[s] # StringDefault(s)
                   THEN curr[s] ELSE NoLine
  BY <1>3 DEF Minimal, Changable, ImpliedByChoice
<1>6. vis # no => b \in Tristate /\ b <= vis
  BY <1>1 DEF Base, EXPR_AND
<1>7. ASSUME Minimal[s] = NoLine PROVE curr[s] = Final(s, def, curr)
  <2>1. CASE b = def
    BY <1>2, <2>1
  <2>2. CASE b # def
    <3>1. vis # no
      BY <2>2 DEF Base
    <3>2. CASE vis > rev
      <4>1. curr[s] = StringDefault(s)
        BY <1>1, <1>3, <1>5, <1>7, <3>1, <3>2 DEF NoLine
      <4>2. QED
        BY <1>4, <3>1, <4>1
    <3>3. CASE ~(vis > rev)
      <4>1. EXPR_OR(b, rev) = rev /\ EXPR_OR(def, rev) = rev
        BY <1>1, <1>6, <3>1, <3>3 DEF EXPR_OR
      <4>2. Final(s, b, curr) = Final(s, def, curr)
        BY <4>1 DEF Final, WithSelect
      <4>3. QED
        BY <1>2, <4>2
    <3>4. QED
      BY <3>2, <3>3
  <2>3. QED
    BY <2>1, <2>2
<1>8. ASSUME Minimal[s] # NoLine
      PROVE  Minimal[s] = curr[s] /\ vis # no /\ curr[s] = Final(s, EXPR_AND(curr[s], vis), curr)
  <2>1. Minimal[s] = curr[s] /\ vis # no
    BY <1>1, <1>5, <1>8
  <2>2. QED
    BY <1>1, <1>2, <1>6, <2>1, PlainRepeats
<1>9. QED
  BY <1>7, <1>8 DEF PlainKept

\* Of a bool choice at y the minimal file has at most the line of the value it
\* selects, and that unless the choice takes the value anyway.
LEMMA ChoiceMini ==
  ASSUME BoolChoices, IInv, Cached, Picked, AllMarked, Unselected, valid = Sym,
         NEW s \in Choices
  PROVE  ChoiceKeeps(Minimal, curr, s)
<1>1. /\ curr \in [Sym -> Tristate] /\ user \in [Sym -> Tristate] /\ s \in Sym
      /\ Values(s) \subseteq ChoiceVals /\ ChoiceVals \subseteq Sym \ Choices
      /\ curr[s] # mod
  BY StructureAssumption
     DEF IInv, TypeOK, SymTypeOK, Values, Cached, Modular, BoolChoices
<1>2. curr[s] = ChoiceIs(s, curr) /\ sel[s] = Selected(s, curr, userSel)
  BY <1>1 DEF Picked
<1>3. ASSUME NEW v \in Values(s)
      PROVE  /\ v \in Sym \ Choices /\ v \in ChoiceVals /\ ChoiceOf[v] = s
             /\ Output[v] = IF v \in write THEN curr[v] ELSE NoLine
             /\ visible[v] = Visibility(v, curr) /\ revDep[v] = no
             /\ Visibility(v, curr) \in Tristate
             /\ Visibility(v, curr) # no => Visibility(v, curr) = yes /\ curr[s] = yes
             /\ curr[v] = IF Visibility(v, curr) # no /\ sel[s] = v THEN yes ELSE no
             /\ StringDefault(v) = no
  <2>1. v \in Sym \ Choices /\ v \in ChoiceVals /\ ChoiceOf[v] = s
    BY <1>1 DEF Values
  <2>2. /\ Output[v] = IF v \in write THEN curr[v] ELSE NoLine
        /\ visible[v] = Visibility(v, curr) /\ revDep[v] = no
        /\ Visibility(v, curr) \in Tristate
    BY <1>1, <2>1, OutputIs, VisibilityType DEF Cached, Seen, Unselected
  <2>3. Visibility(v, curr) # no => Visibility(v, curr) = yes /\ curr[s] = yes
    BY <1>1, <2>1, SeenInBoolChoice
  <2>4. curr[v] = Val(v, curr, user, hasUser, sel)
    BY <1>1, <2>1, NewValIs DEF Cached, SymbolsFresh
  <2>5. curr[v] = IF Visibility(v, curr) # no /\ sel[s] = v THEN yes ELSE no
    BY <1>1, <2>1, <2>3, <2>4, ValOfChoiceValue
  <2>6. StringDefault(v) = no
    <3>1. DefaultVal(v, curr) = no
      BY <2>1, ChoiceValueAssumption DEF DefaultVal, VisibleDefaults
    <3>2. QED
      BY <2>2, <3>1 DEF StringDefault, EXPR_OR
  <2>7. QED
    BY <2>1, <2>2, <2>3, <2>5, <2>6
<1>4. ASSUME NEW v \in Values(s)
      PROVE  /\ Minimal[v] \in {NoLine, yes}
             /\ Minimal[v] = yes => Visibility(v, curr) # no /\ sel[s] = v
  <2>1. Minimal[v] # NoLine => Minimal[v] = curr[v] /\ curr[v] # no
    BY <1>3 DEF Minimal
  <2>2. QED
    BY <1>3, <2>1 DEF NoLine
<1>5. ASSUME curr[s] # yes, NEW v \in Values(s) PROVE curr[v] = no /\ Minimal[v] = NoLine
  BY <1>3, <1>4, <1>5
<1>6. ASSUME curr[s] = yes PROVE \E g \in Values(s) : SelectionKept(Minimal, curr, s, g)
  <2> DEFINE g == sel[s]
  <2>1. [curr EXCEPT ![s] = yes] = curr /\ Final(s, no, curr) = yes /\ ShownIn(s, curr) # {}
    BY <1>1, <1>2, <1>6 DEF ChoiceIs
  <2>2. ShownIn(s, curr) = {v \in Values(s) : Visibility(v, curr) # no}
    BY <2>1 DEF ShownIn
  <2>3. g \in ShownIn(s, curr) /\ g \in Values(s) /\ Visibility(g, curr) # no
    BY <1>1, <1>2, <2>1, <2>2, SelectedShown
  <2>4. ASSUME Minimal[g] = NoLine PROVE g = ChoiceDefault(s, ShownIn(s, curr), curr)
    <3>1. curr[g] = yes /\ g \in write /\ Changable(g)
      BY <1>1, <1>3, <2>3 DEF AllMarked, Changable
    <3>2. Output[g] = yes /\ Output[g] # StringDefault(g) /\ g \in Sym \ Choices
      BY <1>3, <2>3, <3>1
    <3>3. ImpliedByChoice(g)
      BY <2>4, <3>1, <3>2 DEF Minimal, NoLine
    <3>4. {v \in Values(s) : visible[v] # no} = ShownIn(s, curr)
      BY <1>3, <2>2
    <3>5. QED
      BY <1>3, <2>3, <3>3, <3>4 DEF ImpliedByChoice
  <2>5. \A v \in Values(s) : curr[v] = IF v = g THEN yes ELSE no
    BY <1>3, <2>3
  <2>6. \A v \in Values(s) \ {g} : Minimal[v] = NoLine
    BY <1>4
  <2>7. Minimal[g] \in {NoLine, yes}
    BY <1>4, <2>3
  <2> HIDE DEF g
  <2>8. QED
    BY <2>3, <2>4, <2>5, <2>6, <2>7 DEF SelectionKept
<1>7. QED
  BY <1>2, <1>5, <1>6 DEF ChoiceKeeps

\* conf_read() of the minimal file: its lines and the defaults give the values it
\* was made of.
LEMMA ReadFixed ==
  ASSUME BoolChoices, IInv, NEW c \in [Sym -> Tristate], MiniOf(config, c),
         visible = [s \in Sym |-> no], write = {}, NEW what, ReadBegin(what)
  PROVE  Fixed(c)'
<1>1. /\ valid' = {} /\ visible' = visible /\ write' = write
      /\ ChoiceVals \subseteq Sym \ Choices /\ Choices \subseteq Sym
      /\ \A s \in Choices : Values(s) \subseteq ChoiceVals
      /\ config \in File /\ user \in [Sym -> Tristate]
  BY StructureAssumption DEF ReadBegin, Values, IInv, TypeOK, SymTypeOK
<1>2. ASSUME NEW s \in Choices PROVE c[s] # mod /\ c[s] = ChoiceIs(s, c)
  BY <1>1, <1>2 DEF MiniOf, ChoiceKeeps, BoolChoices
<1>3. \A s \in Choices : \A v \in Values(s) : config[v] \in {NoLine, yes}
  <2>1. SUFFICES ASSUME NEW s \in Choices, NEW v \in Values(s)
                 PROVE  config[v] \in {NoLine, yes}
    OBVIOUS
  <2>2. ChoiceKeeps(config, c, s)
    BY DEF MiniOf
  <2>3. QED
    BY <2>2 DEF ChoiceKeeps, SelectionKept
<1>4. ASSUME NEW s \in Choices
      PROVE  /\ Lines(s, yes) = {v \in Values(s) : config[v] = yes}
             /\ userSel'[s] = IF Lines(s, yes) = {} THEN NoSym ELSE LastSym(Lines(s, yes))
  <2>1. \A v \in Values(s) : config[v] = yes => Parsed(v)
    BY DEF Parsed, NoLine
  <2>2. QED
    BY <2>1 DEF Lines, ReadBegin, Parsed, NoLine
<1>5. ASSUME NEW s \in Sym \ (Choices \cup ChoiceVals)
      PROVE  c[s] = Recalc(s, c, user', hasUser', userSel')
  <2>1. PlainKept(config, c, s) /\ (c[s] = mod => Type[s] = "tri")
    BY DEF MiniOf
  <2>2. Parsed(s) <=> config[s] # NoLine
    BY <2>1 DEF PlainKept, Parsed
  <2>3. /\ s \in hasUser' <=> config[s] # NoLine
        /\ config[s] # NoLine => user'[s] = c[s]
    BY <2>1, <2>2 DEF ReadBegin, PlainKept
  <2>4. c[s] = Final(s, Base(s, c, user', hasUser'), c)
    BY <2>1, <2>3 DEF PlainKept, Base
  <2>5. QED
    BY <2>4 DEF Recalc, Val
<1>6. ASSUME NEW s \in Choices PROVE c[s] = Recalc(s, c, user', hasUser', userSel')
  BY <1>2, <1>6 DEF Recalc
<1>7. ASSUME NEW v \in ChoiceVals PROVE c[v] = Recalc(v, c, user', hasUser', userSel')
  <2> DEFINE s == ChoiceOf[v]
             G == [t \in Choices |-> Selected(t, c, userSel')]
  <2>1. /\ s \in Choices /\ s \in Sym /\ v \in Values(s) /\ v \notin Choices
        /\ c[s] # mod /\ ChoiceKeeps(config, c, s) /\ G[s] = Selected(s, c, userSel')
    BY <1>1, <1>2, StructureAssumption DEF Values, MiniOf
  <2>2. Visibility(v, c) # no => Visibility(v, c) = yes /\ c[s] = yes
    BY <2>1, SeenInBoolChoice
  <2>3. \E u : user' = u /\ u \in [Sym -> Tristate]
    <3>1. \A t \in Sym \ Choices : Parsed(t) => config[t] \in Tristate
      BY <1>1 DEF Parsed, File, NoLine
    <3>2. QED
      BY <3>1 DEF ReadBegin
  <2> HIDE DEF G
  <2>4. Val(v, c, user', hasUser', G) = IF Visibility(v, c) # no /\ G[s] = v THEN yes ELSE no
    BY <2>2, <2>3, ValOfChoiceValue
  <2>5. CASE c[s] # yes
    BY <2>1, <2>2, <2>4, <2>5 DEF ChoiceKeeps, Recalc, G
  <2>6. CASE c[s] = yes
    <3>1. PICK g \in Values(s) : SelectionKept(config, c, s, g)
      BY <2>1, <2>6 DEF ChoiceKeeps
    <3>2. [c EXCEPT ![s] = yes] = c /\ Final(s, no, c) = yes
      BY <2>1, <2>6 DEF ChoiceKeeps, ChoiceIs
    <3>3. g \in ShownIn(s, c) /\ Visibility(g, c) # no
      BY <3>1, <3>2 DEF SelectionKept, ShownIn
    <3>4. Selected(s, c, userSel') = g
      <4>1. CASE config[g] = yes
        <5>1. Lines(s, yes) = {g}
          BY <1>4, <2>1, <3>1, <4>1 DEF SelectionKept, NoLine
        <5>2. userSel'[s] = g
          <6>1. {g} \in SUBSET Sym /\ {g} # {}
            BY <1>1, <2>1
          <6>2. LastSym({g}) \in {g}
            BY <6>1, LastSymIn
          <6>3. QED
            BY <1>4, <2>1, <5>1, <6>2
        <5>3. QED
          BY <3>2, <3>3, <5>2 DEF Selected, PickIn
      <4>2. CASE config[g] = NoLine
        <5>1. Lines(s, yes) = {}
          BY <1>4, <2>1, <3>1, <4>2 DEF SelectionKept, NoLine
        <5>2. userSel'[s] \notin ShownIn(s, c)
          BY <1>1, <1>4, <2>1, <5>1, StructureAssumption, SMTT(30) DEF ShownIn
        <5>3. g = ChoiceDefault(s, ShownIn(s, c), c)
          BY <3>1, <4>2 DEF SelectionKept
        <5>4. QED
          BY <3>2, <5>2, <5>3 DEF Selected, PickIn
      <4>3. QED
        BY <3>1, <4>1, <4>2 DEF SelectionKept
    <3>5. Val(v, c, user', hasUser', G) = c[v]
      BY <2>1, <2>4, <3>1, <3>3, <3>4 DEF SelectionKept
    <3>6. QED
      BY <2>1, <3>5 DEF Recalc, G
  <2>7. QED
    BY <2>5, <2>6
<1>8. \A s \in Sym : c[s] = Recalc(s, c, user', hasUser', userSel')
  BY <1>5, <1>6, <1>7
<1>9. QED
  BY <1>1, <1>8 DEF Fixed

\* What does not touch the answers, the values or the marks keeps them in order, and
\* so does forgetting what is valid.
LEMMA KeepFixed ==
  ASSUME NEW c, Fixed(c), UNCHANGED <<user, hasUser, userSel, visible, write>>,
         valid' = {} \/ UNCHANGED <<valid, curr>>
  PROVE  Fixed(c)'
<1>1. \A s \in Sym : c[s] = Recalc(s, c, user', hasUser', userSel')
  <2>1. TAKE s \in Sym
  <2>2. c[s] = Recalc(s, c, user, hasUser, userSel)
    BY DEF Fixed
  <2>3. Recalc(s, c, user, hasUser, userSel) = Recalc(s, c, user', hasUser', userSel')
    BY RecalcUses
  <2>4. QED
    BY <2>2, <2>3
<1>2. QED
  BY <1>1 DEF Fixed

\* The end of conf_read() forgets only answers that are not looked at.
LEMMA ReadEndFixed ==
  ASSUME IInv, Cached, NEW c \in [Sym -> Tristate], Fixed(c), ReadEnd
  PROVE  Fixed(c)'
<1>1. /\ valid = Sym /\ UNCHANGED <<valid, curr, user, userSel, visible, write>>
      /\ \A s \in Sym : (s \in hasUser' <=> s \in hasUser) \/ visible[s] = no
      /\ curr \in [Sym -> Tristate]
  BY DEF ReadEnd, IInv, TypeOK, SymTypeOK
<1>2. curr = c
  BY <1>1 DEF Fixed
<1>3. ASSUME NEW s \in Sym PROVE c[s] = Recalc(s, c, user, hasUser', userSel)
  <2>1. c[s] = Recalc(s, c, user, hasUser, userSel)
    BY DEF Fixed
  <2>2. CASE s \in hasUser' <=> s \in hasUser
    BY <2>1, <2>2, RecalcUses
  <2>3. CASE visible[s] = no
    <3>1. Visibility(s, c) = no
      BY <1>1, <1>2, <2>3 DEF Cached, Seen
    <3>2. \A G : Val(s, c, user, hasUser, G) = Val(s, c, user, hasUser', G)
      BY <3>1, ValHidden
    <3>3. QED
      BY <2>1, <3>2 DEF Recalc
  <2>4. QED
    BY <1>1, <2>2, <2>3
<1>4. QED
  BY <1>1, <1>3 DEF Fixed

\* No select is ever noted for a choice value.
LEMMA NextUnselected ==
  ASSUME IInv, Unselected, [DefNext]_<<vars, defVars>>
  PROVE  Unselected'
<1>1. revDep \in [Sym -> Tristate] /\ ChoiceVals \subseteq Sym \ Choices
  BY StructureAssumption DEF IInv, TypeOK, SymTypeOK
<1>2. ASSUME NEW s \in Sym, Calc(s) PROVE Unselected'
  BY <1>1, <1>2 DEF Calc, CalcSym, CalcChoice, StoreChoice, Unselected
<1>7. ASSUME NEW c \in Choices, AnswerChoice(c) PROVE Unselected'
  BY <1>1, <1>7 DEF AnswerChoice, SetAllChoiceValues, StoreChoice, Unselected
<1>3. ASSUME NEW s \in Sym, Answer(s) PROVE Unselected'
  <2>1. PICK val \in Tristate : SetTristateValue(s, val)
    BY <1>3, AnswerIs
  <2>2. QED
    BY <2>1 DEF SetTristateValue, Unselected
<1>4. CASE Exit \/ MinimizeEnd
  BY <1>1, <1>4 DEF Exit, MinimizeEnd, Restart, Unselected
<1>5. CASE UNCHANGED revDep
  BY <1>5 DEF Unselected
<1>6. QED
  BY <1>2, <1>3, <1>4, <1>5, <1>7
     DEF DefNext, Others, Next, MinimizeBegin, ReadDefconfig, vars, symVars, ReadBegin, ReadEnd,
         WriteBegin, WriteEnd, AnswerAll, SetAllNewSymbols

\* The steps of the tools while nothing is minimized, or it is, or was.
LEMMA OthersKeep ==
  ASSUME BoolChoices, IInv, Cached, Sticky, KeepInv, Others
  PROVE  StartsFresh' /\ Loaded' /\ Minimizing' /\ Again'
<1>0. /\ phase # "saved" /\ (phase = "minimize" => mode = "write" /\ mode' = "write")
      /\ phase' = IF phase = "again" /\ mode' = "start" THEN "full" ELSE phase
      /\ phase' = phase => UNCHANGED full
      /\ phase = "again" => session' = "defconfig" /\ mode # "idle"
      /\ ops \in Nat
  BY OpsAssumption DEF Others, KeepInv, Minimizing, Again, IInv, TypeOK
<1>1. ASSUME NEW what, ReadBegin(what) PROVE StartsFresh' /\ Loaded' /\ Minimizing' /\ Again'
  <2>1. /\ mode = "start" /\ mode' = "read" /\ UNCHANGED <<config, visible, write>>
        /\ visible = [s \in Sym |-> no] /\ write = {} /\ ChoiceVals \subseteq Sym
    BY <1>1, StructureAssumption DEF ReadBegin, KeepInv, StartsFresh
  <2>2. Clean'
    BY <2>1 DEF Clean
  <2>3. ASSUME phase = "again" PROVE \E c \in [Sym -> Tristate] : Fixed(c)' /\ full = Printed(c)
    <3>1. PICK c \in [Sym -> Tristate] : MiniOf(config, c) /\ full = Printed(c)
      BY <2>1, <2>3 DEF KeepInv, Again
    <3>2. Fixed(c)'
      BY <1>1, <2>1, <3>1, ReadFixed
    <3>3. QED
      BY <3>1, <3>2
  <2>4. QED
    BY <1>0, <2>1, <2>2, <2>3 DEF StartsFresh, Loaded, Minimizing, Again
<1>2. CASE ReadEnd
  <2>1. /\ mode = "read" /\ valid = Sym /\ mode' = IF session = "menu" THEN "idle" ELSE "new"
        /\ UNCHANGED <<valid, curr, visible, write, session, ops>>
    BY <1>2 DEF ReadEnd
  <2>2. Clean'
    BY <2>1 DEF KeepInv, Loaded, Clean
  <2>3. ASSUME phase = "again"
        PROVE  /\ session = "defconfig"
               /\ \E c \in [Sym -> Tristate] : Fixed(c)' /\ full = Printed(c)
    BY <1>2, <2>1, <2>3, ReadEndFixed DEF KeepInv, Again
  <2>4. QED
    BY <1>0, <2>1, <2>2, <2>3 DEF StartsFresh, Loaded, Minimizing, Again
<1>3. CASE WriteBegin
  <2>1. /\ mode \in {"idle", "pass"} /\ mode' = "write" /\ (mode = "idle" => ops' = ops + 1)
        /\ UNCHANGED <<user, userSel, hasUser, curr, visible, write, session>>
        /\ valid' = {} \/ valid' = valid
    BY <1>3 DEF WriteBegin, ClearAllValid
  <2>2. \A c : Fixed(c) => Fixed(c)'
    BY <2>1, KeepFixed
  <2>3. ASSUME phase = "again"
        PROVE  \E c \in [Sym -> Tristate] : Fixed(c)' /\ full = Printed(c)
    BY <1>0, <2>1, <2>2, <2>3 DEF KeepInv, Again
  <2>4. mode = "pass" => session # "menu"
    BY DEF KeepInv, Loaded
  <2>5. ops' # 0 \/ session' # "menu"
    BY <1>0, <2>1, <2>4
  <2>6. QED
    BY <1>0, <2>1, <2>3, <2>5 DEF StartsFresh, Loaded, Minimizing, Again
<1>4. CASE WriteEnd
  <2>1. /\ mode = "write" /\ valid = Sym /\ mode' = IF session = "menu" THEN "idle" ELSE "done"
        /\ session' = session /\ ops' = ops /\ (session # "sync" => config' = Output)
    BY <1>4 DEF WriteEnd
  <2>2. phase # "minimize" /\ (session = "menu" => ops # 0)
    BY <1>0, <2>1 DEF KeepInv, Loaded
  <2>3. ASSUME phase = "again" PROVE session = "defconfig" /\ config' = full
    <3>1. session = "defconfig"
      BY <2>1, <2>3 DEF KeepInv, Again
    <3>2. PICK c \in [Sym -> Tristate] : Fixed(c) /\ full = Printed(c)
      BY <2>1, <2>3 DEF KeepInv, Again
    <3>3. Output = Printed(c)
      BY <2>1, <3>2, OutputPrinted DEF KeepInv, Marked
    <3>4. QED
      BY <2>1, <3>1, <3>2, <3>3
  <2>4. QED
    BY <1>0, <2>1, <2>2, <2>3 DEF StartsFresh, Loaded, Minimizing, Again
<1>5. CASE Exit
  BY <1>0, <1>5 DEF Exit, Restart, StartsFresh, Loaded, Minimizing, Again
<1>6. ASSUME NEW s \in Sym, Calc(s) PROVE StartsFresh' /\ Loaded' /\ Minimizing' /\ Again'
  <2>1. /\ CalcSymPlain(s) \/ CalcChoice(s)
        /\ mode \in {"read", "idle", "pass", "write"} /\ UNCHANGED <<mode, session, ops, config>>
        /\ s \notin valid
    BY <1>6, BoolValues, CalcSymIs DEF Calc, sessionVars, CalcSymPlain, CalcChoice
  <2>2. ~(mode = "idle" /\ ops = 0)
    BY <2>1 DEF KeepInv, Loaded
  <2>3. Clean => Clean'
    BY <2>1, CalcClean
  <2>4. \A c \in [Sym -> Tristate] : Fixed(c) => Fixed(c)'
    BY <2>1, CalcFixed DEF Sticky, Computing
  <2>5. phase' = phase /\ UNCHANGED full
    BY <1>0, <2>1
  <2>6. StartsFresh' /\ Loaded'
    BY <2>1, <2>2, <2>3, <2>5 DEF KeepInv, StartsFresh, Loaded
  <2>7. Minimizing'
    BY <2>1, <2>4, <2>5 DEF KeepInv, Minimizing
  <2>8. Again'
    BY <2>1, <2>4, <2>5 DEF KeepInv, Again
  <2>9. QED
    BY <2>6, <2>7, <2>8
<1>7. ASSUME NEW s \in Sym, Answer(s) PROVE StartsFresh' /\ Loaded' /\ Minimizing' /\ Again'
  <2>1. mode = "idle" /\ mode' = "idle" /\ ops' = ops + 1
    BY <1>7 DEF Answer
  <2>2. QED
    BY <1>0, <2>1 DEF StartsFresh, Loaded, Minimizing, Again
<1>8. ASSUME NEW answer, AnswerAll(answer) PROVE StartsFresh' /\ Loaded' /\ Minimizing' /\ Again'
  <2>1. /\ mode = "new" /\ mode' = "pass" /\ valid' = {}
        /\ UNCHANGED <<session, userSel, visible, write>>
        /\ phase = "again" => UNCHANGED <<user, hasUser>>
    BY <1>8 DEF AnswerAll, SetAllNewSymbols, ClearAllValid, Others
  <2>2. session # "menu"
    BY <2>1 DEF KeepInv, Loaded
  <2>3. ASSUME phase = "again"
        PROVE  /\ session = "defconfig"
               /\ \E c \in [Sym -> Tristate] : Fixed(c)' /\ full = Printed(c)
    <3>1. session = "defconfig" /\ \E c \in [Sym -> Tristate] : Fixed(c) /\ full = Printed(c)
      BY <2>1, <2>3 DEF KeepInv, Again
    <3>2. \A c : Fixed(c) => Fixed(c)'
      BY <2>1, <2>3, KeepFixed
    <3>3. QED
      BY <3>1, <3>2
  <2>4. QED
    BY <1>0, <2>1, <2>2, <2>3 DEF StartsFresh, Loaded, Minimizing, Again
<1>10. ASSUME NEW s \in Choices, AnswerChoice(s)
       PROVE  StartsFresh' /\ Loaded' /\ Minimizing' /\ Again'
  <2>1. /\ Computing(s) /\ s \in Sym /\ mode = "pass"
        /\ UNCHANGED <<mode, session, ops, config>>
    BY <1>10, StructureAssumption DEF AnswerChoice, Computing, sessionVars
  <2>2. \A c \in [Sym -> Tristate] : Fixed(c) => Fixed(c)'
    BY <2>1, CalcFixed DEF Sticky
  <2>3. phase' = phase /\ UNCHANGED full
    BY <1>0, <2>1
  <2>4. StartsFresh' /\ Loaded' /\ Minimizing'
    BY <1>0, <2>1, <2>3 DEF KeepInv, StartsFresh, Loaded, Minimizing
  <2>5. Again'
    BY <2>1, <2>2, <2>3 DEF KeepInv, Again
  <2>6. QED
    BY <2>4, <2>5
<1>9. QED
  BY <1>1, <1>2, <1>3, <1>4, <1>5, <1>6, <1>7, <1>8, <1>10 DEF Others, Next

\* Every step keeps the invariant behind DefconfigKeeps.
LEMMA NextKeep ==
  ASSUME DefaultsShown, BoolChoices, IInv, Cached, Sticky, KeepInv,
         [DefNext]_<<vars, defVars>>
  PROVE  KeepInv'
<1>1. Unselected' /\ Marked'
  BY BoolValues, NextUnselected, NextMarked DEF KeepInv
<1>2. CASE Others
  <2>1. Saved'
    BY <1>2 DEF Others, Saved
  <2>2. QED
    BY <1>1, <1>2, <2>1, OthersKeep DEF KeepInv
<1>3. CASE MinimizeBegin
  <2>1. /\ phase' = "minimize" /\ mode' = "write" /\ valid' = {} /\ valid = Sym /\ Clean
        /\ UNCHANGED <<user, userSel, hasUser, visible, write>>
        /\ curr \in [Sym -> Tristate]
    BY <1>3 DEF MinimizeBegin, ClearAllValid, KeepInv, Loaded, IInv, TypeOK, SymTypeOK
  <2>2. PICK c \in [Sym -> Tristate] : c = curr
    BY <2>1
  <2>3. Fixed(c)
    BY <2>1, <2>2, CleanFixed DEF Sticky
  <2>4. Fixed(c)'
    BY <2>1, <2>3, KeepFixed
  <2>5. QED
    BY <1>1, <2>1, <2>4 DEF KeepInv, StartsFresh, Loaded, Minimizing, Saved, Again
<1>4. CASE MinimizeEnd
  <2>1. /\ mode' = "start" /\ phase' = "saved" /\ valid = Sym /\ mini' = Minimal /\ full' = Output
        /\ visible' = [s \in Sym |-> no] /\ write' = {} /\ phase = "minimize"
    BY <1>4 DEF MinimizeEnd, Restart
  <2>2. mode = "write" /\ AllMarked
    BY <2>1 DEF KeepInv, Minimizing, Marked
  <2>3. PICK c \in [Sym -> Tristate] : Fixed(c)
    BY <2>1 DEF KeepInv, Minimizing
  <2>4. curr = c /\ Output = Printed(c)
    BY <2>1, <2>2, <2>3, OutputPrinted
  <2>5. MiniOf(Minimal, curr)
    <3>1. \A s \in Sym : curr[s] = mod => Type[s] = "tri"
      BY <2>1 DEF Cached, Modular
    <3>2. \A s \in Sym \ (Choices \cup ChoiceVals) : PlainKept(Minimal, curr, s)
      BY <2>1, <2>2, PlainMini
    <3>3. \A s \in Choices : ChoiceKeeps(Minimal, curr, s)
      BY <2>1, <2>2, ChoiceMini DEF KeepInv, Sticky
    <3>4. QED
      BY <3>1, <3>2, <3>3 DEF MiniOf
  <2>6. Saved'
    BY <2>1, <2>4, <2>5 DEF Saved
  <2>7. QED
    BY <1>1, <2>1, <2>6 DEF KeepInv, StartsFresh, Loaded, Minimizing, Again
<1>5. CASE ReadDefconfig
  <2>1. /\ phase = "saved" /\ phase' = "again" /\ config' = mini
        /\ UNCHANGED <<visible, write, mode, full>>
    BY <1>5 DEF ReadDefconfig, symVars
  <2>2. mode = "start" /\ \E c \in [Sym -> Tristate] : MiniOf(mini, c) /\ full = Printed(c)
    BY <2>1 DEF KeepInv, Saved
  <2>3. Again'
    BY <2>1, <2>2 DEF Again
  <2>4. QED
    BY <1>1, <2>1, <2>2, <2>3 DEF KeepInv, StartsFresh, Loaded, Minimizing, Saved
<1>6. CASE UNCHANGED <<vars, defVars>>
  <2>1. /\ UNCHANGED <<curr, visible, valid, hasUser, user, userSel, write>>
        /\ UNCHANGED <<mode, session, config, ops, phase, mini, full>>
    BY <1>6 DEF vars, symVars, sessionVars, defVars
  <2>2. \A c : Fixed(c) => Fixed(c)'
    BY <2>1, KeepFixed
  <2>3. Loaded' /\ StartsFresh' /\ Saved'
    BY <2>1 DEF KeepInv, Loaded, StartsFresh, Saved, Clean
  <2>4. Minimizing'
    BY <2>1, <2>2 DEF KeepInv, Minimizing
  <2>5. Again'
    BY <2>1, <2>2 DEF KeepInv, Again
  <2>6. QED
    BY <1>1, <2>3, <2>4, <2>5 DEF KeepInv
<1>7. QED
  BY <1>2, <1>3, <1>4, <1>5, <1>6 DEF DefNext

\* conf --savedefconfig loses nothing: for every menu without tristate choices whose
\* defaults can be answered, whatever .config held, conf --defconfig makes of the
\* minimal file the configuration it was made of.
THEOREM Minimizes == DefaultsShown /\ BoolChoices => (DefSpec => []DefconfigKeeps)
<1> SUFFICES ASSUME DefaultsShown, BoolChoices PROVE DefSpec => []DefconfigKeeps
  OBVIOUS
<1>1. DefInit => Cached /\ Sticky /\ KeepInv
  <2>1. DefInit => Cached /\ Sticky
    BY DEF DefInit, Init, Fresh, Cached, SymbolsFresh, Seen, Modular, Sticky, Picked, Stuck,
           NoAnswer
  <2>2. DefInit => KeepInv
    BY StructureAssumption
       DEF DefInit, Init, Fresh, KeepInv, Unselected, Marked, AllMarked, StartsFresh, Loaded,
           Minimizing, Saved, Again
  <2>3. QED
    BY <2>1, <2>2
<1>2. IInv /\ IInv' /\ Cached /\ Sticky /\ KeepInv /\ [DefNext]_<<vars, defVars>>
        => Cached' /\ Sticky' /\ KeepInv'
  BY BoolValues, NextCached, NextSticky, NextKeep
<1>3. KeepInv => DefconfigKeeps
  BY DEF KeepInv, Again, DefconfigKeeps
<1>4. QED
  BY <1>1, <1>2, <1>3, Invariance, PTL DEF DefSpec

=============================================================================
