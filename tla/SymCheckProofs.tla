---------------------------- MODULE SymCheckProofs --------------------------
(***************************************************************************)
(* sym_check_deps() finds a recursion exactly when there is one, for every *)
(* set of symbols and choices and all their dependencies, in whatever      *)
(* order the symbols are checked.                                          *)
(***************************************************************************)
EXTENDS SymCheck, TLAPS, WellFoundedInduction

(* The stack.                                                              *)

Frames == [fn : {"sym", "value", "choice", "self", "member"}, sym : Symbol, todo : SUBSET Symbol]

Looks == {"sym", "self", "member"}   \* frames of sym_check_sym_deps()
Framed(deps, f) ==
  /\ f \in Frames
  /\ f.fn \in Looks => f.todo \subseteq deps[f.sym]
  /\ f.fn = "sym" => f.sym \notin DOMAIN Of /\ f.sym \notin Choice
  /\ f.fn \in {"value", "member"} => f.sym \in DOMAIN Of
  /\ f.fn = "value" => f.todo \subseteq {Of[f.sym]}
  /\ f.fn \in {"choice", "self"} => f.sym \in Choice
  /\ f.fn = "choice" => f.todo \subseteq Values(f.sym)

(* A frame g right above f. *)
Calls(deps, f, g) ==
  /\ f.fn = "choice" => g.fn \in {"self", "member"} /\ Group(g.sym) = f.sym
  /\ g.fn \in {"self", "member"} => f.fn = "choice"
  /\ f.fn = "value" => g.fn = "choice" /\ g.sym = Of[f.sym] /\ f.todo = {}
  /\ f.fn \in Looks =>
       /\ g.fn \in {"sym", "value", "choice"} /\ g.sym \in deps[f.sym]
       /\ ~(f.fn = "member" /\ g.sym = Of[f.sym])

Main(f) == f.fn \in {"sym", "choice"}
OnStack(st, a) == \E k \in 1..Len(st) : Main(st[k]) /\ st[k].sym = a
Checking(st, s) ==
  \E k \in 1..Len(st) : \/ st[k].fn \in {"sym", "self"} /\ st[k].sym = s
                        \/ st[k].fn = "choice" /\ s \in Values(st[k].sym)

(* Calls are nested as the functions call one another, and no group is     *)
(* checked twice at once.                                                  *)
Structured(deps, st) ==
  /\ st \in Seq(Frames)
  /\ \A k \in 1..Len(st) : Framed(deps, st[k])
  /\ \A k \in 1..Len(st) : k < Len(st) => Calls(deps, st[k], st[k + 1])
  /\ st # <<>> => st[1].fn \in {"sym", "value", "choice"}
  /\ \A j, k \in 1..Len(st) : Main(st[j]) /\ Main(st[k]) /\ st[j].sym = st[k].sym => j = k

(* The flags tell what is on the stack, and a choice has those of its values. *)
MarksFit(st, CHECK, CHECKED) ==
  /\ \A s \in Symbol : s \in CHECK <=> Checking(st, s)
  /\ \A s \in Symbol : s \in CHECKED <=> Group(s) \in CHECKED
  /\ \A a \in Symbol : OnStack(st, a) => a \in CHECKED

ValuesWait(st, CHECKED) ==
  /\ \A k \in 1..Len(st) :
       st[k].fn = "value" /\ (k < Len(st) \/ st[k].todo = {}) => Of[st[k].sym] \in CHECKED
  /\ st # <<>> /\ st[Len(st)].fn = "value" =>
       IF st[Len(st)].todo = {} THEN ~OnStack(st, Of[st[Len(st)].sym])
       ELSE Of[st[Len(st)].sym] \notin CHECKED

FoundFits(st, found, trail) == found # NoSym => OnStack(st, Group(found)) /\ trail # <<>>

Loops(deps, trail) ==
  trail # <<>> =>
    /\ Recursive(deps) /\ trail # <<"unexpected">>
    /\ \A k \in DOMAIN trail :
         LET next == IF k = Len(trail) THEN Group(trail[1]) ELSE trail[k + 1]
         IN  next \in deps[trail[k]] \/ Group(trail[k]) = Group(next)

-----------------------------------------------------------------------------
(* What has been looked at while no recursion was found.                   *)

Done(st, CHECKED) == {a \in Groups : a \in CHECKED /\ ~OnStack(st, a)}

Closed(deps, done) == \A a \in done, b \in Groups : Needs(deps, a, b) => b \in done
LoopFree(deps, done) ==
  \A loop \in SUBSET done : loop # {} => \E a \in loop : \A b \in loop : ~Needs(deps, a, b)

(* Dependency t of frame k has been looked at. *)
Seen(st, done, k, t) ==
  \/ Group(t) \in done
  \/ k < Len(st) /\ st[k + 1].sym = t
  \/ st[k].fn = "member" /\ t = Of[st[k].sym]
  \/ t \in Choice /\ OnStack(st, t) /\ Values(t) \cap st[k].todo # {}

(* The choice has looked at s, itself or a value. *)
Settled(deps, done, s) == \A t \in deps[s] : (s \in DOMAIN Of /\ t = Of[s]) \/ Group(t) \in done

LooksDone(deps, st, done) ==
  \A k \in 1..Len(st) : st[k].fn \in Looks =>
    \A t \in deps[st[k].sym] \ st[k].todo : Seen(st, done, k, t)
ChoicesDone(deps, st, done) ==
  \A k \in 1..Len(st) : st[k].fn = "choice" =>
    \A s \in ({st[k].sym} \cup Values(st[k].sym)) \ st[k].todo :
      (k < Len(st) /\ st[k + 1].sym = s) \/ Settled(deps, done, s)
Begun(left, st, CHECKED) ==
  \A s \in Symbol \ left : s \in CHECKED \/ (st # <<>> /\ st[1].sym = s)

Progress(deps, left, st, CHECKED) ==
  /\ Closed(deps, Done(st, CHECKED)) /\ LoopFree(deps, Done(st, CHECKED))
  /\ LooksDone(deps, st, Done(st, CHECKED)) /\ ChoicesDone(deps, st, Done(st, CHECKED))
  /\ Begun(left, st, CHECKED)

ScanType ==
  [deps : Graphs, left : SUBSET Symbol, CHECK : SUBSET Symbol, CHECKED : SUBSET Symbol,
   stack : Seq(Frames), found : Symbol \cup {NoSym}, trail : Seq(Symbol \cup {"unexpected"})]

Good(sc) ==
  /\ sc \in ScanType
  /\ Structured(sc.deps, sc.stack)
  /\ MarksFit(sc.stack, sc.CHECK, sc.CHECKED)
  /\ ValuesWait(sc.stack, sc.CHECKED)
  /\ FoundFits(sc.stack, sc.found, sc.trail)
  /\ Loops(sc.deps, sc.trail)
  /\ sc.trail = <<>> => Progress(sc.deps, sc.left, sc.stack, sc.CHECKED)

ScanInv == Good(scan)

-----------------------------------------------------------------------------
(* Symbols and sequences.                                                  *)

LEMMA ChoiceIs ==
  ASSUME NEW c \in Choice
  PROVE  /\ c \in Symbol /\ c \notin DOMAIN Of /\ Group(c) = c /\ c \notin Values(c)
         /\ \A v \in Values(c) : v \in DOMAIN Of /\ v \in Symbol /\ Of[v] = c /\ Group(v) = c
BY ScanAssumption DEF Choice, Group, Values

LEMMA GroupIs ==
  ASSUME NEW s \in Symbol
  PROVE  /\ Group(s) \in Symbol \ DOMAIN Of /\ Group(s) \in Groups /\ Group(Group(s)) = Group(s)
         /\ s \in DOMAIN Of => Group(s) = Of[s] /\ Of[s] \in Choice /\ s \in Values(Of[s])
         /\ s \notin DOMAIN Of => Group(s) = s
BY ScanAssumption DEF Choice, Group, Groups, Values

LEMMA GroupsAre == ASSUME NEW a \in Groups PROVE a \in Symbol \ DOMAIN Of /\ Group(a) = a
BY GroupIs DEF Groups

LEMMA Added ==
  ASSUME NEW st \in Seq(Frames), NEW f \in Frames
  PROVE  /\ Append(st, f) \in Seq(Frames) /\ Append(st, f) # <<>>
         /\ Len(st) \in Nat /\ Len(Append(st, f)) = Len(st) + 1
         /\ \A k \in 1..Len(st) : Append(st, f)[k] = st[k] /\ st[k] \in Frames
         /\ Append(st, f)[Len(st) + 1] = f
         /\ st = <<>> <=> Len(st) = 0
<1> HIDE DEF Frames
<1>q. QED
  OBVIOUS

LEMMA TopOf ==
  ASSUME NEW st \in Seq(Frames), st # <<>>
  PROVE  LET low == SubSeq(st, 1, Len(st) - 1)
         IN  low \in Seq(Frames) /\ st[Len(st)] \in Frames /\ st = Append(low, st[Len(st)])
<1> HIDE DEF Frames
<1>q. QED
  OBVIOUS

LEMMA OnStackAdded ==
  ASSUME NEW st \in Seq(Frames), NEW f \in Frames, NEW a
  PROVE  OnStack(Append(st, f), a) <=> OnStack(st, a) \/ (Main(f) /\ f.sym = a)
<1> DEFINE new == Append(st, f)
           n   == Len(st)
<1>1. n \in Nat /\ Len(new) = n + 1 /\ new[n + 1] = f /\ \A k \in 1..n : new[k] = st[k]
  BY Added
<1> HIDE DEF new, n
<1>2. ASSUME OnStack(new, a) PROVE OnStack(st, a) \/ (Main(f) /\ f.sym = a)
  <2>1. PICK k \in 1..(n + 1) : Main(new[k]) /\ new[k].sym = a
    BY <1>1, <1>2 DEF OnStack
  <2>2. k \in 1..n \/ k = n + 1
    BY <1>1
  <2>q. QED
    BY <1>1, <2>1, <2>2 DEF OnStack, n
<1>3. ASSUME OnStack(st, a) PROVE OnStack(new, a)
  <2>1. PICK k \in 1..n : Main(st[k]) /\ st[k].sym = a
    BY <1>3 DEF OnStack, n
  <2>2. k \in 1..(n + 1)
    BY <1>1
  <2>q. QED
    BY <1>1, <2>1, <2>2 DEF OnStack
<1>4. ASSUME Main(f), f.sym = a PROVE OnStack(new, a)
  <2>1. n + 1 \in 1..(n + 1)
    BY <1>1
  <2>q. QED
    BY <1>1, <1>4, <2>1 DEF OnStack
<1>q. QED
  BY <1>2, <1>3, <1>4 DEF new

Checks(f, s) == (f.fn \in {"sym", "self"} /\ f.sym = s) \/ (f.fn = "choice" /\ s \in Values(f.sym))

LEMMA CheckingAdded ==
  ASSUME NEW st \in Seq(Frames), NEW f \in Frames, NEW s
  PROVE  Checking(Append(st, f), s) <=> Checking(st, s) \/ Checks(f, s)
<1> DEFINE new == Append(st, f)
           n   == Len(st)
<1>0. \A x : Checking(x, s) <=> \E k \in 1..Len(x) : Checks(x[k], s)
  BY DEF Checking, Checks
<1>1. n \in Nat /\ Len(new) = n + 1 /\ new[n + 1] = f /\ \A k \in 1..n : new[k] = st[k]
  BY Added
<1> HIDE DEF new, n
<1>2. ASSUME Checking(new, s) PROVE Checking(st, s) \/ Checks(f, s)
  <2>1. PICK k \in 1..(n + 1) : Checks(new[k], s)
    BY <1>0, <1>1, <1>2
  <2>2. k \in 1..n \/ k = n + 1
    BY <1>1
  <2>q. QED
    BY <1>0, <1>1, <2>1, <2>2 DEF n
<1>3. ASSUME Checking(st, s) PROVE Checking(new, s)
  <2>1. PICK k \in 1..n : Checks(st[k], s)
    BY <1>0, <1>3 DEF n
  <2>2. k \in 1..(n + 1)
    BY <1>1
  <2>q. QED
    BY <1>0, <1>1, <2>1, <2>2
<1>4. ASSUME Checks(f, s) PROVE Checking(new, s)
  <2>1. n + 1 \in 1..(n + 1)
    BY <1>1
  <2>q. QED
    BY <1>0, <1>1, <1>4, <2>1
<1>q. QED
  BY <1>2, <1>3, <1>4 DEF new

(* One call more, or less.                                                 *)
LEMMA StructuredIs ==
  ASSUME NEW deps, NEW st \in Seq(Frames), NEW f \in Frames
  PROVE  Structured(deps, Append(st, f)) <=>
           /\ Structured(deps, st) /\ Framed(deps, f)
           /\ st = <<>> => f.fn \in {"sym", "value", "choice"}
           /\ st # <<>> => Calls(deps, st[Len(st)], f)
           /\ Main(f) => ~OnStack(st, f.sym)
<1> DEFINE new == Append(st, f)
           n   == Len(st)
<1>1. /\ n \in Nat /\ Len(new) = n + 1 /\ new[n + 1] = f /\ \A k \in 1..n : new[k] = st[k]
      /\ new \in Seq(Frames) /\ new # <<>> /\ (st = <<>> <=> n = 0)
  BY Added
<1> HIDE DEF new, n
<1>2. ASSUME Structured(deps, new)
      PROVE  /\ Structured(deps, st) /\ Framed(deps, f)
             /\ st = <<>> => f.fn \in {"sym", "value", "choice"}
             /\ st # <<>> => Calls(deps, st[n], f)
             /\ Main(f) => ~OnStack(st, f.sym)
  <2>1. \A k \in 1..n : k \in 1..(n + 1) /\ (k < n => k + 1 \in 1..n)
    BY <1>1
  <2>2. \A k \in 1..n : Framed(deps, st[k])
    BY <1>1, <1>2, <2>1 DEF Structured
  <2>3. \A k \in 1..n : k < n => Calls(deps, st[k], st[k + 1])
    <3> SUFFICES ASSUME NEW k \in 1..n, k < n PROVE Calls(deps, st[k], st[k + 1])
      OBVIOUS
    <3>1. Calls(deps, new[k], new[k + 1])
      BY <1>1, <1>2, <2>1 DEF Structured
    <3>q. QED
      BY <1>1, <2>1, <3>1
  <2>4. st # <<>> => st[1].fn \in {"sym", "value", "choice"}
    <3>1. st # <<>> => 1 \in 1..n
      BY <1>1
    <3>q. QED
      BY <1>1, <1>2, <3>1 DEF Structured
  <2>5. \A j, k \in 1..n : Main(st[j]) /\ Main(st[k]) /\ st[j].sym = st[k].sym => j = k
    BY <1>1, <1>2, <2>1 DEF Structured
  <2>6. n + 1 \in 1..(n + 1) /\ Framed(deps, f)
    BY <1>1, <1>2 DEF Structured
  <2>7. st = <<>> => f.fn \in {"sym", "value", "choice"}
    BY <1>1, <1>2 DEF Structured
  <2>8. st # <<>> => Calls(deps, st[n], f)
    <3>1. st # <<>> => n \in 1..n /\ n \in 1..(n + 1) /\ n < n + 1
      BY <1>1
    <3>q. QED
      BY <1>1, <1>2, <3>1 DEF Structured
  <2>9. ASSUME Main(f), OnStack(st, f.sym) PROVE FALSE
    <3>1. PICK k \in 1..n : Main(st[k]) /\ st[k].sym = f.sym
      BY <2>9 DEF OnStack, n
    <3>2. k = n + 1
      BY <1>1, <1>2, <2>1, <2>6, <2>9, <3>1 DEF Structured
    <3>q. QED
      BY <1>1, <3>2
  <2>q. QED
    BY <2>2, <2>3, <2>4, <2>5, <2>6, <2>7, <2>8, <2>9 DEF Structured, n
<1>3. ASSUME Structured(deps, st), Framed(deps, f),
             st = <<>> => f.fn \in {"sym", "value", "choice"},
             st # <<>> => Calls(deps, st[n], f),
             Main(f) => ~OnStack(st, f.sym)
      PROVE  Structured(deps, new)
  <2>1. \A k \in 1..(n + 1) : k \in 1..n \/ k = n + 1
    BY <1>1
  <2>2. \A k \in 1..(n + 1) : Framed(deps, new[k])
    BY <1>1, <1>3, <2>1 DEF Structured, n
  <2>3. ASSUME NEW k \in 1..(n + 1), k < n + 1 PROVE Calls(deps, new[k], new[k + 1])
    <3>1. k \in 1..n /\ st # <<>> /\ (k = n \/ (k < n /\ k + 1 \in 1..n))
      BY <1>1, <2>3
    <3>2. CASE k = n
      BY <1>1, <1>3, <3>1, <3>2
    <3>3. CASE k < n
      <4>1. Calls(deps, st[k], st[k + 1])
        BY <1>3, <3>1, <3>3 DEF Structured, n
      <4>q. QED
        BY <1>1, <3>1, <3>3, <4>1
    <3>q. QED
      BY <3>1, <3>2, <3>3
  <2>4. new[1].fn \in {"sym", "value", "choice"}
    <3>1. CASE st = <<>>
      BY <1>1, <1>3, <3>1
    <3>2. CASE st # <<>>
      <4>1. 1 \in 1..n
        BY <1>1, <3>2
      <4>q. QED
        BY <1>1, <1>3, <3>2, <4>1 DEF Structured
    <3>q. QED
      BY <3>1, <3>2
  <2>5. ASSUME NEW j \in 1..(n + 1), NEW k \in 1..(n + 1), Main(new[j]), Main(new[k]),
               new[j].sym = new[k].sym
        PROVE  j = k
    <3>0. \A i \in 1..n : Main(st[i]) => OnStack(st, st[i].sym)
      BY DEF OnStack, n
    <3>1. CASE j \in 1..n /\ k \in 1..n
      BY <1>1, <1>3, <2>5, <3>1 DEF Structured, n
    <3>2. CASE j \in 1..n /\ k = n + 1
      BY <1>1, <1>3, <2>5, <3>0, <3>2
    <3>3. CASE k \in 1..n /\ j = n + 1
      BY <1>1, <1>3, <2>5, <3>0, <3>3
    <3>q. QED
      BY <2>1, <3>1, <3>2, <3>3
  <2>q. QED
    BY <1>1, <2>2, <2>3, <2>4, <2>5 DEF Structured
<1>q. QED
  BY <1>2, <1>3 DEF new, n

-----------------------------------------------------------------------------
(* Pushing the frames of a symbol or a choice.                             *)

New(deps, t) ==
  IF t \in Choice THEN <<Frame("choice", t, Values(t)), Frame("self", t, deps[t])>>
  ELSE <<Frame("sym", t, deps[t])>>

First(t) == Frame(IF t \in Choice THEN "choice" ELSE "sym", t, {})

LEMMA FramesAre ==
  ASSUME NEW deps \in Graphs, NEW t \in Symbol
  PROVE  /\ Framed(deps, Frame("choice", t, Values(t))) <=> t \in Choice
         /\ Framed(deps, Frame("self", t, deps[t])) <=> t \in Choice
         /\ Framed(deps, Frame("sym", t, deps[t])) <=> t \notin Choice \cup DOMAIN Of
         /\ t \in DOMAIN Of => Framed(deps, Frame("value", t, {Of[t]}))
         /\ t \in DOMAIN Of => Framed(deps, Frame("member", t, deps[t]))
<1>1. deps[t] \subseteq Symbol /\ Values(t) \subseteq Symbol /\ (t \in DOMAIN Of => Of[t] \in Symbol)
  BY ScanAssumption DEF Values
<1>q. QED
  BY <1>1 DEF Framed, Frame, Frames, Looks

LEMMA NewIs ==
  ASSUME NEW deps \in Graphs, NEW t \in Symbol, NEW st \in Seq(Frames), NEW f \in Frames, NEW g \in Frames
  PROVE  st \o <<f>> = Append(st, f) /\ st \o <<f, g>> = Append(Append(st, f), g)
<1> HIDE DEF Frames
<1>q. QED
  OBVIOUS

LEMMA MainPushed ==
  ASSUME NEW deps \in Graphs, NEW st, Structured(deps, st), NEW CHECK, NEW CHECKED \in SUBSET Symbol,
         MarksFit(st, CHECK, CHECKED),
         NEW t \in Symbol, t \notin DOMAIN Of, t \notin CHECKED,
         st # <<>> => Calls(deps, st[Len(st)], First(t))
  PROVE  /\ Structured(deps, st \o New(deps, t))
         /\ MarksFit(st \o New(deps, t), CHECK \cup Marked(t), CHECKED \cup Marked(t))
         /\ Done(st \o New(deps, t), CHECKED \cup Marked(t)) = Done(st, CHECKED)
<1> DEFINE after == CHECKED \cup Marked(t)
           new == st \o New(deps, t)
<1>1. st \in Seq(Frames) /\ ~OnStack(st, t)
  BY DEF Structured, MarksFit
<1>2. \A s \in Symbol : s \in after <=> Group(s) \in after
  <2>1. \A s \in Symbol : s \in Marked(t) <=> Group(s) = t
    <3>1. \A s \in Symbol : s \in DOMAIN Of => (s \in Marked(t) <=> Of[s] = t)
      BY DEF Marked, Values
    <3>2. \A s \in Symbol : s \notin DOMAIN Of => (s \in Marked(t) <=> s = t)
      BY DEF Marked, Values
    <3>q. QED
      BY <3>1, <3>2, GroupIs
  <2>2. \A s \in Symbol : Group(s) \in Marked(t) <=> Group(s) = t
    BY GroupIs DEF Marked, Values
  <2>q. QED
    BY <2>1, <2>2 DEF MarksFit
<1>4. /\ Structured(deps, new) /\ new # <<>> /\ new[Len(new)].fn # "value"
      /\ \A a : OnStack(new, a) <=> OnStack(st, a) \/ a = t
      /\ \A s : Checking(new, s) <=> Checking(st, s) \/ s \in Marked(t)
  <2>1. CASE t \in Choice
    <3> DEFINE f == Frame("choice", t, Values(t))
               g == Frame("self", t, deps[t])
               one == Append(st, f)
    <3>1. Framed(deps, f) /\ Framed(deps, g) /\ f \in Frames /\ g \in Frames
      <4>1. Framed(deps, f) /\ Framed(deps, g)
        BY <2>1, FramesAre
      <4>q. QED
        BY <4>1 DEF Framed
    <3>2. new = Append(one, g)
      <4>1. New(deps, t) = <<f, g>>
        BY <2>1 DEF New
      <4>q. QED
        BY <1>1, <3>1, <4>1, NewIs
    <3>3. Main(f) /\ ~Main(g) /\ f.sym = t /\ g.sym = t /\ f.fn = "choice" /\ g.fn = "self"
      BY DEF Main, Frame
    <3>4. st # <<>> => Calls(deps, st[Len(st)], f)
      BY <2>1 DEF Calls, First, Frame, Looks
    <3>5. Calls(deps, f, g)
      BY <2>1, <3>3, ChoiceIs DEF Calls, Looks
    <3> HIDE DEF f, g, one, new
    <3>6. Structured(deps, one) /\ one \in Seq(Frames) /\ one # <<>> /\ one[Len(one)] = f
      BY <1>1, <3>1, <3>3, <3>4, StructuredIs, Added DEF one
    <3>7. Structured(deps, new) /\ new # <<>> /\ new[Len(new)] = g
      BY <3>1, <3>2, <3>3, <3>5, <3>6, StructuredIs, Added
    <3>8. \A a : OnStack(new, a) <=> OnStack(st, a) \/ a = t
      BY <1>1, <3>1, <3>2, <3>3, <3>6, OnStackAdded DEF one
    <3>9. \A s : Checking(new, s) <=> Checking(st, s) \/ s \in Marked(t)
      BY <1>1, <3>1, <3>2, <3>3, <3>6, CheckingAdded DEF one, Checks, Marked
    <3>q. QED
      BY <3>3, <3>7, <3>8, <3>9
  <2>2. CASE t \notin Choice
    <3> DEFINE f == Frame("sym", t, deps[t])
    <3>1. Framed(deps, f) /\ f \in Frames
      <4>1. Framed(deps, f)
        BY <2>2, FramesAre
      <4>q. QED
        BY <4>1 DEF Framed
    <3>2. new = Append(st, f)
      <4>1. New(deps, t) = <<f>>
        BY <2>2 DEF New
      <4>q. QED
        BY <1>1, <3>1, <4>1, NewIs
    <3>3. Main(f) /\ f.sym = t /\ f.fn = "sym"
      BY DEF Main, Frame
    <3>4. st # <<>> => Calls(deps, st[Len(st)], f)
      BY <2>2 DEF Calls, First, Frame, Looks
    <3> HIDE DEF f, new
    <3>5. Structured(deps, new) /\ new # <<>> /\ new[Len(new)] = f
      BY <1>1, <3>1, <3>2, <3>3, <3>4, StructuredIs, Added
    <3>6. \A a : OnStack(new, a) <=> OnStack(st, a) \/ a = t
      BY <1>1, <3>1, <3>2, <3>3, OnStackAdded
    <3>7. \A s : Checking(new, s) <=> Checking(st, s) \/ s \in Marked(t)
      <4>1. Marked(t) = {t}
        BY <2>2 DEF Marked, Values, Choice
      <4>q. QED
        BY <1>1, <3>1, <3>2, <3>3, <4>1, CheckingAdded DEF Checks
    <3>q. QED
      BY <3>3, <3>5, <3>6, <3>7
  <2>q. QED
    BY <2>1, <2>2
<1> HIDE DEF new
<1>5. t \in Marked(t) /\ \A a \in Groups : a \in Marked(t) <=> a = t
  BY GroupsAre DEF Marked, Values
<1>6. Done(new, after) = Done(st, CHECKED)
  BY <1>4, <1>5 DEF Done
<1>7. MarksFit(new, CHECK \cup Marked(t), after)
  BY <1>2, <1>4, <1>5 DEF MarksFit
<1>q. QED
  BY <1>4, <1>6, <1>7 DEF new

-----------------------------------------------------------------------------
(* What has been looked at, as frames are pushed and popped.               *)

(* All but t, which the frame on top has just taken.                       *)
LooksBut(deps, st, done, t) ==
  \A k \in 1..Len(st) : st[k].fn \in Looks =>
    \A u \in deps[st[k].sym] \ st[k].todo : Seen(st, done, k, u) \/ (k = Len(st) /\ u = t)
ChoicesBut(deps, st, done, t) ==
  \A k \in 1..Len(st) : st[k].fn = "choice" =>
    \A s \in ({st[k].sym} \cup Values(st[k].sym)) \ st[k].todo :
      \/ k < Len(st) /\ st[k + 1].sym = s
      \/ Settled(deps, done, s)
      \/ k = Len(st) /\ s = t

LEMMA LooksPushed ==
  ASSUME NEW deps, NEW st \in Seq(Frames), NEW f \in Frames, NEW done,
         LooksBut(deps, st, done, f.sym), f.fn \in Looks => f.todo = deps[f.sym]
  PROVE  LooksDone(deps, Append(st, f), done)
<1> DEFINE new == Append(st, f)
           n   == Len(st)
<1>1. n \in Nat /\ Len(new) = n + 1 /\ new[n + 1] = f /\ \A k \in 1..n : new[k] = st[k]
  BY Added
<1>2. \A a : OnStack(st, a) => OnStack(new, a)
  BY OnStackAdded
<1> HIDE DEF new, n
<1>3. ASSUME NEW k \in 1..(n + 1), new[k].fn \in Looks, NEW u \in deps[new[k].sym] \ new[k].todo
      PROVE  Seen(new, done, k, u)
  <2>1. CASE k = n + 1
    BY <1>1, <1>3, <2>1
  <2>2. CASE k # n + 1
    <3>1. k \in 1..n /\ new[k] = st[k] /\ k < n + 1 /\ (k < n => k + 1 \in 1..n /\ new[k + 1] = st[k + 1])
      BY <1>1, <2>2
    <3>2. Seen(st, done, k, u) \/ (k = n /\ u = f.sym)
      BY <1>3, <3>1 DEF LooksBut, n
    <3>3. CASE k = n /\ u = f.sym
      BY <1>1, <3>1, <3>3 DEF Seen
    <3>4. CASE Seen(st, done, k, u)
      BY <1>1, <1>2, <3>1, <3>4 DEF Seen, n
    <3>q. QED
      BY <3>2, <3>3, <3>4
  <2>q. QED
    BY <2>1, <2>2
<1>4. LooksDone(deps, new, done)
  BY <1>1, <1>3 DEF LooksDone
<1>q. QED
  BY <1>4 DEF new

LEMMA ChoicesPushed ==
  ASSUME NEW deps, NEW st \in Seq(Frames), NEW f \in Frames, NEW done,
         ChoicesBut(deps, st, done, f.sym), f.fn = "choice" => f.todo = Values(f.sym)
  PROVE  /\ ChoicesBut(deps, Append(st, f), done, f.sym)
         /\ f.fn # "choice" => ChoicesDone(deps, Append(st, f), done)
<1> DEFINE new == Append(st, f)
           n   == Len(st)
<1>1. n \in Nat /\ Len(new) = n + 1 /\ new[n + 1] = f /\ \A k \in 1..n : new[k] = st[k]
  BY Added
<1> HIDE DEF new, n
<1>2. ASSUME NEW k \in 1..(n + 1), new[k].fn = "choice",
             NEW s \in ({new[k].sym} \cup Values(new[k].sym)) \ new[k].todo
      PROVE  \/ k < n + 1 /\ new[k + 1].sym = s
             \/ Settled(deps, done, s)
             \/ k = n + 1 /\ s = f.sym /\ f.fn = "choice"
  <2>1. CASE k = n + 1
    BY <1>1, <1>2, <2>1
  <2>2. CASE k # n + 1
    <3>1. k \in 1..n /\ new[k] = st[k] /\ k < n + 1 /\ (k < n => k + 1 \in 1..n /\ new[k + 1] = st[k + 1])
      BY <1>1, <2>2
    <3>2. \/ k < n /\ st[k + 1].sym = s
          \/ Settled(deps, done, s)
          \/ k = n /\ s = f.sym
      BY <1>2, <3>1 DEF ChoicesBut, n
    <3>q. QED
      BY <1>1, <3>1, <3>2
  <2>q. QED
    BY <2>1, <2>2
<1>3. ChoicesBut(deps, new, done, f.sym)
  BY <1>1, <1>2 DEF ChoicesBut
<1>4. f.fn # "choice" => ChoicesDone(deps, new, done)
  BY <1>1, <1>2 DEF ChoicesDone
<1>q. QED
  BY <1>3, <1>4 DEF new

LEMMA Popped ==
  ASSUME NEW deps, NEW low \in Seq(Frames), NEW f \in Frames, NEW done, NEW after, done \subseteq after,
         LooksDone(deps, Append(low, f), done), ChoicesDone(deps, Append(low, f), done),
         low # <<>> /\ low[Len(low)].fn \in Looks => Group(f.sym) \in after,
         low # <<>> /\ low[Len(low)].fn = "choice" => Settled(deps, after, f.sym),
         Main(f) => f.sym \in after
  PROVE  LooksDone(deps, low, after) /\ ChoicesDone(deps, low, after)
<1> DEFINE st == Append(low, f)
           n  == Len(low)
<1>1. /\ n \in Nat /\ Len(st) = n + 1 /\ st[n + 1] = f /\ \A k \in 1..n : st[k] = low[k]
      /\ (low = <<>> <=> n = 0)
  BY Added
<1>2. \A a : OnStack(st, a) => OnStack(low, a) \/ (Main(f) /\ a = f.sym)
  BY OnStackAdded
<1> HIDE DEF st, n
<1>3. ASSUME NEW k \in 1..n, low[k].fn \in Looks, NEW u \in deps[low[k].sym] \ low[k].todo
      PROVE  Seen(low, after, k, u)
  <2>1. k \in 1..(n + 1) /\ k < n + 1 /\ st[k] = low[k] /\ low # <<>> /\ (k < n => k + 1 \in 1..n)
    BY <1>1
  <2>2. Seen(st, done, k, u)
    BY <1>1, <1>3, <2>1 DEF LooksDone, st
  <2>3. CASE st[k + 1].sym = u
    <3>1. CASE k = n
      BY <1>1, <1>3, <2>1, <2>3, <3>1 DEF Seen, n
    <3>2. CASE k # n
      <4>1. k < n /\ st[k + 1] = low[k + 1]
        BY <1>1, <2>1, <3>2
      <4>q. QED
        BY <2>3, <4>1 DEF Seen, n
    <3>q. QED
      BY <3>1, <3>2
  <2>4. CASE u \in Choice /\ OnStack(st, u) /\ Values(u) \cap st[k].todo # {}
    <3>1. CASE OnStack(low, u)
      BY <2>1, <2>4, <3>1 DEF Seen
    <3>2. CASE Main(f) /\ u = f.sym
      BY <2>4, <3>2, ChoiceIs DEF Seen
    <3>q. QED
      BY <1>2, <2>4, <3>1, <3>2
  <2>q. QED
    BY <2>1, <2>2, <2>3, <2>4 DEF Seen
<1>4. ASSUME NEW k \in 1..n, low[k].fn = "choice",
             NEW s \in ({low[k].sym} \cup Values(low[k].sym)) \ low[k].todo
      PROVE  (k < n /\ low[k + 1].sym = s) \/ Settled(deps, after, s)
  <2>1. k \in 1..(n + 1) /\ k < n + 1 /\ st[k] = low[k] /\ low # <<>> /\ (k < n => k + 1 \in 1..n)
    BY <1>1
  <2>2. st[k + 1].sym = s \/ Settled(deps, done, s)
    BY <1>1, <1>4, <2>1 DEF ChoicesDone, st
  <2>3. Settled(deps, done, s) => Settled(deps, after, s)
    BY DEF Settled
  <2>4. CASE st[k + 1].sym = s
    <3>1. CASE k = n
      BY <1>1, <1>4, <2>1, <2>4, <3>1 DEF n
    <3>2. CASE k # n
      BY <1>1, <2>1, <2>4, <3>2
    <3>q. QED
      BY <3>1, <3>2
  <2>q. QED
    BY <2>2, <2>3, <2>4
<1>q. QED
  BY <1>3, <1>4 DEF LooksDone, ChoicesDone, n

LEMMA DoneGrows ==
  ASSUME NEW deps, NEW done \in SUBSET Groups, Closed(deps, done), LoopFree(deps, done), NEW g \in Groups,
         g \notin done, \A b \in Groups : Needs(deps, g, b) => b \in done
  PROVE  Closed(deps, done \cup {g}) /\ LoopFree(deps, done \cup {g})
<1>1. Closed(deps, done \cup {g})
  BY DEF Closed
<1>2. ASSUME NEW loop \in SUBSET (done \cup {g}), loop # {}
      PROVE  \E a \in loop : \A b \in loop : ~Needs(deps, a, b)
  <2>1. CASE loop \ {g} = {}
    BY <1>2, <2>1
  <2>2. CASE loop \ {g} # {}
    <3>1. PICK a \in loop \ {g} : \A b \in loop \ {g} : ~Needs(deps, a, b)
      BY <2>2 DEF LoopFree
    <3>q. QED
      BY <3>1 DEF Closed
  <2>q. QED
    BY <2>1, <2>2
<1>q. QED
  BY <1>1, <1>2 DEF LoopFree

(* The frame on top takes t, one of what it has left.                      *)
Lower(f, t) == [f EXCEPT !.todo = @ \ {t}]

LEMMA Lowered ==
  ASSUME NEW deps, NEW low \in Seq(Frames), NEW f \in Frames, NEW t
  PROVE  LET st  == Append(low, f)
             new == Append(low, Lower(f, t))
         IN  /\ new \in Seq(Frames) /\ new # <<>> /\ Len(new) = Len(st) /\ new[Len(new)] = Lower(f, t)
             /\ \A a : OnStack(new, a) <=> OnStack(st, a)
             /\ \A s : Checking(new, s) <=> Checking(st, s)
             /\ Structured(deps, st) => Structured(deps, new)
             /\ new[1].sym = st[1].sym
<1> DEFINE g == Lower(f, t)
<1>1. g \in Frames /\ g.fn = f.fn /\ g.sym = f.sym /\ g.todo = f.todo \ {t}
  BY DEF Lower, Frames
<1>2. Framed(deps, f) => Framed(deps, g)
  BY <1>1 DEF Framed
<1>3. \A h : Calls(deps, h, f) => Calls(deps, h, g)
  BY <1>1 DEF Calls
<1>4. Main(g) <=> Main(f)
  BY <1>1 DEF Main
<1> HIDE DEF g
<1>5. /\ Append(low, g) \in Seq(Frames) /\ Append(low, g) # <<>>
      /\ Len(Append(low, g)) = Len(Append(low, f))
      /\ Append(low, g)[Len(Append(low, g))] = g
  BY <1>1, Added
<1>6. /\ \A a : OnStack(Append(low, g), a) <=> OnStack(Append(low, f), a)
      /\ \A s : Checking(Append(low, g), s) <=> Checking(Append(low, f), s)
  BY <1>1, <1>4, OnStackAdded, CheckingAdded DEF Checks
<1>7. Structured(deps, Append(low, f)) => Structured(deps, Append(low, g))
  BY <1>1, <1>2, <1>3, <1>4, StructuredIs
<1>8. Append(low, g)[1].sym = Append(low, f)[1].sym
  <2>1. CASE low = <<>>
    BY <1>1, <2>1, Added
  <2>2. CASE low # <<>>
    <3>1. 1 \in 1..Len(low)
      BY <2>2, Added
    <3>q. QED
      BY <1>1, <3>1, Added
  <2>q. QED
    BY <2>1, <2>2
<1>q. QED
  BY <1>5, <1>6, <1>7, <1>8 DEF g

LEMMA LoweredLooks ==
  ASSUME NEW deps, NEW low \in Seq(Frames), NEW f \in Frames, NEW t, NEW done,
         LooksDone(deps, Append(low, f), done), ChoicesDone(deps, Append(low, f), done),
         f.fn \in Looks => \A c \in Choice : OnStack(Append(low, f), c) => t \notin Values(c)
  PROVE  /\ LooksBut(deps, Append(low, Lower(f, t)), done, t)
         /\ ChoicesBut(deps, Append(low, Lower(f, t)), done, t)
         /\ f.fn # "choice" => ChoicesDone(deps, Append(low, Lower(f, t)), done)
<1> DEFINE g   == Lower(f, t)
           st  == Append(low, f)
           new == Append(low, g)
           n   == Len(low)
<1>1. g \in Frames /\ g.fn = f.fn /\ g.sym = f.sym /\ g.todo = f.todo \ {t}
  BY DEF Lower, Frames
<1>2. \A a : OnStack(new, a) <=> OnStack(st, a)
  BY Lowered
<1> HIDE DEF g
<1>3. /\ n \in Nat /\ Len(st) = n + 1 /\ st[n + 1] = f /\ Len(new) = n + 1 /\ new[n + 1] = g
      /\ \A k \in 1..n : st[k] = low[k] /\ new[k] = st[k]
  BY <1>1, Added
<1> HIDE DEF st, new, n
<1>4. ASSUME NEW k \in 1..(n + 1)
      PROVE  /\ k \in 1..n \/ k = n + 1
             /\ k < n + 1 => /\ k \in 1..n /\ new[k] = st[k]
                             /\ k + 1 \in 1..(n + 1) /\ new[k + 1].sym = st[k + 1].sym
  <2>1. k < n + 1 => k \in 1..n /\ (k + 1 \in 1..n \/ k + 1 = n + 1)
    BY <1>3
  <2>q. QED
    BY <1>1, <1>3, <2>1
<1>5. ASSUME NEW k \in 1..(n + 1), new[k].fn \in Looks, NEW u \in deps[new[k].sym] \ new[k].todo
      PROVE  Seen(new, done, k, u) \/ (k = n + 1 /\ u = t)
  <2>1. CASE k < n + 1
    <3>1. Seen(st, done, k, u)
      BY <1>3, <1>4, <1>5, <2>1 DEF LooksDone, st
    <3>q. QED
      BY <1>2, <1>3, <1>4, <2>1, <3>1 DEF Seen
  <2>2. CASE k = n + 1 /\ u # t
    <3>1. u \in deps[f.sym] \ f.todo /\ f.fn \in Looks
      BY <1>1, <1>3, <1>5, <2>2
    <3>2. Seen(st, done, n + 1, u)
      BY <1>3, <1>5, <2>2, <3>1 DEF LooksDone, st
    <3>3. CASE u \in Choice /\ OnStack(st, u) /\ Values(u) \cap f.todo # {}
      <4>1. t \notin Values(u)
        BY <3>1, <3>3 DEF st
      <4>q. QED
        BY <1>1, <1>2, <1>3, <2>2, <3>3, <4>1 DEF Seen
    <3>q. QED
      BY <1>1, <1>2, <1>3, <2>2, <3>2, <3>3 DEF Seen
  <2>q. QED
    BY <1>3, <1>4, <1>5, <2>1, <2>2
<1>6. ASSUME NEW k \in 1..(n + 1), new[k].fn = "choice",
             NEW s \in ({new[k].sym} \cup Values(new[k].sym)) \ new[k].todo
      PROVE  \/ k < n + 1 /\ new[k + 1].sym = s
             \/ Settled(deps, done, s)
             \/ k = n + 1 /\ s = t /\ f.fn = "choice"
  <2>1. CASE k < n + 1
    BY <1>3, <1>4, <1>6, <2>1 DEF ChoicesDone, st
  <2>2. CASE k = n + 1
    <3>1. f.fn = "choice" /\ (s = t \/ s \in ({f.sym} \cup Values(f.sym)) \ f.todo)
      BY <1>1, <1>3, <1>6, <2>2
    <3>q. QED
      BY <1>3, <1>6, <2>2, <3>1 DEF ChoicesDone, st
  <2>q. QED
    BY <1>3, <1>4, <1>6, <2>1, <2>2
<1>7. LooksBut(deps, new, done, t) /\ ChoicesBut(deps, new, done, t)
  BY <1>3, <1>5, <1>6 DEF LooksBut, ChoicesBut
<1>8. f.fn # "choice" => ChoicesDone(deps, new, done)
  BY <1>3, <1>6 DEF ChoicesDone
<1>q. QED
  BY <1>7, <1>8 DEF new, g

-----------------------------------------------------------------------------
(* What is printed.                                                        *)

LEMMA MaxIn == ASSUME NEW n \in Nat, NEW S \in SUBSET (1..n), S # {} PROVE Max(S) \in S
<1> DEFINE D == {n - x : x \in S}
<1>1. D \subseteq Nat /\ D # {}
  <2>1. \A x \in S : x \in Nat /\ x <= n /\ n - x \in Nat
    OBVIOUS
  <2>q. QED
    BY <2>1
<1>2. PICK d \in D : \A i \in D : ~(<<i, d>> \in OpToRel(<, Nat))
  <2> HIDE DEF D
  <2>q. QED
    BY <1>1, NatLessThanWellFounded, WFMin
<1>3. \A i \in D : ~(i < d)
  <2> HIDE DEF D
  <2>q. QED
    BY <1>1, <1>2 DEF OpToRel
<1>4. \E x \in S : \A y \in S : x >= y
  <2>1. PICK x \in S : d = n - x
    OBVIOUS
  <2>2. \A y \in S : n - y >= n - x
    BY <1>1, <1>3, <2>1
  <2>q. QED
    BY <2>1, <2>2
<1>q. QED
  BY <1>4 DEF Max

(* A symbol that is being checked is on the stack, itself or its choice.   *)
LEMMA CheckingOn ==
  ASSUME NEW deps, NEW st, Structured(deps, st), NEW s \in Symbol, Checking(st, s)
  PROVE  OnStack(st, Group(s)) /\ \E k \in 1..Len(st) : st[k].sym = Group(s)
<1>0. OnStack(st, Group(s)) => \E k \in 1..Len(st) : st[k].sym = Group(s)
  BY DEF OnStack
<1>1. PICK k \in 1..Len(st) : \/ st[k].fn \in {"sym", "self"} /\ st[k].sym = s
                              \/ st[k].fn = "choice" /\ s \in Values(st[k].sym)
  BY DEF Checking
<1>2. Framed(deps, st[k])
  BY DEF Structured
<1>3. CASE st[k].fn = "sym"
  BY <1>0, <1>1, <1>2, <1>3, GroupIs DEF Framed, OnStack, Main
<1>4. CASE st[k].fn = "choice"
  BY <1>0, <1>1, <1>2, <1>4, ChoiceIs DEF Framed, OnStack, Main
<1>5. CASE st[k].fn = "self"
  <2>1. Len(st) \in Nat /\ st # <<>>
    BY DEF Structured
  <2>2. k # 1
    BY <1>5, <2>1 DEF Structured
  <2>3. k - 1 \in 1..Len(st) /\ k - 1 < Len(st) /\ (k - 1) + 1 = k
    BY <2>1, <2>2
  <2>4. Calls(deps, st[k - 1], st[k])
    BY <2>3 DEF Structured
  <2>5. Main(st[k - 1]) /\ st[k - 1].sym = Group(s)
    BY <1>1, <1>5, <2>4 DEF Calls, Main
  <2>q. QED
    BY <1>0, <2>3, <2>5 DEF OnStack
<1>q. QED
  BY <1>1, <1>3, <1>4, <1>5

(* While a value of it is looked at, the choice is not marked.             *)
LEMMA OwnNotChecking ==
  ASSUME NEW deps, NEW st, Structured(deps, st), st # <<>>, st[Len(st)].fn = "member",
         Checking(st, Of[st[Len(st)].sym])
  PROVE  FALSE
<1> DEFINE n == Len(st)
           v == st[n].sym
           c == Of[v]
<1>1. n \in Nat \ {0} /\ n \in 1..n
  BY DEF Structured
<1>2. v \in Symbol /\ v \in DOMAIN Of /\ c \in Choice /\ Group(v) = c
  BY <1>1, GroupIs DEF Structured, Framed, Frames
<1>3. \A k \in 1..n : st[k].fn \in {"self", "member"} =>
        k - 1 \in 1..n /\ Main(st[k - 1]) /\ st[k - 1].sym = Group(st[k].sym)
  <2> SUFFICES ASSUME NEW k \in 1..n, st[k].fn \in {"self", "member"}
               PROVE  k - 1 \in 1..n /\ Main(st[k - 1]) /\ st[k - 1].sym = Group(st[k].sym)
    OBVIOUS
  <2>1. k # 1
    BY DEF Structured
  <2>2. k - 1 \in 1..n /\ k - 1 < n /\ (k - 1) + 1 = k
    BY <1>1, <2>1
  <2>3. Calls(deps, st[k - 1], st[k])
    BY <2>2 DEF Structured
  <2>q. QED
    BY <2>2, <2>3 DEF Calls, Main
<1>4. PICK k \in 1..n : \/ st[k].fn \in {"sym", "self"} /\ st[k].sym = c
                        \/ st[k].fn = "choice" /\ c \in Values(st[k].sym)
  BY DEF Checking
<1>5. st[k].fn = "self"
  BY <1>2, <1>4, ChoiceIs DEF Structured, Framed, Values
<1>6. Group(st[k].sym) = c
  BY <1>2, <1>4, <1>5, ChoiceIs
<1>7. k - 1 = n - 1
  BY <1>1, <1>2, <1>3, <1>5, <1>6, ZenonT(40) DEF Structured
<1>q. QED
  BY <1>1, <1>5, <1>7

(* A loop of dependencies: from where the group of t is on the stack up to *)
(* the top, which has t.                                                   *)
LEMMA StackLoops ==
  ASSUME NEW deps \in Graphs, NEW st, Structured(deps, st), st # <<>>, NEW t \in Symbol,
         st[Len(st)].fn \in Looks, t \in deps[st[Len(st)].sym],
         ~(st[Len(st)].fn = "member" /\ t = Of[st[Len(st)].sym]),
         NEW p \in 1..Len(st), st[p].sym = Group(t)
  PROVE  Recursive(deps)
<1> DEFINE n == Len(st)
           loop == {Group(st[k].sym) : k \in p..n}
           Next(k) == \E b \in loop : Needs(deps, Group(st[k].sym), b)
<1>1. n \in Nat \ {0} /\ \A k \in p..n : k \in 1..n /\ Framed(deps, st[k]) /\ st[k].sym \in Symbol
  BY DEF Structured, Framed, Frames
<1>2. loop \in SUBSET Groups /\ loop # {}
  BY <1>1, GroupIs
<1>3. \A s \in Symbol : \A u \in deps[s] : u \in Symbol
  BY ScanAssumption
<1>4. ASSUME NEW k \in p..n, st[k].fn \in Looks PROVE Next(k)
  <2>0. st[k].sym \in DOMAIN Of => st[k].fn = "member"
    BY <1>1, <1>4, ChoiceIs DEF Framed, Looks
  <2>1. CASE k = n
    <3>1. Group(Group(t)) = Group(t)
      BY GroupIs
    <3>2. Group(t) \in loop
      <4>1. p \in p..n
        BY <1>1
      <4>q. QED
        BY <3>1, <4>1
    <3>3. Needs(deps, Group(st[k].sym), Group(t))
      BY <1>1, <2>0, <2>1 DEF Needs
    <3>q. QED
      BY <3>2, <3>3
  <2>2. CASE k # n
    <3>1. k + 1 \in p..n /\ k < n /\ k \in 1..n
      BY <1>1, <2>2
    <3>2. Calls(deps, st[k], st[k + 1])
      BY <3>1 DEF Structured
    <3>3. Needs(deps, Group(st[k].sym), Group(st[k + 1].sym))
      BY <1>1, <1>4, <2>0, <3>1, <3>2 DEF Calls, Needs
    <3>q. QED
      BY <3>1, <3>3
  <2>q. QED
    BY <2>1, <2>2
<1>5. ASSUME NEW k \in p..n, st[k].fn = "choice" PROVE Next(k)
  <2>1. k # n /\ k + 1 \in p..n /\ k < n /\ k \in 1..n
    BY <1>1, <1>5 DEF Looks
  <2>2. Calls(deps, st[k], st[k + 1])
    BY <2>1 DEF Structured
  <2>3. st[k + 1].fn \in Looks /\ Group(st[k].sym) = Group(st[k + 1].sym)
    BY <1>1, <1>5, <2>1, <2>2, GroupIs DEF Calls, Looks
  <2>q. QED
    BY <1>4, <2>1, <2>3
<1>6. ASSUME NEW k \in p..n, st[k].fn = "value" PROVE Next(k)
  <2>1. k # n /\ k + 1 \in p..n /\ k < n /\ k \in 1..n
    BY <1>1, <1>6 DEF Looks
  <2>2. Calls(deps, st[k], st[k + 1])
    BY <2>1 DEF Structured
  <2>3. st[k + 1].fn = "choice" /\ Group(st[k].sym) = Group(st[k + 1].sym)
    BY <1>1, <1>6, <2>1, <2>2, GroupIs DEF Calls, Framed
  <2>q. QED
    BY <1>5, <2>1, <2>3
<1>7. \A k \in p..n : Next(k)
  BY <1>1, <1>4, <1>5, <1>6 DEF Framed, Frames, Looks
<1>8. \A a \in loop : \E b \in loop : Needs(deps, a, b)
  BY <1>7
<1> HIDE DEF loop
<1>q. QED
  BY <1>2, <1>8 DEF Recursive

LEMMA SymbolsAre ==
  ASSUME NEW deps, NEW st, Structured(deps, st)
  PROVE  [k \in DOMAIN st |-> st[k].sym] \in Seq(Symbol) /\ Len([k \in DOMAIN st |-> st[k].sym]) = Len(st)
<1>1. st \in Seq(Frames) /\ DOMAIN st = 1..Len(st) /\ Len(st) \in Nat
  BY DEF Structured
<1>2. \A k \in 1..Len(st) : st[k].sym \in Symbol
  BY DEF Structured, Framed, Frames
<1>q. QED
  BY <1>1, <1>2

LEMMA PrintedLoops ==
  ASSUME NEW deps \in Graphs, NEW st, Structured(deps, st), st # <<>>, NEW t \in Symbol,
         st[Len(st)].fn \in Looks, t \in deps[st[Len(st)].sym],
         ~(st[Len(st)].fn = "member" /\ t = Of[st[Len(st)].sym]), Checking(st, t)
  PROVE  Printed(st, t) \in Seq(Symbol) /\ Printed(st, t) # <<>> /\ Loops(deps, Printed(st, t))
<1> DEFINE n     == Len(st)
           all   == [k \in DOMAIN st |-> st[k].sym]
           last  == IF t \in DOMAIN Of THEN Of[t] ELSE t
           above == IF t \in DOMAIN Of THEN Append(all, t) ELSE all
           m     == Len(above)
           at    == {k \in DOMAIN above : above[k] = last}
           p     == Max(at)
           trail == SubSeq(above, p, m)
<1>1. n \in Nat \ {0} /\ DOMAIN st = 1..n /\ all \in Seq(Symbol) /\ Len(all) = n /\ \A k \in 1..n : all[k] = st[k].sym
  <2>1. n \in Nat \ {0} /\ DOMAIN st = 1..n
    BY DEF Structured
  <2>q. QED
    BY <2>1, SymbolsAre
<1>2. last = Group(t) /\ last \in Symbol /\ Group(last) = last /\ (t \in DOMAIN Of => last # t)
  BY GroupIs DEF Group
<1>3. /\ above \in Seq(Symbol) /\ DOMAIN above = 1..m /\ m \in Nat \ {0} /\ n <= m
      /\ \A k \in 1..n : above[k] = st[k].sym
      /\ IF t \in DOMAIN Of THEN m = n + 1 /\ above[m] = t ELSE m = n
  <2> HIDE DEF all, last
  <2>1. CASE t \in DOMAIN Of
    <3>1. above = Append(all, t)
      BY <2>1
    <3>q. QED
      BY <1>1, <2>1, <3>1
  <2>2. CASE t \notin DOMAIN Of
    <3>1. above = all
      BY <2>2
    <3>q. QED
      BY <1>1, <2>2, <3>1
  <2>q. QED
    BY <2>1, <2>2
<1>4. at \in SUBSET (1..m) /\ at # {}
  <2>1. PICK k \in 1..n : st[k].sym = last
    BY <1>2, CheckingOn
  <2>2. k \in 1..m /\ above[k] = last
    BY <1>1, <1>3, <2>1
  <2>q. QED
    BY <1>3, <2>2
<1>5. Printed(st, t) = trail
  BY <1>4 DEF Printed
<1> HIDE DEF all, last, above, at, m
<1>6. p \in 1..m /\ above[p] = last
  <2>1. p \in at
    BY <1>3, <1>4, MaxIn
  <2>q. QED
    BY <1>3, <2>1 DEF at
<1> HIDE DEF p
<1>7. p \in 1..n
  <2>1. p # n + 1
    BY <1>2, <1>3, <1>6
  <2>q. QED
    BY <1>1, <1>3, <1>6, <2>1
<1>8. /\ trail \in Seq(Symbol) /\ Len(trail) = m - p + 1 /\ trail # <<>> /\ Len(trail) \in Nat
      /\ DOMAIN trail = 1..Len(trail)
      /\ \A k \in 1..Len(trail) : trail[k] = above[p + k - 1] /\ p + k - 1 \in 1..m
      /\ 1 \in 1..Len(trail) /\ trail[1] = last
  <2>1. ASSUME NEW s \in Seq(Symbol), NEW q \in 1..Len(s)
        PROVE  LET rest == SubSeq(s, q, Len(s))
               IN  /\ rest \in Seq(Symbol) /\ Len(rest) = Len(s) - q + 1 /\ DOMAIN rest = 1..Len(rest)
                   /\ Len(rest) \in Nat \ {0} /\ \A k \in 1..Len(rest) : rest[k] = s[q + k - 1]
    OBVIOUS
  <2>2. /\ trail \in Seq(Symbol) /\ Len(trail) = m - p + 1 /\ DOMAIN trail = 1..Len(trail)
        /\ Len(trail) \in Nat \ {0} /\ \A k \in 1..Len(trail) : trail[k] = above[p + k - 1]
    BY <1>3, <1>6, <2>1 DEF m
  <2> HIDE DEF trail
  <2>3. \A k \in 1..Len(trail) : p + k - 1 \in 1..m
    BY <1>3, <1>6, <2>2
  <2>4. 1 \in 1..Len(trail) /\ p + 1 - 1 = p /\ trail # <<>>
    BY <1>6, <2>2
  <2>q. QED
    BY <1>6, <2>2, <2>3, <2>4, SMTT(30)
<1> HIDE DEF trail
<1>9. Recursive(deps)
  <2>1. st[p].sym = Group(t)
    BY <1>2, <1>3, <1>6, <1>7
  <2>q. QED
    BY <1>7, <2>1, StackLoops
<1>10. trail # <<"unexpected">>
  <2>1. last # "unexpected"
    BY <1>2, ScanAssumption
  <2>q. QED
    BY <1>8, <2>1
<1>11. ASSUME NEW i \in 1..n, i < n
       PROVE  st[i + 1].sym \in deps[st[i].sym] \/ Group(st[i].sym) = Group(st[i + 1].sym)
  <2>1. Calls(deps, st[i], st[i + 1]) /\ Framed(deps, st[i]) /\ Framed(deps, st[i + 1])
    <3>1. i + 1 \in 1..n
      BY <1>1, <1>11
    <3>q. QED
      BY <1>11, <3>1 DEF Structured
  <2>2. CASE st[i].fn \in Looks
    BY <2>1, <2>2 DEF Calls
  <2>3. CASE st[i].fn = "choice"
    BY <2>1, <2>3, GroupIs DEF Calls, Framed, Frames
  <2>4. CASE st[i].fn = "value"
    BY <2>1, <2>4, GroupIs DEF Calls, Framed, Frames
  <2>q. QED
    BY <2>1, <2>2, <2>3, <2>4 DEF Framed, Frames, Looks
<1>12. ASSUME NEW k \in 1..Len(trail)
       PROVE  LET next == IF k = Len(trail) THEN Group(trail[1]) ELSE trail[k + 1]
              IN  next \in deps[trail[k]] \/ Group(trail[k]) = Group(next)
  <2> DEFINE i == p + k - 1
  <2>0. n \in Nat \ {0} /\ m \in Nat \ {0} /\ n <= m /\ (t \in DOMAIN Of => m = n + 1 /\ above[m] = t)
        /\ (t \notin DOMAIN Of => m = n)
    BY <1>1, <1>3
  <2> HIDE DEF n
  <2>1. i \in 1..m /\ trail[k] = above[i] /\ (i = m <=> k = Len(trail))
    BY <1>3, <1>6, <1>8
  <2>2. k # Len(trail) => i < m /\ i + 1 \in 1..m /\ trail[k + 1] = above[i + 1]
    <3>1. k # Len(trail) => k + 1 \in 1..Len(trail) /\ p + (k + 1) - 1 = i + 1
      BY <1>3, <1>6, <1>8
    <3>q. QED
      BY <1>3, <1>8, <2>1, <3>1
  <2> HIDE DEF i
  <2>3. CASE i < n
    <3>1. i \in 1..n /\ i + 1 \in 1..n /\ i # m
      BY <1>1, <1>3, <2>1, <2>3
    <3>2. above[i] = st[i].sym /\ above[i + 1] = st[i + 1].sym
      BY <1>3, <3>1
    <3>q. QED
      BY <1>11, <2>1, <2>2, <2>3, <3>1, <3>2
  <2>4. CASE i = n
    <3>1. above[i] = st[n].sym
      <4>1. n \in 1..n
        BY <2>0
      <4>q. QED
        BY <1>3, <2>4, <4>1
    <3>2. CASE t \in DOMAIN Of
      <4>1. k # Len(trail) /\ i + 1 = m
        BY <2>0, <2>1, <2>4, <3>2
      <4>2. t \in deps[st[n].sym]
        BY DEF n
      <4>q. QED
        BY <2>0, <2>1, <2>2, <3>1, <3>2, <4>1, <4>2
    <3>3. CASE t \notin DOMAIN Of
      <4>1. k = Len(trail) /\ Group(trail[1]) = t
        BY <1>2, <1>8, <2>0, <2>1, <2>4, <3>3, GroupIs
      <4>2. t \in deps[st[n].sym]
        BY DEF n
      <4>q. QED
        BY <2>1, <3>1, <4>1, <4>2
    <3>q. QED
      BY <3>2, <3>3
  <2>5. CASE i > n
    <3>1. t \in DOMAIN Of /\ i = m /\ above[i] = t
      BY <2>0, <2>1, <2>5
    <3>2. Group(Group(trail[1])) = Group(t)
      BY <1>2, <1>8
    <3>q. QED
      BY <2>1, <3>1, <3>2
  <2>q. QED
    BY <2>0, <2>1, <2>3, <2>4, <2>5
<1>q. QED
  BY <1>5, <1>8, <1>9, <1>10, <1>12 DEF Loops

-----------------------------------------------------------------------------
(* sym_check_deps(t), called from the frames in st.                        *)

Ready(sc, st, t) ==
  /\ sc \in ScanType /\ sc.found = NoSym /\ t \in Symbol
  /\ Structured(sc.deps, st) /\ MarksFit(st, sc.CHECK, sc.CHECKED) /\ Loops(sc.deps, sc.trail)
  /\ st # <<>> =>
       \/ st[Len(st)].fn \in Looks /\ t \in sc.deps[st[Len(st)].sym]
       \/ /\ st[Len(st)].fn = "value" /\ t = Of[st[Len(st)].sym]
          /\ st[Len(st)].todo = {} /\ t \notin sc.CHECKED
  /\ \A k \in 1..Len(st) : k < Len(st) /\ st[k].fn = "value" => Of[st[k].sym] \in sc.CHECKED
  /\ sc.trail = <<>> /\ t \notin sc.CHECK =>
       /\ Closed(sc.deps, Done(st, sc.CHECKED)) /\ LoopFree(sc.deps, Done(st, sc.CHECKED))
       /\ LooksBut(sc.deps, st, Done(st, sc.CHECKED), t)
       /\ ChoicesDone(sc.deps, st, Done(st, sc.CHECKED))
       /\ \A s \in Symbol \ sc.left : s \in sc.CHECKED \/ (IF st = <<>> THEN s = t ELSE st[1].sym = s)

LEMMA CheckingIsChecked ==
  ASSUME NEW deps, NEW st, Structured(deps, st), NEW CHECK, NEW CHECKED, MarksFit(st, CHECK, CHECKED),
         NEW s \in Symbol, s \in CHECK
  PROVE  s \in CHECKED /\ OnStack(st, Group(s)) /\ st # <<>>
<1>1. OnStack(st, Group(s))
  BY CheckingOn DEF MarksFit
<1>2. Group(s) \in Symbol
  BY GroupIs
<1>3. st # <<>>
  <2>1. ASSUME st = <<>> PROVE FALSE
    <3>1. 1..Len(st) = {}
      BY <2>1
    <3>q. QED
      BY <1>1, <3>1 DEF OnStack
  <2>q. QED
    BY <2>1
<1>q. QED
  BY <1>1, <1>2, <1>3 DEF MarksFit

LEMMA EnterFound ==
  ASSUME NEW sc, NEW st, NEW t, Ready(sc, st, t), t \in sc.CHECK
  PROVE  Good(Enter(sc, st, t))
<1> DEFINE trail == Printed(st, t)
           r == [sc EXCEPT !.stack = st, !.found = t, !.trail = trail]
           f == st[Len(st)]
<1>1. Enter(sc, st, t) = r
  BY DEF Enter
<1>2. sc \in ScanType /\ t \in Symbol /\ Structured(sc.deps, st) /\ MarksFit(st, sc.CHECK, sc.CHECKED)
  BY DEF Ready
<1>3. t \in sc.CHECKED /\ OnStack(st, Group(t)) /\ st # <<>>
  BY <1>2, CheckingIsChecked
<1>4. f.fn \in Looks /\ t \in sc.deps[f.sym]
  BY <1>3 DEF Ready
<1>5. Checking(st, t)
  BY <1>2 DEF MarksFit
<1>6. ~(f.fn = "member" /\ t = Of[f.sym])
  BY <1>2, <1>3, <1>5, OwnNotChecking
<1>7. sc.deps \in Graphs /\ st \in Seq(Frames)
  BY <1>2 DEF ScanType, Structured
<1>8. trail \in Seq(Symbol) /\ trail # <<>> /\ Loops(sc.deps, trail)
  BY <1>2, <1>3, <1>4, <1>5, <1>6, <1>7, PrintedLoops
<1>9. trail \in Seq(Symbol \cup {"unexpected"})
  BY <1>8
<1> HIDE DEF trail
<1>10. /\ r \in ScanType /\ r.deps = sc.deps /\ r.CHECK = sc.CHECK /\ r.CHECKED = sc.CHECKED
       /\ r.stack = st /\ r.found = t /\ r.trail = trail
  <2> HIDE DEF Frames
  <2>q. QED
    BY <1>2, <1>7, <1>9 DEF ScanType
<1> HIDE DEF r
<1>11. ValuesWait(st, sc.CHECKED)
  <2>1. \A k \in 1..Len(st) : k # Len(st) => k < Len(st)
    BY <1>7
  <2>2. f.fn # "value"
    BY <1>4 DEF Looks
  <2>q. QED
    BY <2>1, <2>2 DEF ValuesWait, Ready
<1>12. FoundFits(st, t, trail)
  BY <1>3, <1>8 DEF FoundFits
<1>q. QED
  BY <1>1, <1>2, <1>8, <1>10, <1>11, <1>12 DEF Good

LEMMA EnterChecked ==
  ASSUME NEW sc, NEW st, NEW t, Ready(sc, st, t), t \notin sc.CHECK, t \in sc.CHECKED
  PROVE  Good(Enter(sc, st, t))
<1> DEFINE r == [sc EXCEPT !.stack = st]
           n == Len(st)
           f == st[n]
           done == Done(st, sc.CHECKED)
<1>1. Enter(sc, st, t) = r
  BY DEF Enter
<1>2. /\ sc \in ScanType /\ t \in Symbol /\ Structured(sc.deps, st) /\ MarksFit(st, sc.CHECK, sc.CHECKED)
      /\ Loops(sc.deps, sc.trail) /\ sc.found = NoSym
  BY DEF Ready
<1>3. st # <<>> => f.fn \in Looks /\ t \in sc.deps[f.sym]
  BY DEF Ready
<1>4. sc.deps \in Graphs /\ st \in Seq(Frames) /\ n \in Nat /\ (st # <<>> => n \in 1..n)
  BY <1>2 DEF ScanType, Structured
<1>5. /\ r \in ScanType /\ r.deps = sc.deps /\ r.CHECK = sc.CHECK /\ r.CHECKED = sc.CHECKED
      /\ r.stack = st /\ r.found = NoSym /\ r.trail = sc.trail /\ r.left = sc.left
  <2> HIDE DEF Frames
  <2>q. QED
    BY <1>2, <1>4 DEF ScanType
<1> HIDE DEF r
<1>6. ValuesWait(st, sc.CHECKED)
  <2>1. \A k \in 1..Len(st) : k # Len(st) => k < Len(st)
    BY <1>4
  <2>2. st # <<>> => f.fn # "value"
    BY <1>3 DEF Looks
  <2>3. st = <<>> => 1..Len(st) = {}
    OBVIOUS
  <2>q. QED
    BY <2>1, <2>2, <2>3 DEF ValuesWait, Ready
<1>7. ASSUME sc.trail = <<>> PROVE Progress(sc.deps, sc.left, st, sc.CHECKED)
  <2>1. Begun(sc.left, st, sc.CHECKED)
    BY <1>7 DEF Begun, Ready
  <2>2. ASSUME st # <<>> PROVE Seen(st, done, n, t)
    <3>1. Group(t) \in sc.CHECKED /\ Group(t) \in Groups
      BY <1>2, GroupIs DEF MarksFit
    <3>2. CASE ~OnStack(st, Group(t))
      BY <3>1, <3>2 DEF Seen, Done
    <3>3. CASE OnStack(st, Group(t))
      <4>1. ~Checking(st, t)
        BY <1>2 DEF MarksFit
      <4>2. PICK k \in 1..n : Main(st[k]) /\ st[k].sym = Group(t)
        BY <3>3 DEF OnStack
      <4>3. st[k].fn = "choice" /\ t \notin Values(Group(t))
        <5>1. st[k].fn = "choice" \/ st[k].fn = "sym"
          BY <4>2 DEF Main
        <5>2. st[k].fn = "choice" => t \notin Values(Group(t))
          BY <4>1, <4>2 DEF Checking
        <5>3. st[k].fn = "sym" => Group(t) = t
          BY <1>2, <4>2, GroupIs DEF Structured, Framed
        <5>4. st[k].fn # "sym"
          BY <4>1, <4>2, <5>3 DEF Checking
        <5>q. QED
          BY <5>1, <5>2, <5>4
      <4>4. t \notin DOMAIN Of /\ Group(t) = t
        BY <1>2, <4>3, GroupIs
      <4>5. t \in Choice
        BY <1>2, <4>2, <4>3, <4>4 DEF Structured, Framed
      <4>6. f.fn \in Looks /\ t \in sc.deps[f.sym] /\ Framed(sc.deps, f) /\ f.sym \in Symbol
        BY <1>2, <1>3, <1>4, <2>2 DEF Structured, Framed, Frames
      <4>7. CASE f.sym \in Values(t)
        <5>1. f.fn = "member" /\ t = Of[f.sym]
          BY <4>5, <4>6, <4>7, ChoiceIs DEF Framed, Looks
        <5>q. QED
          BY <5>1 DEF Seen
      <4>8. CASE f.sym = t
        <5>1. f.fn = "self"
          BY <4>4, <4>5, <4>6, <4>8 DEF Framed, Looks
        <5>2. Checking(st, t)
          BY <1>4, <2>2, <4>8, <5>1 DEF Checking
        <5>q. QED
          BY <4>1, <5>2
      <4>9. CASE f.sym \notin Values(t) /\ f.sym # t
        <5>1. PICK v \in sc.deps[f.sym] : v \in Values(t)
          BY <1>4, <4>5, <4>6, <4>9, ScanAssumption
        <5>2. v \in DOMAIN Of /\ Of[v] = t /\ Group(v) = t /\ v # t /\ v \notin Choice
          BY <4>4, <4>5, <5>1, ChoiceIs
        <5>3. v \in f.todo
          <6>1. SUFFICES ASSUME v \notin f.todo PROVE FALSE
            OBVIOUS
          <6>2. Seen(st, done, n, v)
            BY <1>4, <1>7, <2>2, <4>6, <5>1, <5>2, <6>1 DEF Ready, LooksBut
          <6>3. t \notin done
            BY <3>3, <4>4 DEF Done
          <6>4. f.fn = "member" => Of[f.sym] # v
            BY <4>6, <5>2, GroupIs DEF Framed
          <6>q. QED
            BY <1>4, <5>2, <6>2, <6>3, <6>4 DEF Seen
        <5>q. QED
          BY <3>3, <4>4, <4>5, <5>1, <5>3 DEF Seen
      <4>q. QED
        BY <4>7, <4>8, <4>9
    <3>q. QED
      BY <3>2, <3>3
  <2>3. LooksDone(sc.deps, st, done)
    <3>1. \A k \in 1..n : st # <<>>
      OBVIOUS
    <3>2. LooksBut(sc.deps, st, done, t)
      BY <1>7 DEF Ready
    <3>q. QED
      BY <2>2, <3>1, <3>2 DEF LooksBut, LooksDone
  <2>q. QED
    BY <1>7, <2>1, <2>3 DEF Progress, Ready
<1>8. FoundFits(st, NoSym, sc.trail)
  BY DEF FoundFits
<1>q. QED
  BY <1>1, <1>2, <1>5, <1>6, <1>7, <1>8 DEF Good
LEMMA EnterValue ==
  ASSUME NEW sc, NEW st, NEW t, Ready(sc, st, t), t \notin sc.CHECK, t \notin sc.CHECKED, t \in DOMAIN Of
  PROVE  Good(Enter(sc, st, t))
<1> DEFINE f    == Frame("value", t, {Of[t]})
           new  == Append(st, f)
           r    == [sc EXCEPT !.stack = new]
           n    == Len(st)
           done == Done(st, sc.CHECKED)
<1>1. Enter(sc, st, t) = r
  BY DEF Enter
<1>2. /\ sc \in ScanType /\ t \in Symbol /\ Structured(sc.deps, st) /\ MarksFit(st, sc.CHECK, sc.CHECKED)
      /\ Loops(sc.deps, sc.trail) /\ sc.found = NoSym /\ sc.deps \in Graphs /\ st \in Seq(Frames)
  BY DEF Ready, ScanType, Structured
<1>3. n \in Nat /\ (st # <<>> => n \in 1..n) /\ (st = <<>> <=> n = 0)
  BY <1>2
<1>4. Framed(sc.deps, f) /\ f \in Frames /\ f.fn = "value" /\ f.sym = t /\ f.todo = {Of[t]}
  <2>1. Framed(sc.deps, f)
    BY <1>2, FramesAre
  <2>q. QED
    BY <2>1 DEF Framed, Frame
<1> HIDE DEF f
<1>5. st # <<>> => st[n].fn \in Looks /\ t \in sc.deps[st[n].sym] /\ Framed(sc.deps, st[n])
  <2>1. \A s \in Symbol : s \in DOMAIN Of => t # Of[s]
    BY GroupIs
  <2>2. st # <<>> => Framed(sc.deps, st[n])
    BY <1>2, <1>3 DEF Structured
  <2>3. st # <<>> => st[n].fn # "value" \/ t # Of[st[n].sym]
    BY <2>1, <2>2 DEF Framed, Frames
  <2>q. QED
    BY <2>2, <2>3 DEF Ready
<1>6. Structured(sc.deps, new)
  <2>1. st # <<>> => Calls(sc.deps, st[n], f)
    <3>1. st # <<>> => ~(st[n].fn = "member" /\ t = Of[st[n].sym])
      BY <1>5, GroupIs DEF Framed, Frames
    <3>q. QED
      BY <1>4, <1>5, <3>1 DEF Calls, Looks
  <2>2. ~Main(f)
    BY <1>4 DEF Main
  <2>q. QED
    BY <1>2, <1>4, <2>1, <2>2, StructuredIs
<1>7. \A a : OnStack(new, a) <=> OnStack(st, a)
  BY <1>2, <1>4, OnStackAdded DEF Main
<1>8. MarksFit(new, sc.CHECK, sc.CHECKED)
  <2>1. \A s : Checking(new, s) <=> Checking(st, s)
    BY <1>2, <1>4, CheckingAdded DEF Checks
  <2>q. QED
    BY <1>2, <1>7, <2>1 DEF MarksFit
<1>9. /\ new \in Seq(Frames) /\ new # <<>> /\ Len(new) = n + 1 /\ new[n + 1] = f
      /\ \A k \in 1..n : new[k] = st[k]
  BY <1>2, <1>4, Added
<1> HIDE DEF new
<1>10. ValuesWait(new, sc.CHECKED)
  <2>1. Of[t] \notin sc.CHECKED
    BY <1>2, GroupIs DEF MarksFit
  <2>2. ASSUME NEW k \in 1..(n + 1), new[k].fn = "value", k < n + 1 \/ new[k].todo = {}
        PROVE  Of[new[k].sym] \in sc.CHECKED
    <3>1. k # n + 1
      BY <1>3, <1>4, <1>9, <2>2
    <3>2. k \in 1..n /\ st # <<>> /\ new[k] = st[k]
      BY <1>3, <1>9, <3>1
    <3>3. k # n
      BY <1>5, <2>2, <3>2 DEF Looks
    <3>4. k < n
      BY <1>3, <3>2, <3>3
    <3>q. QED
      BY <2>2, <3>2, <3>4 DEF Ready
  <2>q. QED
    BY <1>4, <1>9, <2>1, <2>2 DEF ValuesWait
<1>11. ASSUME sc.trail = <<>> PROVE Progress(sc.deps, sc.left, new, sc.CHECKED)
  <2>1. Done(new, sc.CHECKED) = done
    BY <1>7 DEF Done
  <2>2. LooksDone(sc.deps, new, done)
    <3>1. LooksBut(sc.deps, st, done, f.sym)
      BY <1>4, <1>11 DEF Ready
    <3>q. QED
      BY <1>2, <1>4, <3>1, LooksPushed DEF new, Looks
  <2>3. ChoicesDone(sc.deps, new, done)
    <3>1. ChoicesBut(sc.deps, st, done, f.sym)
      BY <1>11 DEF Ready, ChoicesDone, ChoicesBut
    <3>q. QED
      BY <1>2, <1>4, <3>1, ChoicesPushed DEF new
  <2>4. Begun(sc.left, new, sc.CHECKED)
    <3>1. IF st = <<>> THEN new[1].sym = t ELSE new[1] = st[1]
      <4>1. st = <<>> => n + 1 = 1
        BY <1>3
      <4>2. st # <<>> => 1 \in 1..n
        BY <1>3
      <4>q. QED
        BY <1>4, <1>9, <4>1, <4>2
    <3>q. QED
      BY <1>9, <1>11, <3>1 DEF Begun, Ready
  <2>q. QED
    BY <1>11, <2>1, <2>2, <2>3, <2>4 DEF Progress, Ready
<1>12. /\ r \in ScanType /\ r.deps = sc.deps /\ r.CHECK = sc.CHECK /\ r.CHECKED = sc.CHECKED
       /\ r.stack = new /\ r.found = NoSym /\ r.trail = sc.trail /\ r.left = sc.left
  <2> HIDE DEF Frames
  <2>q. QED
    BY <1>2, <1>9 DEF ScanType
<1> HIDE DEF r
<1>13. FoundFits(new, NoSym, sc.trail)
  BY DEF FoundFits
<1>q. QED
  BY <1>1, <1>2, <1>6, <1>8, <1>10, <1>11, <1>12, <1>13 DEF Good

LEMMA EnterMain ==
  ASSUME NEW sc, NEW st, NEW t, Ready(sc, st, t), t \notin sc.CHECK, t \notin sc.CHECKED, t \notin DOMAIN Of
  PROVE  Good(Enter(sc, st, t))
<1> DEFINE new   == st \o New(sc.deps, t)
           CHECK == sc.CHECK \cup Marked(t)
           after == sc.CHECKED \cup Marked(t)
           r     == [sc EXCEPT !.CHECK = CHECK, !.CHECKED = after, !.stack = new]
           n     == Len(st)
           done  == Done(st, sc.CHECKED)
<1>2. /\ sc \in ScanType /\ t \in Symbol /\ Structured(sc.deps, st) /\ MarksFit(st, sc.CHECK, sc.CHECKED)
      /\ Loops(sc.deps, sc.trail) /\ sc.found = NoSym /\ sc.deps \in Graphs /\ st \in Seq(Frames)
      /\ sc.CHECK \in SUBSET Symbol /\ sc.CHECKED \in SUBSET Symbol
  BY DEF Ready, ScanType, Structured
<1>1. Enter(sc, st, t) = r
  BY DEF Enter, New
<1>3. n \in Nat /\ (st # <<>> => n \in 1..n) /\ (st = <<>> <=> n = 0)
  BY <1>2
<1>4. st # <<>> => Calls(sc.deps, st[n], First(t))
  <2> SUFFICES ASSUME st # <<>> PROVE Calls(sc.deps, st[n], First(t))
    OBVIOUS
  <2>1. Framed(sc.deps, st[n]) /\ st[n].sym \in Symbol
    BY <1>2, <1>3 DEF Structured, Framed, Frames
  <2>2. CASE st[n].fn \in Looks /\ t \in sc.deps[st[n].sym]
    <3>1. ASSUME st[n].fn = "member", t = Of[st[n].sym] PROVE FALSE
      <4>1. n # 1
        BY <1>2, <3>1 DEF Structured
      <4>2. n - 1 \in 1..n /\ n - 1 < n /\ (n - 1) + 1 = n
        <5>1. n \in Nat /\ n \in 1..n
          BY <1>3
        <5> HIDE DEF n
        <5>q. QED
          BY <4>1, <5>1
      <4>3. Calls(sc.deps, st[n - 1], st[n])
        BY <1>2, <4>2 DEF Structured
      <4>4. Main(st[n - 1]) /\ st[n - 1].sym = t
        BY <2>1, <3>1, <4>3, GroupIs DEF Calls, Main, Framed
      <4>5. OnStack(st, t)
        BY <4>2, <4>4 DEF OnStack
      <4>q. QED
        BY <1>2, <4>5 DEF MarksFit
    <3>q. QED
      BY <2>2, <3>1 DEF Calls, First, Frame, Looks
  <2>3. CASE st[n].fn = "value" /\ t = Of[st[n].sym] /\ st[n].todo = {}
    <3>1. t \in Choice
      BY <2>1, <2>3, GroupIs DEF Framed
    <3>q. QED
      BY <2>3, <3>1 DEF Calls, First, Frame, Looks
  <2>q. QED
    BY <2>2, <2>3 DEF Ready
<1>5. Structured(sc.deps, new) /\ MarksFit(new, CHECK, after) /\ Done(new, after) = done
  <2>1. t \in Symbol /\ t \notin DOMAIN Of /\ t \notin sc.CHECKED
    BY <1>2
  <2>2. ASSUME NEW deps \in Graphs, NEW CD \in SUBSET Symbol, NEW CK, Structured(deps, st), MarksFit(st, CK, CD),
               t \notin CD, st # <<>> => Calls(deps, st[Len(st)], First(t))
        PROVE  /\ Structured(deps, st \o New(deps, t))
               /\ MarksFit(st \o New(deps, t), CK \cup Marked(t), CD \cup Marked(t))
               /\ Done(st \o New(deps, t), CD \cup Marked(t)) = Done(st, CD)
    BY <2>1, <2>2, MainPushed, SMTT(30)
  <2>q. QED
    BY <1>2, <1>4, <2>1, <2>2
<1>6. /\ \A k \in 1..Len(new) : (k \in 1..n /\ new[k] = st[k]) \/ new[k].fn # "value"
      /\ Len(new) > n /\ Len(new) \in Nat
      /\ IF st = <<>> THEN new[1].sym = t ELSE new[1] = st[1]
      /\ sc.trail = <<>> => LooksDone(sc.deps, new, done) /\ ChoicesDone(sc.deps, new, done)
  <2>0. sc.trail = <<>> => LooksBut(sc.deps, st, done, t) /\ ChoicesBut(sc.deps, st, done, t)
    BY DEF Ready, ChoicesDone, ChoicesBut
  <2>1. CASE t \in Choice
    <3> DEFINE f == Frame("choice", t, Values(t))
               g == Frame("self", t, sc.deps[t])
               one == Append(st, f)
    <3>1. Framed(sc.deps, f) /\ Framed(sc.deps, g)
      BY <1>2, <2>1, FramesAre
    <3>2. /\ f \in Frames /\ g \in Frames /\ f.sym = t /\ g.sym = t /\ f.fn = "choice" /\ g.fn = "self"
          /\ f.todo = Values(t) /\ g.todo = sc.deps[t]
      BY <3>1 DEF Framed, Frame
    <3>3. new = Append(one, g)
      <4>1. New(sc.deps, t) = <<f, g>>
        BY <2>1 DEF New
      <4>q. QED
        BY <1>2, <3>2, <4>1, NewIs
    <3> HIDE DEF f, g, new
    <3>4. /\ one \in Seq(Frames) /\ Len(one) = n + 1 /\ one[n + 1] = f /\ \A k \in 1..n : one[k] = st[k]
      BY <1>2, <3>2, Added
    <3>5. LooksBut(sc.deps, st, done, t) => LooksDone(sc.deps, one, done)
      BY <1>2, <3>2, LooksPushed DEF Looks
    <3>6. ASSUME ChoicesBut(sc.deps, st, done, t) PROVE ChoicesBut(sc.deps, one, done, t)
      <4>1. ChoicesBut(sc.deps, st, done, f.sym)
        BY <3>2, <3>6
      <4>2. ChoicesBut(sc.deps, one, done, f.sym)
        BY <1>2, <3>2, <4>1, ChoicesPushed
      <4>q. QED
        BY <3>2, <4>2
    <3> HIDE DEF one
    <3>7. Len(new) = n + 2 /\ new[n + 2] = g /\ \A k \in 1..(n + 1) : new[k] = one[k]
      <4>1. (n + 1) + 1 = n + 2
        BY <1>3
      <4>q. QED
        BY <3>2, <3>3, <3>4, <4>1, Added
    <3>8. LooksDone(sc.deps, one, done) => LooksDone(sc.deps, new, done)
      <4>1. LooksDone(sc.deps, one, done) => LooksBut(sc.deps, one, done, t)
        BY DEF LooksDone, LooksBut
      <4>q. QED
        BY <3>2, <3>3, <3>4, <4>1, LooksPushed
    <3>9. ChoicesBut(sc.deps, one, done, t) => ChoicesDone(sc.deps, new, done)
      BY <3>2, <3>3, <3>4, ChoicesPushed
    <3>10. \A k \in 1..Len(new) : (k \in 1..n /\ new[k] = st[k]) \/ new[k].fn # "value"
      <4>1. \A k \in 1..(n + 2) : k = n + 2 \/ k = n + 1 \/ k \in 1..n
        BY <1>3
      <4>2. \A k \in 1..n : k \in 1..(n + 1)
        BY <1>3
      <4>3. n + 1 \in 1..(n + 1)
        BY <1>3
      <4>q. QED
        BY <3>2, <3>4, <3>7, <4>1, <4>2, <4>3
    <3>11. IF st = <<>> THEN new[1].sym = t ELSE new[1] = st[1]
      <4>1. 1 \in 1..(n + 1) /\ (st = <<>> => n + 1 = 1) /\ (st # <<>> => 1 \in 1..n)
        BY <1>3
      <4>q. QED
        BY <3>2, <3>4, <3>7, <4>1
    <3>q. QED
      BY <1>3, <2>0, <3>5, <3>6, <3>7, <3>8, <3>9, <3>10, <3>11
  <2>2. CASE t \notin Choice
    <3> DEFINE f == Frame("sym", t, sc.deps[t])
    <3>1. Framed(sc.deps, f)
      BY <1>2, <2>2, FramesAre
    <3>2. f \in Frames /\ f.sym = t /\ f.fn = "sym" /\ f.todo = sc.deps[t]
      BY <3>1 DEF Framed, Frame
    <3>3. new = Append(st, f)
      <4>1. New(sc.deps, t) = <<f>>
        BY <2>2 DEF New
      <4>q. QED
        BY <1>2, <3>2, <4>1, NewIs
    <3> HIDE DEF f, new
    <3>4. Len(new) = n + 1 /\ new[n + 1] = f /\ \A k \in 1..n : new[k] = st[k]
      BY <1>2, <3>2, <3>3, Added
    <3>5. LooksBut(sc.deps, st, done, t) => LooksDone(sc.deps, new, done)
      BY <1>2, <3>2, <3>3, LooksPushed
    <3>6. ChoicesBut(sc.deps, st, done, t) => ChoicesDone(sc.deps, new, done)
      BY <1>2, <3>2, <3>3, ChoicesPushed
    <3>7. \A k \in 1..Len(new) : (k \in 1..n /\ new[k] = st[k]) \/ new[k].fn # "value"
      <4>1. \A k \in 1..(n + 1) : k = n + 1 \/ k \in 1..n
        BY <1>3
      <4>q. QED
        BY <3>2, <3>4, <4>1
    <3>8. IF st = <<>> THEN new[1].sym = t ELSE new[1] = st[1]
      <4>1. (st = <<>> => n + 1 = 1) /\ (st # <<>> => 1 \in 1..n)
        BY <1>3
      <4>q. QED
        BY <3>2, <3>4, <4>1
    <3>q. QED
      BY <1>3, <2>0, <3>4, <3>5, <3>6, <3>7, <3>8
  <2>q. QED
    BY <2>1, <2>2
<1> HIDE DEF new
<1>7. ValuesWait(new, after)
  <2>1. ASSUME NEW k \in 1..Len(new), new[k].fn = "value" PROVE Of[new[k].sym] \in after
    <3>1. k \in 1..n /\ new[k] = st[k] /\ st # <<>>
      BY <1>3, <1>6, <2>1
    <3>2. CASE k < n
      BY <2>1, <3>1, <3>2 DEF Ready
    <3>3. CASE k = n
      <4>1. t = Of[st[n].sym]
        BY <2>1, <3>1, <3>3 DEF Ready, Looks
      <4>q. QED
        BY <3>1, <3>3, <4>1 DEF Marked
    <3>q. QED
      BY <1>3, <3>1, <3>2, <3>3
  <2>2. Len(new) \in 1..Len(new) /\ Len(new) \notin 1..n
    BY <1>3, <1>6
  <2>3. new[Len(new)].fn # "value"
    BY <1>6, <2>2
  <2>q. QED
    BY <2>1, <2>3 DEF ValuesWait
<1>8. ASSUME sc.trail = <<>> PROVE Progress(sc.deps, sc.left, new, after)
  <2>0. new # <<>>
    BY <1>3, <1>6
  <2>1. Begun(sc.left, new, after)
    BY <1>5, <1>6, <1>8, <2>0 DEF Begun, Ready, Marked
  <2>q. QED
    BY <1>5, <1>6, <1>8, <2>1 DEF Progress, Ready
<1>9. CHECK \in SUBSET Symbol /\ after \in SUBSET Symbol /\ new \in Seq(Frames)
  <2>1. Marked(t) \subseteq Symbol
    BY <1>2, ScanAssumption DEF Marked, Values
  <2>q. QED
    BY <1>2, <1>5, <2>1 DEF Structured
<1> HIDE DEF CHECK, after
<1>10. /\ r \in ScanType /\ r.deps = sc.deps /\ r.CHECK = CHECK /\ r.CHECKED = after
       /\ r.stack = new /\ r.found = NoSym /\ r.trail = sc.trail /\ r.left = sc.left
  <2> HIDE DEF Frames
  <2>q. QED
    BY <1>2, <1>9 DEF ScanType
<1> HIDE DEF r
<1>11. FoundFits(new, NoSym, sc.trail)
  BY DEF FoundFits
<1>q. QED
  BY <1>1, <1>2, <1>5, <1>7, <1>8, <1>10, <1>11 DEF Good

LEMMA EnterKeeps == ASSUME NEW sc, NEW st, NEW t, Ready(sc, st, t) PROVE Good(Enter(sc, st, t))
BY EnterFound, EnterChecked, EnterValue, EnterMain
-----------------------------------------------------------------------------
(* The steps of the search.                                                *)

LEMMA CheckKeeps == ASSUME ScanInv, Check PROVE ScanInv'
<1> USE DEF ScanInv
<1>1. scan.stack = <<>> /\ scan \in ScanType
  BY DEF Check, Good
<1>2. PICK s \in scan.left : scan' = [Enter(scan, <<>>, s) EXCEPT !.left = @ \ {s}]
  BY DEF Check
<1> DEFINE sc == [scan EXCEPT !.left = @ \ {s}]
<1>3. /\ sc \in ScanType /\ sc.left = scan.left \ {s} /\ sc.deps = scan.deps /\ sc.CHECK = scan.CHECK
      /\ sc.CHECKED = scan.CHECKED /\ sc.stack = <<>> /\ sc.found = scan.found /\ sc.trail = scan.trail
      /\ s \in Symbol
  <2> HIDE DEF Frames
  <2>q. QED
    BY <1>1 DEF ScanType
<1>4. scan' = Enter(sc, <<>>, s)
  <2> HIDE DEF Frames
  <2>q. QED
    BY <1>1, <1>2, ZenonT(40) DEF Enter, ScanType
<1> HIDE DEF sc
<1>5. 1..Len(<<>>) = {}
  OBVIOUS
<1>6. scan.found = NoSym
  BY <1>1, <1>5 DEF Good, FoundFits, OnStack
<1>7. LooksBut(scan.deps, <<>>, Done(<<>>, scan.CHECKED), s)
  BY <1>5 DEF LooksBut
<1>8. Ready(sc, <<>>, s)
  <2>1. scan.trail = <<>> => \A u \in Symbol \ sc.left : u \in sc.CHECKED \/ u = s
    BY <1>1, <1>3 DEF Good, Progress, Begun
  <2>q. QED
    BY <1>1, <1>3, <1>5, <1>6, <1>7, <2>1 DEF Good, Ready, Progress
<1>9. Good(scan')
  BY <1>4, <1>8, EnterKeeps
<1>q. QED
  BY <1>9

(* The stack, and its frame on top.                                        *)
LEMMA StackTop ==
  ASSUME ScanInv, scan.stack # <<>>
  PROVE  LET low == SubSeq(scan.stack, 1, Len(scan.stack) - 1)
             n   == Len(low)
         IN  /\ low \in Seq(Frames) /\ Top \in Frames /\ scan.stack = Append(low, Top)
             /\ Framed(scan.deps, Top) /\ n \in Nat /\ Len(scan.stack) = n + 1 /\ scan.stack[n + 1] = Top
             /\ \A k \in 1..n : scan.stack[k] = low[k]
<1> DEFINE low == SubSeq(scan.stack, 1, Len(scan.stack) - 1)
<1>1. Structured(scan.deps, scan.stack) /\ scan.stack \in Seq(Frames)
  BY DEF ScanInv, Good, Structured
<1>2. low \in Seq(Frames) /\ Top \in Frames /\ scan.stack = Append(low, Top)
  BY <1>1, TopOf DEF Top
<1> HIDE DEF low
<1>3. /\ Len(low) \in Nat /\ Len(scan.stack) = Len(low) + 1 /\ scan.stack[Len(low) + 1] = Top
      /\ \A k \in 1..Len(low) : scan.stack[k] = low[k]
  BY <1>2, Added
<1>4. Len(low) + 1 \in 1..Len(scan.stack)
  BY <1>3
<1>5. Framed(scan.deps, Top)
  BY <1>1, <1>3, <1>4 DEF Structured
<1>q. QED
  BY <1>2, <1>3, <1>5 DEF low

(* The values of a choice on the stack are being checked.                  *)
LEMMA ValuesMarked ==
  ASSUME NEW deps, NEW st, Structured(deps, st), NEW s \in Symbol, ~Checking(st, s),
         NEW c \in Choice, OnStack(st, c)
  PROVE  s \notin Values(c)
<1>1. PICK k \in 1..Len(st) : Main(st[k]) /\ st[k].sym = c
  BY DEF OnStack
<1>2. st[k].fn = "choice"
  BY <1>1 DEF Structured, Framed, Main
<1>q. QED
  BY <1>1, <1>2 DEF Checking

LEMMA CheckExprKeeps == ASSUME ScanInv, CheckExpr PROVE ScanInv'
<1> DEFINE st   == scan.stack
           low  == SubSeq(st, 1, Len(st) - 1)
           f    == Top
           n    == Len(low)
           done == Done(st, scan.CHECKED)
<1>1. PICK s \in f.todo : scan' = Enter(scan, Below(s), s)
  BY DEF CheckExpr
<1>2. scan.stack # <<>> /\ scan.found = NoSym /\ f.fn # "choice"
  BY DEF CheckExpr
<1>3. /\ low \in Seq(Frames) /\ f \in Frames /\ st = Append(low, f) /\ Framed(scan.deps, f)
      /\ n \in Nat /\ Len(st) = n + 1 /\ st[n + 1] = f /\ \A k \in 1..n : st[k] = low[k]
  BY <1>2, StackTop
<1> DEFINE new == Append(low, Lower(f, s))
<1>4. Below(s) = new
  BY DEF Below, Lower
<1>5. /\ scan \in ScanType /\ Structured(scan.deps, st) /\ MarksFit(st, scan.CHECK, scan.CHECKED)
      /\ ValuesWait(st, scan.CHECKED) /\ Loops(scan.deps, scan.trail)
      /\ scan.trail = <<>> => Progress(scan.deps, scan.left, st, scan.CHECKED)
  BY DEF ScanInv, Good
<1> HIDE DEF low, f
<1>6. /\ new \in Seq(Frames) /\ new # <<>> /\ Len(new) = n + 1 /\ new[n + 1] = Lower(f, s)
      /\ \A a : OnStack(new, a) <=> OnStack(st, a)
      /\ \A u : Checking(new, u) <=> Checking(st, u)
      /\ Structured(scan.deps, new) /\ new[1].sym = st[1].sym
  <2> HIDE DEF st, n
  <2>1. /\ new \in Seq(Frames) /\ new # <<>> /\ Len(new) = Len(Append(low, f))
        /\ new[Len(new)] = Lower(f, s) /\ new[1].sym = Append(low, f)[1].sym
    BY <1>3, Lowered
  <2>2. /\ \A a : OnStack(new, a) <=> OnStack(Append(low, f), a)
        /\ \A u : Checking(new, u) <=> Checking(Append(low, f), u)
        /\ Structured(scan.deps, Append(low, f)) => Structured(scan.deps, new)
    BY <1>3, Lowered
  <2>q. QED
    BY <1>3, <1>5, <2>1, <2>2
<1>7. /\ Lower(f, s) \in Frames /\ Lower(f, s).fn = f.fn /\ Lower(f, s).sym = f.sym
      /\ Lower(f, s).todo = f.todo \ {s}
  BY <1>3 DEF Lower, Frames
<1>8. \A k \in 1..n : new[k] = st[k]
  BY <1>3, <1>7, Added
<1> HIDE DEF new, st, n
<1>9. s \in Symbol
  BY <1>3 DEF Framed, Frames
<1>10. MarksFit(new, scan.CHECK, scan.CHECKED)
  BY <1>5, <1>6 DEF MarksFit
<1>11. \/ f.fn \in Looks /\ s \in scan.deps[f.sym]
       \/ f.fn = "value" /\ s = Of[f.sym] /\ f.todo \ {s} = {} /\ s \notin scan.CHECKED
  <2>1. CASE f.fn \in Looks
    BY <1>3, <2>1 DEF Framed
  <2>2. CASE f.fn = "value"
    <3>1. s = Of[f.sym] /\ f.todo \ {s} = {} /\ f.todo # {}
      BY <1>3, <2>2 DEF Framed
    <3>2. Of[f.sym] \notin scan.CHECKED
      BY <1>2, <1>3, <1>5, <2>2, <3>1 DEF ValuesWait, st
    <3>q. QED
      BY <2>2, <3>1, <3>2
  <2>q. QED
    BY <1>2, <1>3, <2>1, <2>2 DEF Framed, Frames, Looks
<1>12. \A k \in 1..Len(new) : k < Len(new) /\ new[k].fn = "value" => Of[new[k].sym] \in scan.CHECKED
  <2>1. \A k \in 1..(n + 1) : k < n + 1 => k \in 1..n
    BY <1>3
  <2>q. QED
    BY <1>3, <1>5, <1>6, <1>8, <2>1 DEF ValuesWait
<1>13. ASSUME scan.trail = <<>>, s \notin scan.CHECK
       PROVE  /\ Closed(scan.deps, Done(new, scan.CHECKED)) /\ LoopFree(scan.deps, Done(new, scan.CHECKED))
              /\ LooksBut(scan.deps, new, Done(new, scan.CHECKED), s)
              /\ ChoicesDone(scan.deps, new, Done(new, scan.CHECKED))
              /\ \A u \in Symbol \ scan.left : u \in scan.CHECKED \/ new[1].sym = u
  <2>1. Done(new, scan.CHECKED) = done
    BY <1>6 DEF Done
  <2>2. ~Checking(st, s)
    BY <1>5, <1>9, <1>13 DEF MarksFit
  <2>3. \A c \in Choice : OnStack(Append(low, f), c) => s \notin Values(c)
    BY <1>3, <1>5, <1>9, <2>2, ValuesMarked
  <2>4. LooksDone(scan.deps, Append(low, f), done) /\ ChoicesDone(scan.deps, Append(low, f), done)
    BY <1>3, <1>5, <1>13 DEF Progress
  <2>5. LooksBut(scan.deps, new, done, s) /\ ChoicesDone(scan.deps, new, done)
    <3> HIDE DEF done
    <3>q. QED
      BY <1>2, <1>3, <2>3, <2>4, LoweredLooks DEF new
  <2>q. QED
    BY <1>5, <1>6, <1>13, <2>1, <2>5 DEF Progress, Begun
<1>14. Ready(scan, new, s)
  BY <1>2, <1>5, <1>6, <1>7, <1>9, <1>10, <1>11, <1>12, <1>13 DEF Ready
<1>15. Good(scan')
  BY <1>1, <1>4, <1>14, EnterKeeps
<1>q. QED
  BY <1>15 DEF ScanInv

LEMMA CheckMemberKeeps == ASSUME ScanInv, CheckMember PROVE ScanInv'
<1> DEFINE st   == scan.stack
           low  == SubSeq(st, 1, Len(st) - 1)
           f    == Top
           n    == Len(low)
           done == Done(st, scan.CHECKED)
<1>1. PICK s \in f.todo : scan' = [scan EXCEPT !.stack = Append(Below(s), Frame("member", s, scan.deps[s]))]
  BY DEF CheckMember
<1>2. scan.stack # <<>> /\ scan.found = NoSym /\ f.fn = "choice"
  BY DEF CheckMember
<1>3. /\ low \in Seq(Frames) /\ f \in Frames /\ st = Append(low, f) /\ Framed(scan.deps, f)
      /\ n \in Nat /\ Len(st) = n + 1 /\ st[n + 1] = f /\ \A k \in 1..n : st[k] = low[k]
  BY <1>2, StackTop
<1> DEFINE mid == Append(low, Lower(f, s))
           g   == Frame("member", s, scan.deps[s])
           new == Append(mid, g)
<1>4. Below(s) = mid
  BY DEF Below, Lower
<1>5. /\ scan \in ScanType /\ Structured(scan.deps, st) /\ MarksFit(st, scan.CHECK, scan.CHECKED)
      /\ ValuesWait(st, scan.CHECKED) /\ Loops(scan.deps, scan.trail) /\ scan.deps \in Graphs
      /\ scan.trail = <<>> => Progress(scan.deps, scan.left, st, scan.CHECKED)
  BY DEF ScanInv, Good, ScanType
<1> HIDE DEF low, f
<1>6. /\ mid \in Seq(Frames) /\ mid # <<>> /\ Len(mid) = n + 1 /\ mid[n + 1] = Lower(f, s)
      /\ \A a : OnStack(mid, a) <=> OnStack(st, a)
      /\ \A u : Checking(mid, u) <=> Checking(st, u)
      /\ Structured(scan.deps, mid) /\ mid[1].sym = st[1].sym
  <2> HIDE DEF st, n
  <2>1. /\ mid \in Seq(Frames) /\ mid # <<>> /\ Len(mid) = Len(Append(low, f))
        /\ mid[Len(mid)] = Lower(f, s) /\ mid[1].sym = Append(low, f)[1].sym
    BY <1>3, Lowered
  <2>2. /\ \A a : OnStack(mid, a) <=> OnStack(Append(low, f), a)
        /\ \A u : Checking(mid, u) <=> Checking(Append(low, f), u)
        /\ Structured(scan.deps, Append(low, f)) => Structured(scan.deps, mid)
    BY <1>3, Lowered
  <2>q. QED
    BY <1>3, <1>5, <2>1, <2>2
<1>7. /\ Lower(f, s) \in Frames /\ Lower(f, s).fn = f.fn /\ Lower(f, s).sym = f.sym
      /\ Lower(f, s).todo = f.todo \ {s}
  BY <1>3 DEF Lower, Frames
<1>8. \A k \in 1..n : mid[k] = st[k]
  BY <1>3, <1>7, Added
<1>9. f.sym \in Choice /\ s \in Values(f.sym) /\ s \in Symbol /\ s \in DOMAIN Of /\ Group(s) = f.sym
  <2>1. f.sym \in Choice /\ s \in Values(f.sym)
    BY <1>2, <1>3 DEF Framed
  <2>q. QED
    BY <2>1, ChoiceIs
<1>10. Framed(scan.deps, g) /\ g \in Frames /\ g.fn = "member" /\ g.sym = s /\ g.todo = scan.deps[s]
  <2>1. Framed(scan.deps, g)
    BY <1>5, <1>9, FramesAre
  <2>q. QED
    BY <2>1 DEF Framed, Frame
<1> HIDE DEF mid, g, st, n
<1>11. Structured(scan.deps, new)
  <2>1. Calls(scan.deps, Lower(f, s), g)
    BY <1>2, <1>7, <1>9, <1>10 DEF Calls, Looks
  <2>q. QED
    BY <1>6, <1>10, <2>1, StructuredIs DEF Main
<1>12. \A a : OnStack(new, a) <=> OnStack(st, a)
  BY <1>6, <1>10, OnStackAdded DEF Main
<1>13. MarksFit(new, scan.CHECK, scan.CHECKED)
  <2>1. \A u : Checking(new, u) <=> Checking(st, u)
    BY <1>6, <1>10, CheckingAdded DEF Checks
  <2>q. QED
    BY <1>5, <1>12, <2>1 DEF MarksFit
<1>14. /\ new \in Seq(Frames) /\ new # <<>> /\ Len(new) = (n + 1) + 1 /\ new[(n + 1) + 1] = g
       /\ \A k \in 1..(n + 1) : new[k] = mid[k]
  BY <1>6, <1>10, Added
<1> HIDE DEF new
<1>15. ValuesWait(new, scan.CHECKED)
  <2>1. ASSUME NEW k \in 1..Len(new), new[k].fn = "value" PROVE Of[new[k].sym] \in scan.CHECKED
    <3>1. k = n + 2 \/ k = n + 1 \/ (k \in 1..n /\ k \in 1..(n + 1) /\ k < n + 1)
      BY <1>3, <1>14
    <3>2. (n + 1) + 1 = n + 2 /\ n + 1 \in 1..(n + 1)
      BY <1>3
    <3>3. CASE k \in 1..n /\ k \in 1..(n + 1) /\ k < n + 1
      BY <1>3, <1>5, <1>8, <1>14, <2>1, <3>3 DEF ValuesWait
    <3>q. QED
      BY <1>2, <1>6, <1>7, <1>10, <1>14, <2>1, <3>1, <3>2, <3>3
  <2>q. QED
    BY <1>10, <1>14, <2>1 DEF ValuesWait
<1>16. ASSUME scan.trail = <<>> PROVE Progress(scan.deps, scan.left, new, scan.CHECKED)
  <2>1. Done(new, scan.CHECKED) = done
    BY <1>12 DEF Done, st
  <2>2. LooksDone(scan.deps, Append(low, f), done) /\ ChoicesDone(scan.deps, Append(low, f), done)
    BY <1>3, <1>5, <1>16 DEF Progress, st
  <2> HIDE DEF done
  <2>3. LooksBut(scan.deps, mid, done, s) /\ ChoicesBut(scan.deps, mid, done, s)
    BY <1>2, <1>3, <2>2, LoweredLooks DEF mid, Looks
  <2>4. LooksDone(scan.deps, new, done)
    BY <1>6, <1>10, <2>3, LooksPushed DEF new
  <2>5. ChoicesDone(scan.deps, new, done)
    BY <1>6, <1>10, <2>3, ChoicesPushed DEF new
  <2>6. new[1].sym = st[1].sym
    <3>1. 1 \in 1..(n + 1)
      BY <1>3
    <3>q. QED
      BY <1>6, <1>14, <3>1
  <2>7. Begun(scan.left, new, scan.CHECKED)
    BY <1>2, <1>5, <1>14, <1>16, <2>6 DEF Progress, Begun
  <2>q. QED
    BY <1>5, <1>16, <2>1, <2>4, <2>5, <2>7 DEF Progress, done, st
<1>17. /\ scan' \in ScanType /\ scan'.deps = scan.deps /\ scan'.CHECK = scan.CHECK
       /\ scan'.CHECKED = scan.CHECKED /\ scan'.stack = new /\ scan'.found = NoSym
       /\ scan'.trail = scan.trail /\ scan'.left = scan.left
  <2>1. scan' = [scan EXCEPT !.stack = new]
    BY <1>1, <1>4 DEF new, g
  <2> HIDE DEF Frames
  <2>q. QED
    BY <1>2, <1>5, <1>14, <2>1 DEF ScanType
<1>18. FoundFits(new, NoSym, scan.trail)
  BY DEF FoundFits
<1>19. Good(scan')
  BY <1>5, <1>11, <1>13, <1>15, <1>16, <1>17, <1>18 DEF Good
<1>q. QED
  BY <1>19 DEF ScanInv
(* Only the frame on top marks what it marks.                              *)
LEMMA MarkedOnce ==
  ASSUME NEW deps, NEW low \in Seq(Frames), NEW f \in Frames, Structured(deps, Append(low, f)),
         NEW s \in Symbol, Checks(f, s)
  PROVE  ~Checking(low, s)
<1> DEFINE n == Len(low)
<1>1. /\ Structured(deps, low) /\ Framed(deps, f) /\ (Main(f) => ~OnStack(low, f.sym))
      /\ low = <<>> => f.fn \in {"sym", "value", "choice"}
      /\ low # <<>> => Calls(deps, low[Len(low)], f)
  BY StructuredIs
<1>2. SUFFICES ASSUME Checking(low, s) PROVE FALSE
  OBVIOUS
<1>3. OnStack(low, Group(s))
  BY <1>1, <1>2, CheckingOn
<1>4. CASE f.fn = "sym"
  BY <1>1, <1>3, <1>4, GroupIs DEF Checks, Framed, Main
<1>5. CASE f.fn = "choice"
  <2>1. s \in Values(f.sym) /\ f.sym \in Choice
    BY <1>1, <1>5 DEF Checks, Framed
  <2>2. Group(s) = f.sym
    BY <2>1, ChoiceIs
  <2>q. QED
    BY <1>1, <1>3, <1>5, <2>2 DEF Main
<1>6. CASE f.fn = "self"
  <2>1. f.sym = s /\ s \in Choice /\ Group(s) = s /\ s \notin DOMAIN Of
    <3>1. f.sym = s /\ s \in Choice
      BY <1>1, <1>6 DEF Checks, Framed
    <3>q. QED
      BY <3>1, ChoiceIs
  <2>2. PICK k \in 1..n : Checks(low[k], s)
    BY <1>2 DEF Checking, Checks
  <2>3. n \in Nat /\ low # <<>> /\ n \in 1..n
    BY <1>1, <1>6
  <2>4. low[n].fn = "choice" /\ low[n].sym = s
    BY <1>1, <1>6, <2>1, <2>3 DEF Calls
  <2>5. Framed(deps, low[k])
    BY <1>1 DEF Structured
  <2>6. low[k].fn = "self" /\ low[k].sym = s
    <3>1. low[k].fn # "sym" \/ low[k].sym # s
      BY <2>1, <2>5 DEF Framed
    <3>2. s \notin Values(low[k].sym)
      BY <2>1 DEF Values
    <3>q. QED
      BY <2>2, <3>1, <3>2 DEF Checks
  <2>7. k # 1
    BY <1>1, <2>3, <2>6 DEF Structured
  <2> HIDE DEF n
  <2>8. k - 1 \in 1..n /\ k - 1 < n /\ (k - 1) + 1 = k
    BY <2>3, <2>7
  <2>9. Calls(deps, low[k - 1], low[k])
    BY <1>1, <2>8 DEF Structured, n
  <2>10. Main(low[k - 1]) /\ low[k - 1].sym = s /\ Main(low[n])
    BY <2>1, <2>4, <2>6, <2>9 DEF Calls, Main
  <2>11. k - 1 = n
    BY <1>1, <2>3, <2>4, <2>8, <2>10 DEF Structured, n
  <2>q. QED
    BY <2>8, <2>11
<1>q. QED
  BY <1>4, <1>5, <1>6 DEF Checks

Unset(f) == CASE f.fn \in {"sym", "self"} -> {f.sym}
              [] f.fn = "choice" -> Values(f.sym)
              [] OTHER -> {}
Began(f) == CASE f.fn \in {"sym", "value"} -> {f.sym}
              [] f.fn = "choice" -> {f.sym} \cup Values(f.sym)
              [] OTHER -> {}

LEMMA UnsetIs == ASSUME NEW f \in Frames PROVE \A s : s \in Unset(f) <=> Checks(f, s)
<1>1. CASE f.fn \in {"sym", "self"}
  BY <1>1 DEF Unset, Checks
<1>2. CASE f.fn = "choice"
  BY <1>2 DEF Unset, Checks
<1>3. CASE f.fn \in {"value", "member"}
  BY <1>3 DEF Unset, Checks
<1>q. QED
  BY <1>1, <1>2, <1>3 DEF Frames

(* A frame that has nothing left leaves what it has looked at done.        *)
LEMMA ReturnProgress ==
  ASSUME NEW deps \in Graphs, NEW left, NEW low \in Seq(Frames), NEW f \in Frames,
         Structured(deps, Append(low, f)), NEW CHECK, NEW CHECKED, MarksFit(Append(low, f), CHECK, CHECKED),
         ValuesWait(Append(low, f), CHECKED), f.todo = {}, Progress(deps, left, Append(low, f), CHECKED)
  PROVE  Progress(deps, left, low, CHECKED)
<1> DEFINE st    == Append(low, f)
           n     == Len(low)
           done  == Done(st, CHECKED)
           after == Done(low, CHECKED)
           g     == f.sym
<1>1. /\ Structured(deps, low) /\ Framed(deps, f) /\ (Main(f) => ~OnStack(low, f.sym))
      /\ low = <<>> => f.fn \in {"sym", "value", "choice"}
      /\ low # <<>> => Calls(deps, low[Len(low)], f)
  BY StructuredIs
<1>2. /\ n \in Nat /\ Len(st) = n + 1 /\ st[n + 1] = f /\ (\A k \in 1..n : st[k] = low[k])
      /\ st # <<>> /\ n + 1 \in 1..Len(st) /\ (low = <<>> <=> n = 0)
  BY Added
<1>3. \A a : OnStack(st, a) <=> OnStack(low, a) \/ (Main(f) /\ f.sym = a)
  BY OnStackAdded
<1>4. /\ Closed(deps, done) /\ LoopFree(deps, done) /\ LooksDone(deps, st, done)
      /\ ChoicesDone(deps, st, done) /\ Begun(left, st, CHECKED)
  BY DEF Progress
<1>5. f.fn \in {"sym", "value", "choice", "self", "member"} /\ g \in Symbol
  BY DEF Frames
<1> HIDE DEF st, n
<1>6. ASSUME f.fn \in Looks, NEW t \in deps[g]
      PROVE  Group(t) \in done \/ (f.fn = "member" /\ t = Of[g])
  <2>1. Seen(st, done, n + 1, t)
    BY <1>2, <1>4, <1>6 DEF LooksDone
  <2>q. QED
    BY <1>2, <2>1 DEF Seen
<1>7. CASE Main(f)
  <2>1. g \in Groups /\ g \notin DOMAIN Of /\ Group(g) = g
    <3>1. g \notin DOMAIN Of
      BY <1>1, <1>7, ChoiceIs DEF Framed, Main
    <3>2. g \in Symbol
      BY <1>5
    <3>3. Group(g) \in Groups /\ Group(g) = g
      BY <3>1, <3>2, GroupIs
    <3>q. QED
      BY <3>1, <3>3
  <2>2. OnStack(st, g) /\ ~OnStack(low, g) /\ g \in CHECKED /\ g \notin done
    <3>1. OnStack(st, g) /\ ~OnStack(low, g)
      BY <1>1, <1>3, <1>7
    <3>q. QED
      BY <1>5, <3>1 DEF MarksFit, Done, st
  <2>3. after = done \cup {g}
    BY <1>3, <1>7, <2>1, <2>2 DEF Done
  <2>4. ASSUME NEW b \in Groups, Needs(deps, g, b) PROVE b \in done
    <3>1. PICK s \in Symbol : \E t \in deps[s] :
            Group(s) = g /\ Group(t) = b /\ ~(s \in DOMAIN Of /\ t = Of[s])
      BY <2>4 DEF Needs
    <3>2. PICK t \in deps[s] : Group(s) = g /\ Group(t) = b /\ ~(s \in DOMAIN Of /\ t = Of[s])
      BY <3>1
    <3>3. CASE f.fn = "sym"
      <4>1. s = g
        BY <1>1, <3>2, <3>3, GroupIs DEF Framed
      <4>q. QED
        BY <1>6, <3>2, <3>3, <4>1 DEF Looks
    <3>4. CASE f.fn = "choice"
      <4>1. s \in {g} \cup Values(g)
        BY <3>2, GroupIs
      <4>2. Settled(deps, done, s)
        BY <1>2, <1>4, <3>4, <4>1 DEF ChoicesDone
      <4>q. QED
        BY <3>2, <4>2 DEF Settled
    <3>q. QED
      BY <1>7, <3>3, <3>4 DEF Main
  <2>5. Closed(deps, after) /\ LoopFree(deps, after)
    <3>1. done \in SUBSET Groups
      BY DEF Done
    <3> HIDE DEF done, after
    <3>q. QED
      BY <1>4, <2>1, <2>2, <2>3, <2>4, <3>1, DoneGrows
  <2>6. low # <<>> => low[Len(low)].fn # "choice"
    BY <1>1, <1>7 DEF Calls, Main
  <2>7. LooksDone(deps, low, after) /\ ChoicesDone(deps, low, after)
    <3> HIDE DEF done, after
    <3>q. QED
      BY <1>4, <2>1, <2>3, <2>6, Popped DEF st
  <2>8. Begun(left, low, CHECKED)
    <3>1. low # <<>> => st[1] = low[1]
      BY <1>2
    <3>2. low = <<>> => st[1] = f
      BY <1>2
    <3>q. QED
      BY <1>4, <2>2, <3>1, <3>2 DEF Begun
  <2>q. QED
    BY <2>5, <2>7, <2>8 DEF Progress
<1>8. CASE ~Main(f)
  <2>1. after = done
    BY <1>3, <1>8 DEF Done
  <2>2. f.fn = "value" => Group(g) \in done /\ g \in CHECKED
    <3>1. ASSUME f.fn = "value" PROVE Group(g) \in done /\ g \in CHECKED
      <4>1. g \in DOMAIN Of /\ Group(g) = Of[g] /\ Group(g) \in Groups
        BY <1>1, <1>5, <3>1, GroupIs DEF Framed
      <4>2. Of[g] \in CHECKED /\ ~OnStack(st, Of[g])
        BY <1>2, <3>1 DEF ValuesWait, st
      <4>q. QED
        BY <1>5, <4>1, <4>2 DEF Done, MarksFit
    <3>q. QED
      BY <3>1
  <2>3. low # <<>> /\ low[Len(low)].fn \in Looks => Group(g) \in done
    BY <1>1, <1>8, <2>2 DEF Calls, Looks, Main
  <2>4. low # <<>> /\ low[Len(low)].fn = "choice" => Settled(deps, done, g)
    <3>1. ASSUME low # <<>>, low[Len(low)].fn = "choice" PROVE Settled(deps, done, g)
      <4>1. f.fn \in {"self", "member"}
        BY <1>1, <3>1 DEF Calls
      <4>2. f.fn = "member" => g \in DOMAIN Of
        BY <1>1 DEF Framed
      <4>q. QED
        BY <1>6, <4>1, <4>2 DEF Settled, Looks
    <3>q. QED
      BY <3>1
  <2>5. LooksDone(deps, low, done) /\ ChoicesDone(deps, low, done)
    <3> HIDE DEF done, after
    <3>q. QED
      BY <1>4, <1>8, <2>3, <2>4, Popped DEF st
  <2>6. Begun(left, low, CHECKED)
    <3>1. low # <<>> => st[1] = low[1]
      BY <1>2
    <3>2. low = <<>> => st[1] = f /\ f.fn = "value"
      BY <1>1, <1>2, <1>8 DEF Main
    <3>q. QED
      BY <1>4, <2>2, <3>1, <3>2 DEF Begun
  <2>q. QED
    BY <1>4, <2>1, <2>5, <2>6 DEF Progress
<1>q. QED
  BY <1>7, <1>8

LEMMA ReturnKeeps == ASSUME ScanInv, Return PROVE ScanInv'
<1> DEFINE st == scan.stack
           low == SubSeq(st, 1, Len(st) - 1)
           f == Top
           n == Len(low)
           CHECK == scan.CHECK \ Unset(f)
           found == IF scan.found \in Began(f) THEN NoSym ELSE scan.found
<1>1. /\ scan.stack # <<>> /\ (f.todo = {} \/ scan.found # NoSym)
      /\ scan' = [scan EXCEPT !.stack = low, !.CHECK = CHECK, !.found = found]
  BY DEF Return, Unset, Began
<1>2. /\ low \in Seq(Frames) /\ f \in Frames /\ st = Append(low, f) /\ Framed(scan.deps, f)
      /\ n \in Nat /\ Len(st) = n + 1 /\ st[n + 1] = f /\ \A k \in 1..n : st[k] = low[k]
  BY <1>1, StackTop
<1>3. /\ scan \in ScanType /\ Structured(scan.deps, st) /\ MarksFit(st, scan.CHECK, scan.CHECKED)
      /\ ValuesWait(st, scan.CHECKED) /\ FoundFits(st, scan.found, scan.trail)
      /\ Loops(scan.deps, scan.trail) /\ scan.deps \in Graphs
      /\ scan.trail = <<>> => Progress(scan.deps, scan.left, st, scan.CHECKED)
  BY DEF ScanInv, Good, ScanType
<1> HIDE DEF low, f
<1>4. /\ scan' \in ScanType /\ scan'.deps = scan.deps /\ scan'.CHECK = CHECK
      /\ scan'.CHECKED = scan.CHECKED /\ scan'.stack = low /\ scan'.found = found
      /\ scan'.trail = scan.trail /\ scan'.left = scan.left
  <2>1. CHECK \in SUBSET Symbol /\ found \in Symbol \cup {NoSym}
    BY <1>3 DEF ScanType
  <2> HIDE DEF Frames, CHECK, found
  <2>q. QED
    BY <1>1, <1>2, <1>3, <2>1 DEF ScanType
<1> HIDE DEF CHECK, found, st, n
<1>5. /\ Structured(scan.deps, low) /\ (Main(f) => ~OnStack(low, f.sym))
      /\ low # <<>> => Calls(scan.deps, low[Len(low)], f)
  BY <1>2, <1>3, StructuredIs
<1>6. \A a : OnStack(st, a) <=> OnStack(low, a) \/ (Main(f) /\ f.sym = a)
  BY <1>2, OnStackAdded
<1>7. MarksFit(low, CHECK, scan.CHECKED)
  <2>1. ASSUME NEW s \in Symbol PROVE s \in CHECK <=> Checking(low, s)
    <3>1. Checking(st, s) <=> Checking(low, s) \/ Checks(f, s)
      BY <1>2, CheckingAdded
    <3>2. Checks(f, s) => ~Checking(low, s)
      BY <1>2, <1>3, MarkedOnce
    <3>3. s \in CHECK <=> s \in scan.CHECK /\ ~Checks(f, s)
      BY <1>2, UnsetIs DEF CHECK
    <3>q. QED
      BY <1>3, <3>1, <3>2, <3>3 DEF MarksFit
  <2>q. QED
    BY <1>3, <1>6, <2>1 DEF MarksFit
<1>8. ValuesWait(low, scan.CHECKED)
  <2>1. \A k \in 1..n : k \in 1..(n + 1) /\ k < n + 1
    BY <1>2
  <2>2. \A k \in 1..n : low[k].fn = "value" => Of[low[k].sym] \in scan.CHECKED
    BY <1>2, <1>3, <2>1 DEF ValuesWait
  <2>3. low # <<>> /\ low[n].fn = "value" => low[n].todo = {} /\ ~OnStack(low, Of[low[n].sym])
    BY <1>5 DEF Calls, Main, n
  <2>q. QED
    BY <2>2, <2>3 DEF ValuesWait, n
<1>9. FoundFits(low, found, scan.trail)
  <2>1. SUFFICES ASSUME found # NoSym PROVE OnStack(low, Group(found)) /\ scan.trail # <<>>
    BY DEF FoundFits
  <2>2. found = scan.found /\ found \notin Began(f)
    BY <2>1 DEF found
  <2>3. found \in Symbol
    BY <1>3, <2>1, <2>2 DEF ScanType
  <2>4. OnStack(st, Group(found)) /\ scan.trail # <<>>
    BY <1>3, <2>1, <2>2 DEF FoundFits
  <2>5. ASSUME Main(f), f.sym = Group(found) PROVE FALSE
    <3>1. CASE f.fn = "sym"
      <4>1. found = f.sym
        BY <1>2, <2>3, <2>5, <3>1, GroupIs DEF Framed
      <4>q. QED
        BY <2>2, <3>1, <4>1 DEF Began
    <3>2. CASE f.fn = "choice"
      <4>1. found = f.sym \/ found \in Values(f.sym)
        BY <2>3, <2>5, GroupIs
      <4>2. Began(f) = {f.sym} \cup Values(f.sym)
        BY <3>2 DEF Began
      <4>q. QED
        BY <2>2, <4>1, <4>2
    <3>q. QED
      BY <2>5, <3>1, <3>2 DEF Main
  <2>q. QED
    BY <1>6, <2>4, <2>5
<1>10. ASSUME scan.trail = <<>> PROVE Progress(scan.deps, scan.left, low, scan.CHECKED)
  <2>1. f.todo = {}
    BY <1>1, <1>3, <1>10 DEF FoundFits
  <2>q. QED
    BY <1>2, <1>3, <1>10, <2>1, ReturnProgress
<1>11. Good(scan')
  BY <1>3, <1>4, <1>5, <1>7, <1>8, <1>9, <1>10 DEF Good
<1>q. QED
  BY <1>11 DEF ScanInv
-----------------------------------------------------------------------------
(* The invariant of the search, and what it says of what is printed.       *)

LEMMA ScanBegins == ASSUME ScanInit PROVE ScanInv
<1>1. PICK g \in Graphs : scan = Unchecked(g)
  BY DEF ScanInit
<1>2. /\ scan.deps = g /\ scan.left = Symbol /\ scan.CHECK = {} /\ scan.CHECKED = {}
      /\ scan.stack = <<>> /\ scan.found = NoSym /\ scan.trail = <<>>
  BY <1>1 DEF Unchecked
<1>3. 1..Len(<<>>) = {} /\ <<>> \in Seq(Frames) /\ <<>> \in Seq(Symbol \cup {"unexpected"})
  <2> HIDE DEF Frames
  <2>q. QED
    OBVIOUS
<1>4. scan \in ScanType
  <2> HIDE DEF Frames
  <2>q. QED
    BY <1>1, <1>3 DEF Unchecked, ScanType
<1>5. Structured(g, <<>>) /\ MarksFit(<<>>, {}, {}) /\ ValuesWait(<<>>, {})
  BY <1>3 DEF Structured, MarksFit, ValuesWait, Checking, OnStack
<1>6. FoundFits(<<>>, NoSym, <<>>) /\ Loops(g, <<>>)
  BY DEF FoundFits, Loops
<1>7. Progress(g, Symbol, <<>>, {})
  <2>1. Done(<<>>, {}) = {}
    BY DEF Done
  <2>q. QED
    BY <1>3, <2>1 DEF Progress, Closed, LoopFree, LooksDone, ChoicesDone, Begun
<1>q. QED
  BY <1>2, <1>4, <1>5, <1>6, <1>7 DEF ScanInv, Good

LEMMA InvFinds == ASSUME ScanInv PROVE RecursionFound
<1> DEFINE trail == scan.trail
<1>1. /\ scan \in ScanType /\ MarksFit(scan.stack, scan.CHECK, scan.CHECKED)
      /\ FoundFits(scan.stack, scan.found, trail) /\ Loops(scan.deps, trail)
      /\ trail = <<>> => Progress(scan.deps, scan.left, scan.stack, scan.CHECKED)
  BY DEF ScanInv, Good
<1>2. 1..Len(<<>>) = {}
  OBVIOUS
<1>3. ASSUME trail # <<>>
      PROVE  /\ trail # <<"unexpected">>
             /\ \A k \in DOMAIN trail :
                  Leads(trail[k], IF k = Len(trail) THEN Group(trail[1]) ELSE trail[k + 1])
             /\ Recursive(scan.deps)
  BY <1>1, <1>3 DEF Loops, Leads
<1>4. ASSUME scan.stack = <<>> PROVE scan.CHECK = {} /\ scan.found = NoSym
  <2>1. \A s \in Symbol : s \notin scan.CHECK
    BY <1>1, <1>2, <1>4 DEF MarksFit, Checking
  <2>2. scan.CHECK \subseteq Symbol
    BY <1>1 DEF ScanType
  <2>q. QED
    BY <1>1, <1>2, <1>4, <2>1, <2>2 DEF FoundFits, OnStack
<1>5. ASSUME scan.stack = <<>>, scan.left = {}, trail = <<>> PROVE ~Recursive(scan.deps)
  <2> DEFINE done == Done(<<>>, scan.CHECKED)
  <2>1. Groups \subseteq done
    <3>1. \A s \in Symbol : s \in scan.CHECKED
      BY <1>1, <1>5 DEF Progress, Begun
    <3>q. QED
      BY <1>2, <3>1, GroupsAre DEF Done, OnStack
  <2>2. LoopFree(scan.deps, done)
    BY <1>1, <1>5 DEF Progress
  <2> HIDE DEF done
  <2>3. SUFFICES ASSUME NEW loop \in (SUBSET Groups) \ {{}},
                        \A a \in loop : \E b \in loop : Needs(scan.deps, a, b)
                 PROVE  FALSE
    BY DEF Recursive
  <2>4. loop \in SUBSET done /\ loop # {}
    <3>1. loop \in SUBSET Groups /\ loop # {}
      OBVIOUS
    <3>2. \A a \in loop : a \in Groups
      BY <3>1
    <3>3. \A a \in loop : a \in done
      BY <2>1, <3>2
    <3>q. QED
      BY <3>1, <3>3
  <2>5. \E a \in loop : \A b \in loop : ~Needs(scan.deps, a, b)
    BY <2>2, <2>4 DEF LoopFree
  <2>q. QED
    BY <2>3, <2>5
<1>q. QED
  BY <1>3, <1>4, <1>5 DEF RecursionFound

LEMMA ScanKeeps == ASSUME ScanInv, [ScanNext]_scan PROVE ScanInv'
<1>1. CASE Check
  BY <1>1, CheckKeeps
<1>2. CASE CheckExpr
  BY <1>2, CheckExprKeeps
<1>3. CASE CheckMember
  BY <1>3, CheckMemberKeeps
<1>4. CASE Return
  BY <1>4, ReturnKeeps
<1>5. CASE UNCHANGED scan
  BY <1>5 DEF ScanInv
<1>q. QED
  BY <1>1, <1>2, <1>3, <1>4, <1>5 DEF ScanNext

\* sym_check_deps(), asked of every symbol in any order, prints a loop of
\* dependencies exactly when there is one; what it prints is such a loop, and
\* every check leaves dep_stack and the CHECK flags as it found them.
THEOREM RecursionIsFound == ScanSpec => []RecursionFound
<1>1. ScanInit => ScanInv
  BY ScanBegins
<1>2. ScanInv /\ [ScanNext]_scan => ScanInv'
  BY ScanKeeps
<1>3. ScanInv => RecursionFound
  BY InvFinds
<1>q. QED
  BY <1>1, <1>2, <1>3, PTL DEF ScanSpec

=============================================================================
