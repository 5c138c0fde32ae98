------------------------------ MODULE BoxProofs ------------------------------
(***************************************************************************)
(* The boxes of menuconfig, for lists and windows of every size: what the  *)
(* incremental printing leaves on the screen is what the variables of the  *)
(* calls say.                                                              *)
(***************************************************************************)
EXTENDS Dialogs, TLAPS, FiniteSetTheorems, WellFoundedInduction

-----------------------------------------------------------------------------
(* The smallest and the largest of a set of numbers.                       *)

(* MIN() and MAX() of two.                                                 *)
LEMMA MinPair == ASSUME NEW a \in Int, NEW b \in Int PROVE Min({a, b}) = IF a <= b THEN a ELSE b
<1> DEFINE m == IF a <= b THEN a ELSE b
<1>1. m \in {a, b} /\ \A y \in {a, b} : m <= y
  OBVIOUS
<1>2. \A x \in {a, b} : (\A y \in {a, b} : x <= y) => x = m
  OBVIOUS
<1> HIDE DEF m
<1>q. QED
  BY <1>1, <1>2 DEF Min, m

LEMMA MaxPair == ASSUME NEW a \in Int, NEW b \in Int PROVE Max({a, b}) = IF a >= b THEN a ELSE b
<1> DEFINE m == IF a >= b THEN a ELSE b
<1>1. m \in {a, b} /\ \A y \in {a, b} : m >= y
  OBVIOUS
<1>2. \A x \in {a, b} : (\A y \in {a, b} : x >= y) => x = m
  OBVIOUS
<1> HIDE DEF m
<1>q. QED
  BY <1>1, <1>2 DEF Max, m

(* The first of some rows.                                                 *)
LEMMA MinIn ==
  ASSUME NEW S \in SUBSET Nat, S # {}
  PROVE  Min(S) \in S /\ \A x \in S : Min(S) <= x
<1>1. PICK i \in S : \A j \in S : ~(<<j, i>> \in OpToRel(<, Nat))
  BY NatLessThanWellFounded, WFMin
<1>2. \A j \in S : ~(j < i)
  BY <1>1 DEF OpToRel
<1>3. \A j \in S : i <= j
  BY <1>2
<1>q. QED
  BY <1>3 DEF Min

-----------------------------------------------------------------------------
(* dialog_menu().                                                          *)

MenuFields ==
  {"open", "n", "h", "sel", "s_scroll", "first_item", "scroll", "choice", "button", "rows",
   "arrows", "stale", "res", "items"}
IsMenuBox(b) == b = [f \in MenuFields |-> b[f]]

(* The window is within the list and the highlight within the window.      *)
Window(b) ==
  /\ IsMenuBox(b)
  /\ b.n \in Nat /\ b.h \in Nat \ {0} /\ b.scroll \in Nat /\ b.choice \in Nat
  /\ b.scroll + MaxChoice(b) <= b.n
  /\ IF b.n = 0 THEN b.choice = 0 ELSE b.choice < MaxChoice(b)

(* What the window shows, with the highlight or while it is off.           *)
Lines(b, lit) ==
  b.rows = [r \in 0..(b.h - 1) |->
              IF r < MaxChoice(b) THEN <<b.scroll + r, lit /\ r = b.choice>> ELSE Blank]

(* What a key that moves the highlight leaves alone.                       *)
SameCall(b, c) ==
  /\ c.open = b.open /\ c.n = b.n /\ c.h = b.h /\ c.sel = b.sel /\ c.stale = b.stale
  /\ c.s_scroll = b.s_scroll /\ c.res = b.res /\ c.items = b.items

LEMMA MaxChoiceIs ==
  ASSUME NEW b, b.n \in Nat, b.h \in Nat
  PROVE  MaxChoice(b) = IF b.h <= b.n THEN b.h ELSE b.n
BY MinPair DEF MaxChoice

(* While the highlight is off, a line more or less: the list is printed    *)
(* as before, from another first item or with the highlight elsewhere.     *)
Dark(b) == Window(b) /\ b.n # 0 /\ (~b.stale => Lines(b, FALSE))
Moves(b, c) == Dark(c) /\ SameCall(b, c)

(* Scrolling back by one line.                                             *)
LEMMA ScrollsDown ==
  ASSUME NEW b, Dark(b), b.scroll > 0
  PROVE  Moves(b, PrintItem(DoScroll(b, -1), b.scroll - 1, 0, FALSE))
<1> DEFINE c == PrintItem(DoScroll(b, -1), b.scroll - 1, 0, FALSE)
           up == [r \in DOMAIN b.rows |-> IF r + (-1) \in DOMAIN b.rows THEN b.rows[r + (-1)] ELSE Blank]
<1>1. /\ IsMenuBox(c) /\ SameCall(b, c) /\ c.choice = b.choice /\ c.scroll = b.scroll - 1
      /\ c.rows = [up EXCEPT ![0] = <<b.scroll - 1, FALSE>>]
  BY DEF Dark, Window, IsMenuBox, MenuFields, SameCall, PrintItem, DoScroll
<1> HIDE DEF c
<1>2. MaxChoice(c) = MaxChoice(b)
  BY <1>1 DEF SameCall, MaxChoice
<1>3. Window(c) /\ c.n # 0
  BY <1>1, <1>2, MaxChoiceIs DEF Dark, Window, SameCall
<1>4. ASSUME ~c.stale PROVE Lines(c, FALSE)
  <2>1. Lines(b, FALSE) /\ c.h = b.h
    BY <1>1, <1>4 DEF Dark, SameCall
  <2>2. /\ b.h \in Nat \ {0} /\ b.scroll \in Nat /\ MaxChoice(b) = b.h
        /\ 0 \in 0..(b.h - 1)
    BY MaxChoiceIs DEF Dark, Window
  <2>3. DOMAIN b.rows = 0..(b.h - 1)
    BY <2>1 DEF Lines
  <2>4. DOMAIN c.rows = 0..(b.h - 1)
    BY <1>1, <2>3
  <2>5. ASSUME NEW r \in 0..(b.h - 1)
        PROVE  c.rows[r] = IF r < MaxChoice(b) THEN <<b.scroll - 1 + r, FALSE>> ELSE Blank
    <3>1. CASE r = 0
      <4>1. b.scroll - 1 + r = b.scroll - 1 /\ r < MaxChoice(b)
        BY <3>1, <2>2
      <4>2. c.rows[0] = <<b.scroll - 1, FALSE>>
        BY <1>1, <2>2, <2>3
      <4>q. QED
        BY <3>1, <4>1, <4>2
    <3>2. CASE r # 0
      <4>1. r + (-1) \in 0..(b.h - 1) /\ c.rows[r] = b.rows[r - 1]
        BY <3>2, <1>1, <2>2, <2>3
      <4>2. b.rows[r - 1] = IF r - 1 < MaxChoice(b) THEN <<b.scroll + (r - 1), FALSE>> ELSE Blank
        <5>1. r - 1 \in 0..(b.h - 1)
          BY <3>2, <2>2
        <5> HIDE DEF up
        <5>q. QED
          BY <5>1, <2>1, <2>2 DEF Lines
      <4>3. b.scroll + (r - 1) = b.scroll - 1 + r /\ r < MaxChoice(b) /\ r - 1 < MaxChoice(b)
        BY <2>2
      <4>q. QED
        BY <4>1, <4>2, <4>3
    <3>q. QED
      BY <3>1, <3>2
  <2>q. QED
    BY <1>1, <1>2, <2>1, <2>4, <2>5 DEF Lines
<1>q. QED
  BY <1>1, <1>3, <1>4 DEF Moves, Dark, c

(* And on by one line.                                                     *)
LEMMA ScrollsUp ==
  ASSUME NEW b, Dark(b), b.scroll + MaxChoice(b) < b.n
  PROVE  Moves(b, ScrollUp(b))
<1> DEFINE c == ScrollUp(b)
           last == b.h - 1
           up == [r \in DOMAIN b.rows |-> IF r + 1 \in DOMAIN b.rows THEN b.rows[r + 1] ELSE Blank]
<1>1. /\ b.h \in Nat \ {0} /\ b.scroll \in Nat /\ MaxChoice(b) = b.h
      /\ last \in 0..(b.h - 1)
  BY MaxChoiceIs DEF Dark, Window
<1>2. /\ IsMenuBox(c) /\ SameCall(b, c) /\ c.choice = b.choice /\ c.scroll = b.scroll + 1
      /\ c.rows = [up EXCEPT ![last] = <<b.scroll + b.h, FALSE>>]
  BY <1>1 DEF Dark, Window, IsMenuBox, MenuFields, SameCall, ScrollUp, PrintItem, DoScroll
<1> HIDE DEF c
<1>3. MaxChoice(c) = MaxChoice(b)
  BY <1>2 DEF SameCall, MaxChoice
<1>4. Window(c) /\ c.n # 0
  BY <1>1, <1>2, <1>3 DEF Dark, Window, SameCall
<1>5. ASSUME ~c.stale PROVE Lines(c, FALSE)
  <2>1. Lines(b, FALSE) /\ c.h = b.h
    BY <1>2, <1>5 DEF Dark, SameCall
  <2>2. DOMAIN b.rows = 0..(b.h - 1)
    BY <2>1 DEF Lines
  <2>3. DOMAIN c.rows = 0..(b.h - 1)
    BY <1>2, <2>2
  <2>4. ASSUME NEW r \in 0..(b.h - 1)
        PROVE  c.rows[r] = IF r < MaxChoice(b) THEN <<b.scroll + 1 + r, FALSE>> ELSE Blank
    <3>0. r < MaxChoice(b)
      BY <1>1
    <3>1. CASE r = last
      <4>1. b.scroll + b.h = b.scroll + 1 + r
        BY <1>1, <3>1
      <4>2. last \in DOMAIN up
        BY <1>1, <2>2
      <4>3. c.rows[last] = <<b.scroll + b.h, FALSE>>
        <5> HIDE DEF up, last
        <5>q. QED
          BY <1>2, <4>2
      <4>q. QED
        BY <3>0, <3>1, <4>1, <4>3
    <3>2. CASE r # last
      <4>1. r + 1 \in 0..(b.h - 1) /\ r + 1 < b.h /\ b.scroll + (r + 1) = b.scroll + 1 + r
        BY <1>1, <3>2
      <4>2. c.rows[r] = b.rows[r + 1]
        BY <4>1, <1>2, <2>2, <3>2
      <4>3. b.rows[r + 1] = <<b.scroll + (r + 1), FALSE>>
        <5> HIDE DEF up
        <5>q. QED
          BY <4>1, <2>1, <1>1 DEF Lines
      <4>q. QED
        BY <3>0, <4>1, <4>2, <4>3
    <3>q. QED
      BY <3>1, <3>2
  <2>q. QED
    BY <1>2, <1>3, <2>1, <2>3, <2>4 DEF Lines
<1>q. QED
  BY <1>2, <1>4, <1>5 DEF Moves, Dark, c

(* The highlight goes to another row.                                      *)
LEMMA ChoiceMoves ==
  ASSUME NEW b, Dark(b), NEW row \in Nat, row < MaxChoice(b)
  PROVE  Moves(b, [b EXCEPT !.choice = row])
<1> DEFINE c == [b EXCEPT !.choice = row]
<1>1. /\ IsMenuBox(c) /\ SameCall(b, c) /\ c.choice = row /\ c.scroll = b.scroll /\ c.rows = b.rows
  BY DEF Dark, Window, IsMenuBox, MenuFields, SameCall
<1> HIDE DEF c
<1>2. MaxChoice(c) = MaxChoice(b)
  BY <1>1 DEF SameCall, MaxChoice
<1>3. Window(c) /\ c.n # 0
  BY <1>1, <1>2 DEF Dark, Window, SameCall
<1>4. ~c.stale => Lines(c, FALSE)
  BY <1>1, <1>2 DEF Dark, Lines, SameCall
<1>q. QED
  BY <1>1, <1>3, <1>4 DEF Moves, Dark, c

(* Towards the first row and towards the last, one by one.                 *)
LEMMA RowsAround ==
  ASSUME NEW b, Dark(b)
  PROVE  /\ Max({b.choice - 1, 0}) \in Nat /\ Max({b.choice - 1, 0}) < MaxChoice(b)
         /\ Min({b.choice + 1, MaxChoice(b) - 1}) \in Nat
         /\ Min({b.choice + 1, MaxChoice(b) - 1}) < MaxChoice(b)
<1>1. b.choice \in Nat /\ MaxChoice(b) \in Nat /\ b.choice < MaxChoice(b)
  BY MaxChoiceIs DEF Dark, Window
<1>2. /\ Max({b.choice - 1, 0}) = IF b.choice - 1 >= 0 THEN b.choice - 1 ELSE 0
      /\ Min({b.choice + 1, MaxChoice(b) - 1})
         = IF b.choice + 1 <= MaxChoice(b) - 1 THEN b.choice + 1 ELSE MaxChoice(b) - 1
  BY <1>1, MinPair, MaxPair
<1>q. QED
  BY <1>1, <1>2

LEMMA UpMoves == ASSUME NEW b, Dark(b) PROVE Moves(b, Up(b))
<1>1. CASE b.choice < 2 /\ b.scroll # 0
  <2>1. b.scroll > 0
    BY <1>1 DEF Dark, Window
  <2>q. QED
    BY <1>1, <2>1, ScrollsDown DEF Up
<1>2. CASE ~(b.choice < 2 /\ b.scroll # 0)
  <2>1. Up(b) = [b EXCEPT !.choice = Max({b.choice - 1, 0})]
    BY <1>2 DEF Up
  <2>q. QED
    BY <2>1, RowsAround, ChoiceMoves, ZenonT(40)
<1>q. QED
  BY <1>1, <1>2

LEMMA DownMoves == ASSUME NEW b, Dark(b) PROVE Moves(b, Down(b))
<1>1. CASE b.choice > MaxChoice(b) - 3 /\ b.scroll + MaxChoice(b) < b.n
  BY <1>1, ScrollsUp DEF Down
<1>2. CASE ~(b.choice > MaxChoice(b) - 3 /\ b.scroll + MaxChoice(b) < b.n)
  <2>1. Down(b) = [b EXCEPT !.choice = Min({b.choice + 1, MaxChoice(b) - 1})]
    BY <1>2 DEF Down
  <2>q. QED
    BY <2>1, RowsAround, ChoiceMoves, ZenonT(40)
<1>q. QED
  BY <1>1, <1>2

LEMMA PageLineMoves == ASSUME NEW b, Dark(b), NEW key PROVE Moves(b, PageLine(b, key))
<1>1. CASE key = "pgup" /\ b.scroll > 0
  BY <1>1, ScrollsDown DEF PageLine
<1>2. CASE key # "pgup" /\ b.scroll + MaxChoice(b) < b.n
  BY <1>2, ScrollsUp DEF PageLine
<1>3. CASE \/ key = "pgup" /\ ~(b.scroll > 0)
           \/ key # "pgup" /\ ~(b.scroll + MaxChoice(b) < b.n)
  <2>1. \/ PageLine(b, key) = [b EXCEPT !.choice = Max({b.choice - 1, 0})]
        \/ PageLine(b, key) = [b EXCEPT !.choice = Min({b.choice + 1, MaxChoice(b) - 1})]
    BY <1>3 DEF PageLine
  <2>q. QED
    BY <2>1, RowsAround, ChoiceMoves, ZenonT(40)
<1>q. QED
  BY <1>1, <1>2, <1>3

(* The loop over a page is defined line by line: it has a value after      *)
(* every number of lines, since the first number it had none after would   *)
(* follow one it has.                                                      *)
PageLoop(b, key, n, f) == f = [i \in 0..n |-> IF i = 0 THEN b ELSE PageLine(f[i - 1], key)]

LEMMA LoopRuns == ASSUME NEW b, NEW key, NEW n \in Nat PROVE \E f : PageLoop(b, key, n, f)
<1> DEFINE Stuck == {m \in Nat : ~ \E f : PageLoop(b, key, m, f)}
<1>1. SUFFICES ASSUME Stuck # {} PROVE FALSE
  OBVIOUS
<1>2. PICK m \in Stuck : \A x \in Stuck : m <= x
  BY <1>1, MinIn
<1>3. \E f : PageLoop(b, key, 0, f)
  <2> DEFINE f == [i \in 0..0 |-> b]
  <2>1. f = [i \in 0..0 |-> IF i = 0 THEN b ELSE PageLine(f[i - 1], key)]
    OBVIOUS
  <2> HIDE DEF f
  <2>q. QED
    BY <2>1 DEF PageLoop
<1>4. m - 1 \in Nat /\ m - 1 \notin Stuck
  BY <1>2, <1>3
<1>5. PICK f : PageLoop(b, key, m - 1, f)
  BY <1>4
<1> DEFINE g == [i \in 0..m |-> IF i = m THEN PageLine(f[m - 1], key) ELSE f[i]]
<1>6. \A i \in 0..m : g[i] = IF i = 0 THEN b ELSE PageLine(g[i - 1], key)
  BY <1>4, <1>5 DEF PageLoop
<1>7. PageLoop(b, key, m, g)
  <2>1. DOMAIN g = 0..m /\ g = [i \in DOMAIN g |-> g[i]]
    OBVIOUS
  <2> HIDE DEF g
  <2>q. QED
    BY <1>6, <2>1 DEF PageLoop
<1>q. QED
  BY <1>2, <1>7

LEMMA PageMoves == ASSUME NEW b, Dark(b), NEW key PROVE Moves(b, Page(b, key))
<1> DEFINE line[i \in 0..MaxChoice(b)] == IF i = 0 THEN b ELSE PageLine(line[i - 1], key)
<1>0. MaxChoice(b) \in Nat
  BY MaxChoiceIs DEF Dark, Window
<1>1. Page(b, key) = line[MaxChoice(b)]
  BY DEF Page
<1>2. line = CHOOSE f : PageLoop(b, key, MaxChoice(b), f)
  BY DEF line, PageLoop
<1> HIDE DEF line
<1>3. PageLoop(b, key, MaxChoice(b), line)
  BY <1>0, <1>2, LoopRuns
<1> DEFINE Wrong == {i \in 0..MaxChoice(b) : ~Moves(b, line[i])}
<1>4. ASSUME Wrong # {} PROVE FALSE
  <2>0. Wrong \in SUBSET Nat
    BY <1>0
  <2>1. PICK i \in Wrong : \A x \in Wrong : i <= x
    <3> HIDE DEF Wrong
    <3>q. QED
      BY <2>0, <1>4, MinIn
  <2>2. Moves(b, b)
    BY DEF Moves, SameCall
  <2>3. i # 0 /\ i - 1 \in 0..MaxChoice(b)
    BY <1>0, <1>3, <2>1, <2>2 DEF PageLoop
  <2>4. Moves(b, line[i - 1])
    BY <2>1, <2>3
  <2>5. Moves(line[i - 1], PageLine(line[i - 1], key))
    BY <2>4, PageLineMoves DEF Moves
  <2>6. line[i] = PageLine(line[i - 1], key)
    BY <1>3, <2>1, <2>3 DEF PageLoop
  <2>q. QED
    BY <2>1, <2>4, <2>5, <2>6 DEF Moves, SameCall
<1>q. QED
  BY <1>0, <1>1, <1>4

(* A letter leads to a row of the window.                                  *)
LEMMA HitIsRow ==
  ASSUME NEW b, Dark(b), NEW key, Hit(b, key) < MaxChoice(b) PROVE Hit(b, key) \in Nat
<1> DEFINE later == {i \in Starting(b, key) : i > b.choice}
<1>1. MaxChoice(b) \in Nat
  BY MaxChoiceIs DEF Dark, Window
<1>2. Starting(b, key) \in SUBSET Nat
  BY <1>1 DEF Starting
<1>3. later \in SUBSET Nat
  BY <1>2
<1> HIDE DEF later
<1>4. \/ Hit(b, key) = MaxChoice(b)
      \/ later # {} /\ Hit(b, key) = Min(later)
      \/ Starting(b, key) # {} /\ Hit(b, key) = Min(Starting(b, key))
  BY DEF Hit, later
<1>q. QED
  BY <1>1, <1>2, <1>3, <1>4, MinIn

(* A row is printed, and nothing else changes.                             *)
LEMMA RowPrinted ==
  ASSUME NEW b, Window(b), b.n # 0, NEW lit \in BOOLEAN, ~b.stale => Lines(b, ~lit)
  PROVE  LET c == PrintItem(b, b.scroll + b.choice, b.choice, lit)
         IN  /\ Window(c) /\ SameCall(b, c) /\ c.n # 0 /\ (~c.stale => Lines(c, lit))
<1> DEFINE c == PrintItem(b, b.scroll + b.choice, b.choice, lit)
<1>1. /\ IsMenuBox(c) /\ SameCall(b, c) /\ c.choice = b.choice /\ c.scroll = b.scroll
      /\ c.rows = [b.rows EXCEPT ![b.choice] = <<b.scroll + b.choice, lit>>]
  BY DEF Window, IsMenuBox, MenuFields, SameCall, PrintItem
<1> HIDE DEF c
<1>2. MaxChoice(c) = MaxChoice(b)
  BY <1>1 DEF SameCall, MaxChoice
<1>3. Window(c)
  BY <1>1, <1>2 DEF Window, SameCall
<1>4. ASSUME ~c.stale PROVE Lines(c, lit)
  <2>1. Lines(b, ~lit) /\ c.h = b.h
    BY <1>1, <1>4 DEF SameCall
  <2>2. /\ b.choice \in 0..(b.h - 1) /\ b.choice < MaxChoice(b) /\ b.scroll \in Nat
    BY MaxChoiceIs DEF Window
  <2>3. DOMAIN b.rows = 0..(b.h - 1)
    BY <2>1 DEF Lines
  <2>4. ASSUME NEW r \in 0..(b.h - 1)
        PROVE  c.rows[r] = IF r < MaxChoice(b) THEN <<b.scroll + r, lit /\ r = b.choice>> ELSE Blank
    <3>1. CASE r = b.choice
      <4>1. c.rows[b.choice] = <<b.scroll + b.choice, lit>>
        BY <1>1, <2>2, <2>3
      <4>q. QED
        BY <3>1, <4>1, <2>2
    <3>2. CASE r # b.choice
      <4>1. c.rows[r] = b.rows[r]
        BY <3>2, <1>1, <2>3
      <4>2. b.rows[r] = IF r < MaxChoice(b) THEN <<b.scroll + r, ~lit /\ r = b.choice>> ELSE Blank
        BY <2>1 DEF Lines
      <4>3. (lit /\ r = b.choice) = FALSE /\ (~lit /\ r = b.choice) = FALSE
        BY <3>2
      <4>q. QED
        BY <4>1, <4>2, <4>3
    <3>q. QED
      BY <3>1, <3>2
  <2>5. DOMAIN c.rows = 0..(b.h - 1) /\ c.rows = [r \in DOMAIN c.rows |-> c.rows[r]]
    BY <1>1, <2>1, <2>3 DEF Lines
  <2>q. QED
    BY <1>1, <1>2, <2>1, <2>4, <2>5 DEF Lines
<1>q. QED
  BY <1>1, <1>3, <1>4 DEF SameCall, c

(* The frame tells what is above and below.                                *)
Frame(b) == b.arrows = <<b.scroll > 0, b.h < b.n /\ b.scroll + b.h < b.n>>

LEMMA ArrowsPrinted ==
  ASSUME NEW b, Window(b)
  PROVE  LET c == PrintArrows(b)
         IN  /\ Window(c) /\ SameCall(b, c) /\ Frame(c) /\ (\A lit \in BOOLEAN : Lines(b, lit) => Lines(c, lit))
             /\ c.scroll = b.scroll /\ c.choice = b.choice
<1> DEFINE c == PrintArrows(b)
<1>1. /\ IsMenuBox(c) /\ SameCall(b, c) /\ c.choice = b.choice /\ c.scroll = b.scroll
      /\ c.rows = b.rows /\ c.arrows = <<b.scroll > 0, b.h < b.n /\ b.scroll + b.h < b.n>>
  BY DEF Window, IsMenuBox, MenuFields, SameCall, PrintArrows
<1> HIDE DEF c
<1>2. MaxChoice(c) = MaxChoice(b)
  BY <1>1 DEF SameCall, MaxChoice
<1>3. Window(c)
  BY <1>1, <1>2 DEF Window, SameCall
<1>4. \A lit \in BOOLEAN : Lines(b, lit) => Lines(c, lit)
  BY <1>1, <1>2 DEF Lines, SameCall
<1>5. Frame(c)
  BY <1>1 DEF Frame, SameCall
<1>q. QED
  BY <1>1, <1>3, <1>4, <1>5 DEF c

(* From do_resize on, whatever the list and the window have become: the    *)
(* position is the saved one where that shows the item, and else one that  *)
(* has the item in the middle or at an end.                                *)
Item(b) == IF b.sel # None THEN b.sel ELSE b.choice
Drawable(b) ==
  /\ IsMenuBox(b) /\ b.n \in Nat /\ b.h \in Nat \ {0} /\ b.s_scroll \in Nat
  /\ IF b.n = 0 THEN Item(b) = 0 ELSE Item(b) \in 0..(b.n - 1)
SavedShows(b) ==
  b.s_scroll <= Item(b) /\ b.s_scroll + MaxChoice(b) > Item(b) /\ b.s_scroll + MaxChoice(b) <= b.n

LEMMA LayoutDraws ==
  ASSUME NEW b, Drawable(b)
  PROVE  LET c == Layout(b)
         IN  /\ Window(c) /\ Frame(c) /\ (~c.stale => Lines(c, TRUE)) /\ c.stale \in BOOLEAN
             /\ c.open = b.open /\ c.n = b.n /\ c.h = b.h /\ c.sel = b.sel /\ c.s_scroll = b.s_scroll
             /\ c.res = b.res /\ c.items = b.items
             /\ SavedShows(b) => c.scroll = b.s_scroll /\ c.choice = Item(b) - b.s_scroll
<1> DEFINE max    == MaxChoice(b)
           choice == Item(b)
           saved  == /\ b.s_scroll <= choice /\ b.s_scroll + max > choice
                     /\ b.s_scroll >= 0 /\ b.s_scroll + max <= b.n
           below  == ~saved /\ choice >= max
           middle == IF choice >= b.n - max \div 2 THEN b.n - max ELSE choice - max \div 2
           scroll == IF saved THEN b.s_scroll ELSE IF below THEN middle ELSE 0
           first  == IF saved \/ below THEN scroll ELSE b.first_item
           rows   == [r \in 0..(b.h - 1) |->
                        IF r < max THEN <<first + r, r = choice - scroll>> ELSE Blank]
           d      == [b EXCEPT !.first_item = first, !.scroll = scroll, !.choice = choice - scroll,
                               !.stale = (first # scroll), !.rows = rows]
<1>1. /\ b.n \in Nat /\ b.h \in Nat \ {0} /\ b.s_scroll \in Nat /\ choice \in Nat
      /\ IF b.n = 0 THEN choice = 0 ELSE choice < b.n
  BY DEF Drawable
<1>2. max = IF b.h <= b.n THEN b.h ELSE b.n
  BY <1>1, MaxChoiceIs
<1>3. Layout(b) = PrintArrows(d)
  BY DEF Layout, Item
<1>s. saved <=> SavedShows(b)
  BY <1>1 DEF SavedShows
<1> HIDE DEF max, choice, saved
<1>4. max \div 2 \in Nat /\ 2 * (max \div 2) <= max /\ max <= 2 * (max \div 2) + 1
  <2>1. max \in Nat
    BY <1>1, <1>2
  <2>q. QED
    BY <2>1, Z3
<1>5. /\ scroll \in Nat /\ scroll <= choice /\ scroll + max <= b.n
      /\ IF b.n = 0 THEN choice - scroll = 0 ELSE choice - scroll < max
  <2>1. CASE saved
    BY <2>1, <1>1, <1>2 DEF saved
  <2>2. CASE ~saved /\ choice < max
    BY <2>2, <1>1, <1>2
  <2>3. CASE ~saved /\ choice >= max
    <3> DEFINE half == max \div 2
    <3>1. half \in Nat /\ 2 * half <= max /\ max <= 2 * half + 1
      BY <1>4
    <3> HIDE DEF half
    <3>2. scroll = IF choice >= b.n - half THEN b.n - max ELSE choice - half
      BY <2>3 DEF half
    <3> HIDE DEF scroll
    <3>q. QED
      BY <3>1, <3>2, <2>3, <1>1, <1>2
  <2>q. QED
    BY <2>1, <2>2, <2>3, <1>1, <1>2
<1>6. /\ IsMenuBox(d) /\ d.choice = choice - scroll /\ d.scroll = scroll /\ d.rows = rows
      /\ d.stale = (first # scroll) /\ d.open = b.open /\ d.n = b.n /\ d.h = b.h /\ d.sel = b.sel
      /\ d.s_scroll = b.s_scroll /\ d.res = b.res /\ d.items = b.items
  <2> HIDE DEF scroll, first, rows
  <2>q. QED
    BY DEF Drawable, IsMenuBox, MenuFields
<1>7. saved => scroll = b.s_scroll
  OBVIOUS
<1> HIDE DEF d, scroll
<1>8. MaxChoice(d) = max
  BY <1>6 DEF MaxChoice, max
<1>9. Window(d)
  BY <1>1, <1>5, <1>6, <1>8 DEF Window
<1>10. ~d.stale => Lines(d, TRUE)
  <2>1. ASSUME first = scroll PROVE rows = [r \in 0..(b.h - 1) |-> IF r < max THEN <<scroll + r, TRUE /\ r = choice - scroll>> ELSE Blank]
    BY <2>1
  <2> HIDE DEF rows, first
  <2>q. QED
    BY <1>6, <1>8, <2>1 DEF Lines
<1>11. LET c == PrintArrows(d)
       IN  /\ Window(c) /\ SameCall(d, c) /\ Frame(c) /\ (\A lit \in BOOLEAN : Lines(d, lit) => Lines(c, lit))
           /\ c.scroll = d.scroll /\ c.choice = d.choice
  BY <1>9, ArrowsPrinted
<1> DEFINE c == PrintArrows(d)
<1> HIDE DEF c, rows, first
<1>12. /\ Window(c) /\ SameCall(d, c) /\ Frame(c) /\ (Lines(d, TRUE) => Lines(c, TRUE))
       /\ c.scroll = d.scroll /\ c.choice = d.choice
  BY <1>11 DEF c
<1>13. Layout(b) = c
  BY <1>3 DEF c
<1>q. QED
  BY <1>s, <1>6, <1>7, <1>10, <1>12, <1>13 DEF SameCall, choice

(* While a box is open its window shows the lines and the frame that the   *)
(* variables say; once a command has returned, the saved position and the  *)
(* one item selected are those of the window.                              *)
Open(b) ==
  /\ Window(b) /\ Frame(b) /\ (~b.stale => Lines(b, TRUE))
  /\ b.sel = None \/ b.sel \in 0..(b.n - 1)
  /\ b.res = "none" /\ b.items = ItemMake(b.n)
WasLeft(b) ==
  /\ Window(b) /\ b.s_scroll = b.scroll
  /\ ItemActivated(b.items) = IF b.n = 0 THEN None ELSE b.scroll + b.choice
MenuInv ==
  /\ IsMenuBox(menu) /\ menu.s_scroll \in Nat
  /\ IF menu.open THEN Open(menu) ELSE menu.res = "done" => WasLeft(menu)

(* dialog_menu() returns ERROR, or the code of an exit.                    *)
LEMMA ClosedIs == IsMenuBox(Closed) /\ Closed.s_scroll = 0 /\ ~Closed.open /\ Closed.res # "done"
BY DEF Closed, IsMenuBox, MenuFields

(* A key that moves the highlight.                                         *)
LEMMA MoveKeeps ==
  ASSUME MenuInv, NEW key, Move(key) PROVE MenuInv'
<1> DEFINE dark  == PrintItem(menu, menu.scroll + menu.choice, menu.choice, FALSE)
           moved == Moved(dark, key)
           lit   == PrintItem(moved, moved.scroll + moved.choice, moved.choice, TRUE)
<1>1. /\ menu.open /\ menu.n # 0 /\ menu' = PrintArrows(lit)
      /\ key \in {"up", "down", "pgup", "pgdn"} \/ Hit(menu, key) < MaxChoice(menu)
  BY DEF Move
<1>2. Open(menu) /\ Window(menu)
  BY <1>1 DEF MenuInv, Open
<1>3. Dark(dark) /\ SameCall(menu, dark) /\ Hit(dark, key) = Hit(menu, key)
  <2>1. Window(dark) /\ SameCall(menu, dark) /\ dark.n # 0 /\ (~dark.stale => Lines(dark, FALSE))
    BY <1>1, <1>2, RowPrinted DEF Open
  <2>2. dark.scroll = menu.scroll /\ dark.choice = menu.choice /\ dark.h = menu.h /\ dark.n = menu.n
    BY <1>2 DEF Window, IsMenuBox, MenuFields, PrintItem
  <2> HIDE DEF dark
  <2>3. Hit(dark, key) = Hit(menu, key)
    BY <2>2 DEF Hit, Starting, MaxChoice
  <2>q. QED
    BY <2>1, <2>3 DEF Dark
<1>4. MaxChoice(dark) = MaxChoice(menu)
  BY <1>3 DEF SameCall, MaxChoice
<1> HIDE DEF dark
<1>5. Moves(dark, moved)
  <2>1. CASE key = "up"
    BY <2>1, <1>3, UpMoves DEF Moved
  <2>2. CASE key = "down"
    BY <2>2, <1>3, DownMoves DEF Moved
  <2>3. CASE key \in {"pgup", "pgdn"}
    BY <2>3, <1>3, PageMoves DEF Moved
  <2>4. CASE key \notin {"up", "down", "pgup", "pgdn"}
    <3>1. Hit(dark, key) \in Nat /\ Hit(dark, key) < MaxChoice(dark)
      BY <2>4, <1>1, <1>3, <1>4, HitIsRow
    <3>2. moved = [dark EXCEPT !.choice = Hit(dark, key)]
      BY <2>4 DEF Moved
    <3>q. QED
      BY <1>3, <3>1, <3>2, ChoiceMoves
  <2>q. QED
    BY <2>1, <2>2, <2>3, <2>4
<1> HIDE DEF moved
<1>6. Window(lit) /\ SameCall(moved, lit) /\ (~lit.stale => Lines(lit, TRUE))
  BY <1>5, RowPrinted DEF Moves, Dark
<1> HIDE DEF lit
<1>7. Window(menu') /\ SameCall(lit, menu') /\ Frame(menu') /\ (Lines(lit, TRUE) => Lines(menu', TRUE))
  BY <1>1, <1>6, ArrowsPrinted
<1>8. SameCall(menu, menu')
  BY <1>3, <1>5, <1>6, <1>7 DEF Moves, SameCall
<1>9. Open(menu')
  BY <1>2, <1>6, <1>7, <1>8 DEF Open, SameCall
<1>10. IsMenuBox(menu') /\ menu'.s_scroll \in Nat /\ menu'.open
  BY <1>1, <1>7, <1>8 DEF MenuInv, Window, SameCall
<1>q. QED
  BY <1>9, <1>10 DEF MenuInv

(* A command returns with the position saved and the item selected.        *)
LEMMA CommandKeeps ==
  ASSUME MenuInv, menu.open, menu' = Returned(menu) PROVE MenuInv'
<1> DEFINE item == menu.scroll + menu.choice
<1>1. Open(menu) /\ Window(menu)
  BY DEF MenuInv, Open
<1>2. /\ menu.n \in Nat /\ item \in Nat /\ MaxChoice(menu) \in Nat
      /\ IF menu.n = 0 THEN TRUE ELSE item \in 0..(menu.n - 1)
  BY <1>1, MaxChoiceIs DEF Window
<1>3. /\ IsMenuBox(menu') /\ menu'.open = FALSE /\ menu'.n = menu.n /\ menu'.h = menu.h
      /\ menu'.scroll = menu.scroll /\ menu'.choice = menu.choice /\ menu'.s_scroll = menu.scroll
      /\ menu'.items = ItemSelect(menu.items, item)
  BY <1>1 DEF Window, IsMenuBox, MenuFields, Returned
<1> HIDE DEF item
<1>4. menu'.items = [i \in 0..(menu.n - 1) |-> i = item]
  BY <1>1, <1>2, <1>3 DEF Open, ItemMake, ItemSelect
<1>5. ItemActivated(menu'.items) = IF menu.n = 0 THEN None ELSE item
  <2> DEFINE selected == {i \in DOMAIN menu'.items : menu'.items[i]}
  <2>1. selected = IF menu.n = 0 THEN {} ELSE {item}
    <3>1. \A i \in 0..(menu.n - 1) : i \in selected <=> i = item
      BY <1>4
    <3>2. \A i \in selected : i \in 0..(menu.n - 1)
      BY <1>4
    <3> HIDE DEF selected
    <3>3. CASE menu.n = 0
      BY <3>2, <3>3
    <3>4. CASE menu.n # 0
      BY <1>2, <3>1, <3>2, <3>4
    <3>q. QED
      BY <3>3, <3>4
  <2>2. ItemActivated(menu'.items) = IF selected = {} THEN None ELSE Min(selected)
    BY DEF ItemActivated
  <2>3. Min({item}) = item
    <3>1. {item} \in SUBSET Nat
      BY <1>2
    <3>q. QED
      BY <3>1, MinIn
  <2> HIDE DEF selected
  <2>q. QED
    BY <2>1, <2>2, <2>3
<1>6. MaxChoice(menu') = MaxChoice(menu)
  BY <1>3 DEF MaxChoice
<1>7. Window(menu')
  BY <1>1, <1>3, <1>6 DEF Window
<1>8. WasLeft(menu')
  BY <1>3, <1>5, <1>7 DEF WasLeft, item
<1>9. menu'.s_scroll \in Nat
  BY <1>1, <1>3 DEF Window
<1>q. QED
  BY <1>3, <1>8, <1>9 DEF MenuInv

(* do_resize, and a call of dialog_menu().                                 *)
LEMMA ResizeKeeps == ASSUME MenuInv, NEW h \in Heights, Resize(h) PROVE MenuInv'
<1> DEFINE b == [menu EXCEPT !.h = h]
<1>1. menu.open /\ Open(menu) /\ Window(menu) /\ menu' = Layout(b)
  BY DEF MenuInv, Open, Resize
<1>2. /\ IsMenuBox(b) /\ b.n = menu.n /\ b.h = h /\ b.s_scroll = menu.s_scroll /\ b.sel = menu.sel
      /\ b.choice = menu.choice /\ b.open = menu.open /\ b.res = menu.res /\ b.items = menu.items
  BY <1>1 DEF Window, IsMenuBox, MenuFields
<1> HIDE DEF b
<1>3. MaxChoice(menu) <= menu.n /\ MaxChoice(menu) \in Nat
  BY <1>1, MaxChoiceIs DEF Window
<1>4. Drawable(b)
  BY <1>1, <1>2, <1>3, MenuAssumption DEF MenuInv, Open, Window, Drawable, Item, None
<1>5. /\ Window(menu') /\ Frame(menu') /\ (~menu'.stale => Lines(menu', TRUE))
      /\ menu'.open = b.open /\ menu'.n = b.n /\ menu'.sel = b.sel /\ menu'.s_scroll = b.s_scroll
      /\ menu'.res = b.res /\ menu'.items = b.items
  BY <1>1, <1>4, LayoutDraws
<1>6. Open(menu')
  BY <1>1, <1>2, <1>5 DEF Open
<1>7. IsMenuBox(menu') /\ menu'.s_scroll \in Nat /\ menu'.open
  BY <1>1, <1>2, <1>5 DEF MenuInv, Window
<1>q. QED
  BY <1>6, <1>7 DEF MenuInv

LEMMA OpenKeeps ==
  ASSUME MenuInv, NEW n \in 0..Items, NEW h \in Heights, NEW sel \in None..(Items - 1), OpenMenu(n, h, sel)
  PROVE  /\ MenuInv'
         /\ n = 0 => menu'.scroll = 0 /\ menu'.choice = 0
         /\ menu.s_scroll <= sel /\ menu.s_scroll + MaxChoice(menu') > sel
            /\ menu.s_scroll + MaxChoice(menu') <= n
            => menu'.scroll = menu.s_scroll /\ menu'.choice = sel - menu.s_scroll
         /\ menu'.open /\ menu'.n = n /\ menu'.h = h /\ menu'.sel = sel /\ menu'.s_scroll = menu.s_scroll
<1> DEFINE b == [menu EXCEPT !.open = TRUE, !.n = n, !.h = h, !.sel = sel, !.first_item = 0,
                             !.choice = 0, !.button = 0, !.res = "none", !.items = ItemMake(n)]
<1>1. ~menu.open /\ sel < n /\ menu' = Layout(b)
  BY DEF OpenMenu
<1>2. /\ IsMenuBox(b) /\ b.n = n /\ b.h = h /\ b.s_scroll = menu.s_scroll /\ b.sel = sel
      /\ b.choice = 0 /\ b.open = TRUE /\ b.res = "none" /\ b.items = ItemMake(n)
  BY DEF MenuInv, IsMenuBox, MenuFields
<1> HIDE DEF b
<1>3. n \in Nat /\ sel \in Int /\ (sel = None \/ sel \in 0..(n - 1)) /\ (n = 0 => sel = None)
  BY <1>1, MenuAssumption DEF None
<1>4. Drawable(b) /\ Item(b) = IF sel # None THEN sel ELSE 0
  BY <1>2, <1>3, MenuAssumption DEF MenuInv, Drawable, Item, None
<1>5. /\ Window(menu') /\ Frame(menu') /\ (~menu'.stale => Lines(menu', TRUE))
      /\ menu'.open = b.open /\ menu'.n = b.n /\ menu'.h = b.h /\ menu'.sel = b.sel
      /\ menu'.s_scroll = b.s_scroll /\ menu'.res = b.res /\ menu'.items = b.items
      /\ SavedShows(b) => menu'.scroll = b.s_scroll /\ menu'.choice = Item(b) - b.s_scroll
  BY <1>1, <1>4, LayoutDraws
<1>6. Open(menu')
  BY <1>2, <1>3, <1>5 DEF Open
<1>7. IsMenuBox(menu') /\ menu'.s_scroll \in Nat /\ menu'.open
  BY <1>2, <1>5 DEF MenuInv, Window
<1>8. MenuInv'
  BY <1>6, <1>7 DEF MenuInv
<1>9. n = 0 => menu'.scroll = 0 /\ menu'.choice = 0
  <2>1. MaxChoice(menu') = IF menu'.h <= menu'.n THEN menu'.h ELSE menu'.n
    BY <1>5, MaxChoiceIs DEF Window
  <2>q. QED
    BY <2>1, <1>2, <1>5 DEF Window
<1>10. /\ menu.s_scroll <= sel /\ menu.s_scroll + MaxChoice(menu') > sel
       /\ menu.s_scroll + MaxChoice(menu') <= n
       => menu'.scroll = menu.s_scroll /\ menu'.choice = sel - menu.s_scroll
  <2>1. MaxChoice(menu') = MaxChoice(b)
    BY <1>5 DEF MaxChoice
  <2>2. menu.s_scroll \in Nat
    BY DEF MenuInv
  <2>q. QED
    BY <2>1, <2>2, <1>2, <1>3, <1>4, <1>5 DEF SavedShows, None
<1>q. QED
  BY <1>2, <1>5, <1>8, <1>9, <1>10

(* An empty list before anything is open.                                  *)
LEMMA MenuStarts == MenuInit => MenuInv
BY ClosedIs DEF MenuInit, MenuInv

LEMMA MenuStepKeeps == MenuInv /\ [MenuNext]_menu => MenuInv'
<1> SUFFICES ASSUME MenuInv, [MenuNext]_menu PROVE MenuInv'
  OBVIOUS
<1>1. ASSUME NEW d \in {-1, 1}, Button(d) PROVE MenuInv'
  <2>1. /\ menu.open /\ Open(menu) /\ Window(menu)
        /\ menu' = [menu EXCEPT !.button = (menu.button + d) % 5]
    BY <1>1 DEF MenuInv, Open, Button
  <2>2. /\ IsMenuBox(menu') /\ SameCall(menu, menu') /\ menu'.scroll = menu.scroll
        /\ menu'.choice = menu.choice /\ menu'.rows = menu.rows /\ menu'.arrows = menu.arrows
    BY <2>1 DEF Window, IsMenuBox, MenuFields, SameCall
  <2>3. MaxChoice(menu') = MaxChoice(menu)
    BY <2>2 DEF SameCall, MaxChoice
  <2>4. Window(menu') /\ Frame(menu') /\ (Lines(menu, TRUE) => Lines(menu', TRUE))
    <3>1. Window(menu')
      BY <2>1, <2>2, <2>3 DEF Window, SameCall
    <3>2. Frame(menu) => Frame(menu')
      BY <2>2 DEF Frame, SameCall
    <3>3. Lines(menu, TRUE) => Lines(menu', TRUE)
      BY <2>2, <2>3 DEF Lines, SameCall
    <3>q. QED
      BY <2>1, <3>1, <3>2, <3>3 DEF Open
  <2>5. Open(menu')
    BY <2>1, <2>2, <2>4 DEF Open, SameCall
  <2>6. IsMenuBox(menu') /\ menu'.s_scroll \in Nat /\ menu'.open
    BY <2>1, <2>2 DEF MenuInv, SameCall
  <2>q. QED
    BY <2>5, <2>6 DEF MenuInv
<1>2. CASE menu' = Closed
  BY <1>2, ClosedIs DEF MenuInv
<1>3. ASSUME NEW key, Command(key) PROVE MenuInv'
  BY <1>2, <1>3, CommandKeeps DEF Command
<1>4. ASSUME NEW key, Leave(key) PROVE MenuInv'
  BY <1>2, <1>4 DEF Leave
<1>5. CASE UNCHANGED menu
  BY <1>5 DEF MenuInv, Open, WasLeft, Window, Frame, Lines, IsMenuBox, MaxChoice, ItemActivated
<1>q. QED
  BY <1>1, <1>3, <1>4, <1>5, MoveKeeps, ResizeKeeps, OpenKeeps DEF MenuNext

(* What the incremental printing leaves on the screen is the part of the   *)
(* list that the variables say, for lists and windows of every size and    *)
(* through any keys, pages, letters and resizes: only a resize that drops  *)
(* the saved position breaks it (menubox.c:253-271).                       *)
THEOREM RowsShow == MenuSpec => []RowsShowItems
<1>1. ASSUME MenuInv, menu.open, ~menu.stale PROVE Faithful
  <2>1. Window(menu) /\ Frame(menu) /\ Lines(menu, TRUE)
    BY <1>1 DEF MenuInv, Open
  <2>2. MaxChoice(menu) = IF menu.h <= menu.n THEN menu.h ELSE menu.n
    BY <2>1, MaxChoiceIs DEF Window
  <2>3. /\ menu.n # 0 => menu.choice < MaxChoice(menu)
        /\ menu.scroll + MaxChoice(menu) <= menu.n
    BY <2>1 DEF Window
  <2>4. menu.arrows = <<menu.scroll # 0, menu.scroll + MaxChoice(menu) # menu.n>>
    <3>1. (menu.scroll > 0) = (menu.scroll # 0)
      BY <2>1 DEF Window
    <3>2. (menu.h < menu.n /\ menu.scroll + menu.h < menu.n) = (menu.scroll + MaxChoice(menu) # menu.n)
      BY <2>1, <2>2 DEF Window
    <3>q. QED
      BY <2>1, <3>1, <3>2 DEF Frame
  <2>5. \A r \in 0..(menu.h - 1) :
          menu.rows[r] = IF r < MaxChoice(menu) THEN <<menu.scroll + r, r = menu.choice>> ELSE Blank
    BY <2>1 DEF Lines
  <2>q. QED
    BY <2>3, <2>4, <2>5 DEF Faithful
<1>2. MenuInv => RowsShowItems
  BY <1>1 DEF RowsShowItems
<1>q. QED
  BY <1>2, MenuStarts, MenuStepKeeps, PTL DEF MenuSpec

(* A menu that is built again as it was comes up as it was left, with any  *)
(* list and window (menubox.c:247-266, 394).                               *)
THEOREM MenuComesBack == MenuSpec => MenuReopens
<1> DEFINE A == ~menu.open /\ menu'.open /\ menu.res = "done"
                /\ <<menu'.n, menu'.h, menu'.s_scroll, menu'.sel>>
                   = <<menu.n, menu.h, menu.s_scroll, ItemActivated(menu.items)>>
                => <<menu'.scroll, menu'.choice>> = <<menu.scroll, menu.choice>>
<1>1. MenuInv /\ [MenuNext]_menu => [A]_menu
  <2> SUFFICES ASSUME MenuInv, MenuNext, ~menu.open, menu'.open, menu.res = "done",
                      menu'.n = menu.n, menu'.h = menu.h, menu'.s_scroll = menu.s_scroll,
                      menu'.sel = ItemActivated(menu.items)
               PROVE  menu'.scroll = menu.scroll /\ menu'.choice = menu.choice
    OBVIOUS
  <2>1. PICK n \in 0..Items, h \in Heights, sel \in None..(Items - 1) : OpenMenu(n, h, sel)
    BY ClosedIs DEF MenuNext, Move, Button, Command, Leave, Resize
  <2>2. WasLeft(menu) /\ Window(menu)
    BY DEF MenuInv, WasLeft
  <2>3. /\ n = 0 => menu'.scroll = 0 /\ menu'.choice = 0
        /\ menu.s_scroll <= sel /\ menu.s_scroll + MaxChoice(menu') > sel
           /\ menu.s_scroll + MaxChoice(menu') <= n
           => menu'.scroll = menu.s_scroll /\ menu'.choice = sel - menu.s_scroll
        /\ menu'.n = n /\ menu'.sel = sel
    BY <2>1, OpenKeeps
  <2>4. MaxChoice(menu') = MaxChoice(menu) /\ MaxChoice(menu) \in Nat
        /\ MaxChoice(menu) = IF menu.h <= menu.n THEN menu.h ELSE menu.n
    BY <2>2, MaxChoiceIs DEF MaxChoice, Window
  <2>5. CASE menu.n = 0
    BY <2>2, <2>3, <2>4, <2>5 DEF Window
  <2>6. CASE menu.n # 0
    BY <2>2, <2>3, <2>4, <2>6 DEF Window, WasLeft
  <2>q. QED
    BY <2>5, <2>6
<1>q. QED
  BY <1>1, MenuStarts, MenuStepKeeps, PTL DEF MenuSpec, MenuReopens

-----------------------------------------------------------------------------
(* dialog_checklist().                                                     *)

ListSizes == Values \in Nat /\ ListHeight \in Nat \ {0}

ListFields == {"open", "n", "scroll", "choice", "button", "rows", "arrows", "res", "marked"}
IsListBox(b) == b = [f \in ListFields |-> b[f]]
ListCount(b) == IF ListHeight <= b.n THEN ListHeight ELSE b.n

(* The window is within the list and the highlight within the window; a    *)
(* window without items stays blank, wherever the highlight goes.          *)
ListWindow(b) ==
  /\ IsListBox(b)
  /\ b.n \in Nat /\ b.scroll \in Nat /\ b.choice \in Nat
  /\ b.n # 0 => b.choice < ListCount(b) /\ b.scroll + ListCount(b) <= b.n

(* The lines of the window, with the highlight or while it is off.         *)
ListLines(b, lit) ==
  b.rows = [r \in 0..(ListHeight - 1) |->
              IF r < ListCount(b) THEN <<b.scroll + r, lit /\ r = b.choice>> ELSE List!Blank]

(* The arrow below is brought up to date only when the window scrolls, but *)
(* then for the whole window: moving the highlight cannot make it wrong.   *)
ListFrame(b) ==
  /\ b.arrows[1] = (b.scroll > 0)
  /\ b.n # 0 /\ b.scroll + ListCount(b) < b.n => b.arrows[2]

OpenList(b) == ListWindow(b) /\ ListLines(b, TRUE) /\ ListFrame(b) /\ b.res = "none"

(* Keys leave the call alone.                                              *)
SameList(b, c) == c.open = b.open /\ c.n = b.n /\ c.res = b.res

LEMMA ListCountIs ==
  ASSUME ListSizes, NEW b, b.n \in Nat
  PROVE  List!Shown(b) = ListCount(b) /\ ListCount(b) \in Nat
<1>1. \A S : List!Min(S) = Min(S)
  BY DEF List!Min, Min
<1>2. Min({ListHeight, b.n}) = ListCount(b)
  BY MinPair DEF ListSizes, ListCount
<1>q. QED
  BY <1>1, <1>2 DEF List!Shown, ListSizes, ListCount

(* The highlight moves to another row of the window.                       *)
LEMMA ListHighlight ==
  ASSUME ListSizes, NEW b, OpenList(b), NEW row \in Nat, b.n # 0 => row < ListCount(b)
  PROVE  OpenList(List!Highlight(b, row)) /\ SameList(b, List!Highlight(b, row))
<1>1. CASE row = b.choice
  BY <1>1 DEF List!Highlight, SameList
<1>2. CASE row # b.choice
  <2> DEFINE c == List!PrintItem(b, b.scroll + b.choice, b.choice, FALSE)
             d == [c EXCEPT !.choice = row]
             e == List!PrintItem(d, b.scroll + row, row, TRUE)
  <2>1. ListWindow(b) /\ ListLines(b, TRUE) /\ ListFrame(b) /\ b.res = "none"
    BY DEF OpenList
  <2>2. /\ b.n \in Nat /\ b.scroll \in Nat /\ b.choice \in Nat /\ IsListBox(b)
        /\ b.scroll + b.choice \in Nat /\ b.scroll + row \in Nat
        /\ DOMAIN b.rows = 0..(ListHeight - 1)
    BY <2>1 DEF ListWindow, ListLines
  <2>3. /\ IsListBox(c) /\ SameList(b, c) /\ c.scroll = b.scroll
        /\ c.arrows = b.arrows
        /\ c.rows = [r \in 0..(ListHeight - 1) |->
                       IF r = b.choice /\ b.scroll + b.choice < b.n
                       THEN <<b.scroll + b.choice, FALSE>> ELSE b.rows[r]]
    BY <2>2 DEF IsListBox, ListFields, SameList, List!PrintItem
  <2> HIDE DEF c
  <2>4. /\ IsListBox(d) /\ SameList(b, d) /\ d.scroll = b.scroll /\ d.choice = row
        /\ d.arrows = b.arrows /\ d.rows = c.rows /\ d.n = b.n
    BY <2>3 DEF IsListBox, ListFields, SameList
  <2> HIDE DEF d
  <2>5. DOMAIN d.rows = 0..(ListHeight - 1)
    BY <2>3, <2>4
  <2>6. /\ IsListBox(e) /\ SameList(d, e) /\ e.scroll = b.scroll /\ e.choice = row
        /\ e.arrows = b.arrows
        /\ e.rows = [r \in 0..(ListHeight - 1) |->
                       IF r = row /\ b.scroll + row < b.n
                       THEN <<b.scroll + row, TRUE>> ELSE d.rows[r]]
    BY <2>2, <2>4, <2>5 DEF IsListBox, ListFields, SameList, List!PrintItem
  <2> HIDE DEF e
  <2>7. e.n = b.n /\ ListCount(e) = ListCount(b)
    BY <2>4, <2>6 DEF SameList, ListCount
  <2>8. ListWindow(e)
    BY <2>1, <2>6, <2>7 DEF ListWindow
  <2>9. ListFrame(e)
    BY <2>1, <2>6, <2>7 DEF ListFrame
  <2>10. ListLines(e, TRUE)
    <3>1. ASSUME NEW r \in 0..(ListHeight - 1)
          PROVE  e.rows[r] = IF r < ListCount(b) THEN <<b.scroll + r, r = row>> ELSE List!Blank
      <4>1. b.rows[r] = IF r < ListCount(b) THEN <<b.scroll + r, r = b.choice>> ELSE List!Blank
        BY <2>1 DEF ListLines
      <4>2. CASE b.n = 0
        BY <4>1, <4>2, <2>2, <2>3, <2>4, <2>6, <3>1, SMTT(30) DEF ListCount, ListSizes
      <4>3. CASE b.n # 0
        <5>1. /\ row < ListCount(b) /\ b.choice < ListCount(b) /\ b.scroll + ListCount(b) <= b.n
              /\ ListCount(b) \in Nat
          BY <4>3, <2>1, <2>2, ListCountIs DEF ListWindow
        <5>2. b.scroll + row < b.n /\ b.scroll + b.choice < b.n
          <6>1. PICK count \in Nat : count = ListCount(b)
            BY <5>1
          <6>2. row < count /\ b.choice < count /\ b.scroll + count <= b.n
            BY <5>1, <6>1
          <6>q. QED
            BY <2>2, <6>2, SMTT(30)
        <5>3. CASE r = row
          BY <5>1, <5>2, <5>3, <2>6
        <5>4. CASE r = b.choice
          <6>1. d.rows[r] = <<b.scroll + b.choice, FALSE>>
            BY <5>2, <5>4, <2>3, <2>4
          <6>2. e.rows[r] = d.rows[r]
            BY <5>4, <1>2, <2>6
          <6>3. (r = row) = FALSE /\ r < ListCount(b)
            BY <5>1, <5>4, <1>2
          <6>q. QED
            BY <5>4, <6>1, <6>2, <6>3
        <5>5. CASE r # row /\ r # b.choice
          <6>1. e.rows[r] = b.rows[r]
            BY <5>5, <2>3, <2>4, <2>6
          <6>2. (r = row) = FALSE /\ (r = b.choice) = FALSE
            BY <5>5
          <6>q. QED
            BY <6>1, <6>2, <4>1
        <5>q. QED
          BY <5>3, <5>4, <5>5
      <4>q. QED
        BY <4>2, <4>3
    <3>q. QED
      BY <3>1, <2>6, <2>7 DEF ListLines
  <2>q. QED
    BY <2>1, <2>4, <2>6, <2>8, <2>9, <2>10, <1>2 DEF OpenList, SameList, List!Highlight, c, d, e
<1>q. QED
  BY <1>1, <1>2

(* print_arrows() is right for the window as it is.                        *)
LEMMA ListArrows ==
  ASSUME ListSizes, NEW b, ListWindow(b), ListLines(b, TRUE), b.res = "none"
  PROVE  OpenList(List!PrintArrows(b)) /\ SameList(b, List!PrintArrows(b))
<1> DEFINE c == List!PrintArrows(b)
<1>1. /\ IsListBox(c) /\ SameList(b, c) /\ c.scroll = b.scroll /\ c.choice = b.choice /\ c.rows = b.rows
      /\ c.arrows = <<b.scroll > 0, ListHeight < b.n /\ b.scroll + b.choice < b.n - 1>>
  BY DEF ListWindow, IsListBox, ListFields, SameList, List!PrintArrows
<1> HIDE DEF c
<1>2. ListCount(c) = ListCount(b)
  BY <1>1 DEF SameList, ListCount
<1>3. ListWindow(c) /\ ListLines(c, TRUE)
  BY <1>1, <1>2 DEF ListWindow, ListLines, SameList
<1>4. ListFrame(c)
  <2>1. c.arrows[1] = (c.scroll > 0) /\ c.arrows[2] = (ListHeight < b.n /\ b.scroll + b.choice < b.n - 1)
    BY <1>1
  <2>2. b.n # 0 /\ b.scroll + ListCount(b) < b.n => ListHeight < b.n /\ b.scroll + b.choice < b.n - 1
    BY DEF ListWindow, ListCount, ListSizes
  <2>q. QED
    BY <1>1, <1>2, <2>1, <2>2 DEF ListFrame, SameList
<1>q. QED
  BY <1>1, <1>3, <1>4 DEF OpenList, SameList, c

LEMMA ListUp == ASSUME ListSizes, NEW b, OpenList(b) PROVE OpenList(List!Up(b)) /\ SameList(b, List!Up(b))
<1>0. /\ ListWindow(b) /\ ListLines(b, TRUE) /\ b.res = "none" /\ IsListBox(b)
      /\ b.n \in Nat /\ b.scroll \in Nat /\ b.choice \in Nat /\ ListHeight \in Nat \ {0}
      /\ DOMAIN b.rows = 0..(ListHeight - 1) /\ 0 \in 0..(ListHeight - 1)
  BY DEF OpenList, ListWindow, ListLines, ListSizes
<1>1. CASE b.choice # 0
  <2>1. b.choice - 1 \in Nat /\ (b.n # 0 => b.choice - 1 < ListCount(b))
    BY <1>0, <1>1, ListCountIs DEF ListWindow
  <2>q. QED
    BY <1>1, <2>1, ListHighlight DEF List!Up
<1>2. CASE b.choice = 0 /\ b.scroll = 0
  BY <1>2 DEF List!Up, SameList
<1>3. CASE b.choice = 0 /\ b.scroll # 0
  <2> DEFINE dark == List!PrintItem(b, b.scroll, 0, FALSE)
             moved == List!WScrl([dark EXCEPT !.scroll = @ - 1], -1)
             c == List!PrintItem(moved, b.scroll - 1, 0, TRUE)
  <2>1. List!Up(b) = List!PrintArrows(c)
    BY <1>3 DEF List!Up
  <2>2. /\ IsListBox(dark) /\ SameList(b, dark) /\ dark.scroll = b.scroll /\ dark.choice = b.choice
        /\ dark.rows = [r \in 0..(ListHeight - 1) |->
                          IF r = 0 /\ b.scroll < b.n THEN <<b.scroll, FALSE>> ELSE b.rows[r]]
    BY <1>0 DEF IsListBox, ListFields, SameList, List!PrintItem
  <2> HIDE DEF dark
  <2>3. /\ IsListBox(moved) /\ SameList(dark, moved) /\ moved.scroll = b.scroll - 1 /\ moved.choice = b.choice
        /\ moved.rows = [r \in 0..(ListHeight - 1) |->
                           IF r + (-1) \in 0..(ListHeight - 1) THEN dark.rows[r + (-1)] ELSE List!Blank]
    BY <2>2 DEF IsListBox, ListFields, SameList, List!WScrl
  <2> HIDE DEF moved
  <2>4. /\ IsListBox(c) /\ SameList(moved, c) /\ c.scroll = b.scroll - 1 /\ c.choice = b.choice
        /\ c.rows = [r \in 0..(ListHeight - 1) |->
                       IF r = 0 /\ b.scroll - 1 < b.n THEN <<b.scroll - 1, TRUE>> ELSE moved.rows[r]]
    BY <2>2, <2>3, ZenonT(40) DEF IsListBox, ListFields, SameList, List!PrintItem
  <2> HIDE DEF c
  <2>5. SameList(b, c) /\ c.n = b.n /\ ListCount(c) = ListCount(b)
    BY <2>2, <2>3, <2>4 DEF SameList, ListCount
  <2>6. ListWindow(c)
    BY <1>0, <1>3, <2>4, <2>5, ListCountIs DEF ListWindow
  <2>7. ASSUME NEW r \in 0..(ListHeight - 1)
        PROVE  c.rows[r] = IF r < ListCount(b) THEN <<b.scroll - 1 + r, r = 0>> ELSE List!Blank
    <3>1. CASE b.n = 0
      <4>1. \A q \in 0..(ListHeight - 1) : b.rows[q] = List!Blank
        BY <1>0, <3>1 DEF ListLines, ListCount
      <4>2. ~(b.scroll < b.n) /\ ~(b.scroll - 1 < b.n) /\ ~(r < ListCount(b))
        BY <1>0, <1>3, <3>1 DEF ListCount
      <4>q. QED
        BY <2>2, <2>3, <2>4, <4>1, <4>2
    <3>2. CASE b.n # 0
      <4>1. ListCount(b) = ListHeight /\ b.scroll < b.n /\ b.scroll - 1 < b.n
        BY <1>0, <1>3, <3>2 DEF ListWindow, ListCount
      <4>2. CASE r = 0
        <5>1. c.rows[0] = <<b.scroll - 1, TRUE>>
          BY <1>0, <2>4, <4>1
        <5>2. b.scroll - 1 + r = b.scroll - 1 /\ r < ListHeight /\ (r = 0) = TRUE
          BY <1>0, <4>2
        <5>q. QED
          BY <4>1, <4>2, <5>1, <5>2
      <4>3. CASE r # 0
        <5>1. r - 1 \in 0..(ListHeight - 1) /\ r + (-1) = r - 1 /\ b.scroll + (r - 1) = b.scroll - 1 + r
              /\ r - 1 < ListHeight /\ r < ListHeight
          BY <1>0, <4>3
        <5>2. c.rows[r] = dark.rows[r - 1]
          BY <2>3, <2>4, <4>3, <5>1
        <5>3. b.rows[r - 1] = <<b.scroll - 1 + r, r - 1 = 0>>
          BY <1>0, <1>3, <4>1, <5>1 DEF ListLines
        <5>4. dark.rows[r - 1] = <<b.scroll - 1 + r, FALSE>>
          <6>1. CASE r - 1 = 0
            <7>1. dark.rows[0] = <<b.scroll, FALSE>>
              BY <1>0, <2>2, <4>1
            <7>2. b.scroll - 1 + r = b.scroll
              BY <1>0, <6>1
            <7>q. QED
              BY <6>1, <7>1, <7>2
          <6>2. CASE r - 1 # 0
            BY <2>2, <5>1, <5>3, <6>2
          <6>q. QED
            BY <6>1, <6>2
        <5>q. QED
          BY <4>1, <4>3, <5>1, <5>2, <5>4
      <4>q. QED
        BY <4>2, <4>3
    <3>q. QED
      BY <3>1, <3>2
  <2>8. ListLines(c, TRUE)
    <3>1. \A r \in 0..(ListHeight - 1) :
            c.rows[r] = IF r < ListCount(c) THEN <<c.scroll + r, TRUE /\ r = c.choice>> ELSE List!Blank
      BY <1>3, <2>4, <2>5, <2>7
    <3>q. QED
      BY <2>4, <3>1 DEF ListLines
  <2>q. QED
    BY <1>0, <2>1, <2>5, <2>6, <2>8, ListArrows DEF SameList
<1>q. QED
  BY <1>1, <1>2, <1>3

LEMMA ListDown == ASSUME ListSizes, NEW b, OpenList(b) PROVE OpenList(List!Down(b)) /\ SameList(b, List!Down(b))
<1>0. /\ ListWindow(b) /\ ListLines(b, TRUE) /\ b.res = "none" /\ IsListBox(b)
      /\ b.n \in Nat /\ b.scroll \in Nat /\ b.choice \in Nat /\ ListHeight \in Nat \ {0}
      /\ DOMAIN b.rows = 0..(ListHeight - 1)
      /\ List!Shown(b) = ListCount(b) /\ ListCount(b) \in Nat
  BY ListCountIs DEF OpenList, ListWindow, ListLines, ListSizes
<1>1. CASE b.choice # ListCount(b) - 1
  <2>1. b.choice + 1 \in Nat /\ (b.n # 0 => b.choice + 1 < ListCount(b))
    BY <1>0, <1>1 DEF ListWindow
  <2>2. List!Down(b) = List!Highlight(b, b.choice + 1)
    BY <1>0, <1>1 DEF List!Down
  <2>q. QED
    BY <2>1, <2>2, ListHighlight
<1>2. CASE b.choice = ListCount(b) - 1 /\ b.scroll + b.choice >= b.n - 1
  BY <1>0, <1>2 DEF List!Down, SameList
<1>3. CASE b.choice = ListCount(b) - 1 /\ ~(b.scroll + b.choice >= b.n - 1)
  <2>1. /\ b.n # 0 /\ ListCount(b) = ListHeight /\ b.choice = ListHeight - 1
        /\ b.scroll + ListHeight < b.n /\ b.scroll + ListHeight - 1 < b.n
        /\ b.scroll + ListHeight \in Nat /\ ListHeight - 1 \in 0..(ListHeight - 1)
    BY <1>0, <1>3 DEF ListCount
  <2> DEFINE dark == List!PrintItem(b, b.scroll + ListHeight - 1, ListHeight - 1, FALSE)
             moved == List!WScrl([dark EXCEPT !.scroll = @ + 1], 1)
             c == List!PrintItem(moved, b.scroll + ListHeight, ListHeight - 1, TRUE)
  <2>2. List!Down(b) = List!PrintArrows(c)
    BY <1>0, <1>3, <2>1 DEF List!Down
  <2>3. /\ IsListBox(dark) /\ SameList(b, dark) /\ dark.scroll = b.scroll /\ dark.choice = b.choice
        /\ dark.rows = [r \in 0..(ListHeight - 1) |->
              IF r = ListHeight - 1 /\ b.scroll + ListHeight - 1 < b.n
              THEN <<b.scroll + ListHeight - 1, FALSE>> ELSE b.rows[r]]
    BY <1>0 DEF IsListBox, ListFields, SameList, List!PrintItem
  <2> HIDE DEF dark
  <2>4. /\ IsListBox(moved) /\ SameList(dark, moved) /\ moved.scroll = b.scroll + 1 /\ moved.choice = b.choice
        /\ moved.rows = [r \in 0..(ListHeight - 1) |->
                           IF r + 1 \in 0..(ListHeight - 1) THEN dark.rows[r + 1] ELSE List!Blank]
    BY <2>3 DEF IsListBox, ListFields, SameList, List!WScrl
  <2> HIDE DEF moved
  <2>5. /\ IsListBox(c) /\ SameList(moved, c) /\ c.scroll = b.scroll + 1 /\ c.choice = b.choice
        /\ c.rows = [r \in 0..(ListHeight - 1) |->
              IF r = ListHeight - 1 /\ b.scroll + ListHeight < b.n
              THEN <<b.scroll + ListHeight, TRUE>> ELSE moved.rows[r]]
    BY <2>3, <2>4, ZenonT(40) DEF IsListBox, ListFields, SameList, List!PrintItem
  <2> HIDE DEF c
  <2>6. SameList(b, c) /\ c.n = b.n /\ ListCount(c) = ListHeight
    BY <2>1, <2>3, <2>4, <2>5 DEF SameList, ListCount
  <2>7. ListWindow(c)
    BY <1>0, <2>1, <2>5, <2>6 DEF ListWindow
  <2>8. ASSUME NEW r \in 0..(ListHeight - 1)
        PROVE  c.rows[r] = <<b.scroll + 1 + r, r = ListHeight - 1>>
    <3>1. CASE r = ListHeight - 1
      <4>1. c.rows[ListHeight - 1] = <<b.scroll + ListHeight, TRUE>>
        BY <2>1, <2>5
      <4>2. b.scroll + 1 + r = b.scroll + ListHeight /\ (r = ListHeight - 1) = TRUE
        BY <1>0, <3>1
      <4>q. QED
        BY <3>1, <4>1, <4>2
    <3>2. CASE r # ListHeight - 1
      <4>1. /\ r + 1 \in 0..(ListHeight - 1) /\ b.scroll + 1 + r = b.scroll + (r + 1) /\ r + 1 < ListHeight
            /\ (r = ListHeight - 1) = FALSE
        BY <1>0, <3>2
      <4>2. c.rows[r] = dark.rows[r + 1]
        BY <2>4, <2>5, <3>2, <4>1
      <4>3. dark.rows[r + 1] = <<b.scroll + (r + 1), FALSE>>
        <5>1. CASE r + 1 = ListHeight - 1
          <6>1. dark.rows[ListHeight - 1] = <<b.scroll + ListHeight - 1, FALSE>>
            BY <2>1, <2>3
          <6>2. b.scroll + (r + 1) = b.scroll + ListHeight - 1
            BY <1>0, <5>1
          <6>q. QED
            BY <5>1, <6>1, <6>2
        <5>2. CASE r + 1 # ListHeight - 1
          <6>1. dark.rows[r + 1] = b.rows[r + 1] /\ (r + 1 = b.choice) = FALSE
            BY <2>1, <2>3, <4>1, <5>2
          <6>2. b.rows[r + 1] = <<b.scroll + (r + 1), TRUE /\ r + 1 = b.choice>>
            BY <1>0, <2>1, <4>1 DEF ListLines
          <6>q. QED
            BY <6>1, <6>2
        <5>q. QED
          BY <5>1, <5>2
      <4>q. QED
        BY <4>1, <4>2, <4>3
    <3>q. QED
      BY <3>1, <3>2
  <2>9. ListLines(c, TRUE)
    <3>1. \A r \in 0..(ListHeight - 1) :
            c.rows[r] = IF r < ListCount(c) THEN <<c.scroll + r, TRUE /\ r = c.choice>> ELSE List!Blank
      <4>1. ASSUME NEW r \in 0..(ListHeight - 1)
            PROVE  /\ r < ListCount(c) /\ c.scroll + r = b.scroll + 1 + r
                   /\ (TRUE /\ r = c.choice) = (r = ListHeight - 1)
        BY <1>0, <2>1, <2>5, <2>6
      <4>q. QED
        BY <2>8, <4>1
    <3>q. QED
      BY <2>5, <3>1 DEF ListLines
  <2>q. QED
    BY <1>0, <2>2, <2>6, <2>7, <2>9, ListArrows DEF SameList
<1>q. QED
  BY <1>1, <1>2, <1>3

(* A window drawn from the start, when a call begins or the terminal       *)
(* changes, for a position in the list that its window reaches.            *)
LEMMA ListDrawn ==
  ASSUME ListSizes, NEW b, IsListBox(b), b.n \in Nat, b.scroll \in Nat, b.choice \in Nat, b.res = "none",
         b.n # 0 => \/ b.scroll = 0 /\ b.choice < b.n
                    \/ b.choice < ListCount(b) /\ b.scroll + ListCount(b) <= b.n
  PROVE  OpenList(List!Layout(b)) /\ SameList(b, List!Layout(b))
<1> DEFINE scroll == IF b.choice >= ListHeight THEN b.choice - ListHeight + 1 ELSE b.scroll
           choice == IF b.choice >= ListHeight THEN ListHeight - 1 ELSE b.choice
           rows == [r \in 0..(ListHeight - 1) |->
                      IF r < List!Shown(b) THEN <<scroll + r, r = choice>> ELSE List!Blank]
           c == [b EXCEPT !.scroll = scroll, !.choice = choice, !.rows = rows]
<1>0. List!Layout(b) = List!PrintArrows(c)
  BY DEF List!Layout
<1>1. scroll \in Nat /\ choice \in Nat /\ ListHeight \in Nat \ {0}
  BY DEF ListSizes
<1>2. b.n # 0 => choice < ListCount(b) /\ scroll + ListCount(b) <= b.n
  BY DEF ListSizes, ListCount
<1>3. rows = [r \in 0..(ListHeight - 1) |->
                IF r < ListCount(b) THEN <<scroll + r, TRUE /\ r = choice>> ELSE List!Blank]
  BY ListCountIs
<1> HIDE DEF scroll, choice, rows
<1>4. /\ IsListBox(c) /\ SameList(b, c) /\ c.scroll = scroll /\ c.choice = choice /\ c.rows = rows
  BY DEF IsListBox, ListFields, SameList
<1> HIDE DEF c
<1>5. c.n = b.n /\ ListCount(c) = ListCount(b) /\ c.res = "none"
  BY <1>4 DEF SameList, ListCount
<1>6. ListWindow(c)
  BY <1>1, <1>2, <1>4, <1>5 DEF ListWindow
<1>7. ListLines(c, TRUE)
  BY <1>3, <1>4, <1>5 DEF ListLines
<1>q. QED
  BY <1>0, <1>4, <1>5, <1>6, <1>7, ListArrows DEF SameList

(* What the lit rows of an open window say: the item on the highlight.     *)
LEMMA ListLit ==
  ASSUME ListSizes, NEW b, OpenList(b)
  PROVE  {b.rows[r][1] : r \in {q \in DOMAIN b.rows : b.rows[q][2]}}
         = IF b.n = 0 THEN {} ELSE {b.scroll + b.choice}
<1>0. /\ b.n \in Nat /\ b.scroll \in Nat /\ b.choice \in Nat /\ ListHeight \in Nat \ {0}
      /\ DOMAIN b.rows = 0..(ListHeight - 1)
      /\ b.n # 0 => b.choice < ListCount(b)
  BY DEF OpenList, ListWindow, ListLines, ListSizes
<1>1. ASSUME NEW r \in 0..(ListHeight - 1)
      PROVE  /\ r < ListCount(b) => b.rows[r] = <<b.scroll + r, TRUE /\ r = b.choice>>
             /\ ~(r < ListCount(b)) => b.rows[r] = List!Blank
  BY DEF OpenList, ListLines
<1>2. ASSUME NEW r \in 0..(ListHeight - 1)
      PROVE  b.rows[r][2] = (r < ListCount(b) /\ r = b.choice)
  <2>1. CASE r < ListCount(b)
    <3>1. b.rows[r][2] = (TRUE /\ r = b.choice)
      BY <1>1, <2>1
    <3>2. (TRUE /\ r = b.choice) = (r < ListCount(b) /\ r = b.choice)
      BY <2>1
    <3>q. QED
      BY <3>1, <3>2
  <2>2. CASE ~(r < ListCount(b))
    <3>0. b.rows[r] = List!Blank /\ List!Blank = <<List!None, FALSE>>
      BY <1>1, <2>2 DEF List!Blank
    <3>1. b.rows[r][2] = FALSE
      BY <3>0
    <3>2. (r < ListCount(b) /\ r = b.choice) = FALSE
      BY <2>2
    <3>q. QED
      BY <3>1, <3>2
  <2>q. QED
    BY <2>1, <2>2
<1>3. CASE b.n = 0
  <2>0. \A q \in 0..(ListHeight - 1) : ~(q < ListCount(b) /\ q = b.choice)
    BY <1>0, <1>3 DEF ListCount
  <2>1. {q \in DOMAIN b.rows : b.rows[q][2]} = {}
    BY <1>0, <1>2, <2>0
  <2>q. QED
    BY <1>3, <2>1
<1>4. CASE b.n # 0
  <2>1. b.choice \in 0..(ListHeight - 1) /\ b.choice < ListCount(b)
    BY <1>0, <1>4 DEF ListCount
  <2>2. {q \in DOMAIN b.rows : b.rows[q][2]} = {b.choice}
    BY <1>0, <1>2, <2>1
  <2>3. b.rows[b.choice][1] = b.scroll + b.choice
    BY <1>1, <2>1
  <2>q. QED
    BY <1>4, <2>2, <2>3
<1>q. QED
  BY <1>3, <1>4

(* The inductive invariant: the window of an open call is right, and what  *)
(* a call that has returned marks is what its last window highlights.      *)
ListInv ==
  /\ IsListBox(list)
  /\ list.open => OpenList(list)
  /\ list.res \in {"select", "help"} =>
       {list.rows[r][1] : r \in {q \in DOMAIN list.rows : list.rows[q][2]}} = list.marked

(* A call that stays open keeps the invariant if its window stays right.   *)
LEMMA OpenListKeeps ==
  ASSUME list'.open, OpenList(list')
  PROVE  ListInv'
BY DEF ListInv, OpenList, ListWindow

(* Each operation of dialog_checklist() (checklist.c:125-332) keeps it.    *)
LEMMA ListStepKeeps == ListSizes /\ ListInv /\ [List!Next]_list => ListInv'
<1> SUFFICES ASSUME ListSizes, ListInv, [List!Next]_list PROVE ListInv'
  OBVIOUS
<1>0. list.open => /\ OpenList(list) /\ IsListBox(list)
                   /\ list.n \in Nat /\ list.scroll \in Nat /\ list.choice \in Nat
                   /\ List!Shown(list) = ListCount(list) /\ ListCount(list) \in Nat
  BY ListCountIs DEF ListInv, OpenList, ListWindow
<1>1. ASSUME NEW key, List!Move(key) PROVE ListInv'
  <2>1. list.open
    BY <1>1 DEF List!Move
  <2>2. CASE list' = List!Up(list)
    BY <1>0, <2>1, <2>2, ListUp, OpenListKeeps DEF SameList
  <2>3. CASE list' = List!Down(list)
    BY <1>0, <2>1, <2>3, ListDown, OpenListKeeps DEF SameList
  <2>4. CASE List!Starting(key) # {} /\ list' = List!Highlight(list, List!Min(List!Starting(key)))
    <3> DEFINE S == List!Starting(key)
               row == List!Min(S)
    <3>1. S \subseteq Nat /\ S # {} /\ \A i \in S : i < ListCount(list)
      BY <1>0, <2>1, <2>4 DEF List!Starting
    <3> HIDE DEF S
    <3>2. row = Min(S)
      BY DEF List!Min, Min
    <3>3. row \in S
      BY <3>1, <3>2, MinIn
    <3> HIDE DEF row
    <3>4. row \in Nat /\ row < ListCount(list)
      BY <3>1, <3>3
    <3>5. list' = List!Highlight(list, row)
      BY <2>4 DEF S, row
    <3>q. QED
      BY <1>0, <2>1, <3>4, <3>5, ListHighlight, OpenListKeeps DEF SameList
  <2>q. QED
    BY <1>1, <2>2, <2>3, <2>4 DEF List!Move
<1>2. ASSUME List!Button PROVE ListInv'
  <2>1. /\ list.open /\ IsListBox(list') /\ SameList(list, list') /\ list'.scroll = list.scroll
        /\ list'.choice = list.choice /\ list'.rows = list.rows /\ list'.arrows = list.arrows
    BY <1>0, <1>2 DEF List!Button, IsListBox, ListFields, SameList
  <2>2. OpenList(list')
    BY <1>0, <2>1 DEF OpenList, ListWindow, ListLines, ListFrame, ListCount, SameList
  <2>q. QED
    BY <2>1, <2>2, OpenListKeeps DEF SameList
<1>3. ASSUME NEW key, List!Return(key) PROVE ListInv'
  <2>1. /\ list.open /\ IsListBox(list') /\ ~list'.open /\ list'.rows = list.rows
        /\ list'.marked = IF list.n = 0 THEN {} ELSE {list.scroll + list.choice}
    BY <1>0, <1>3 DEF List!Return, IsListBox, ListFields
  <2>q. QED
    BY <1>0, <2>1, ListLit DEF ListInv
<1>4. ASSUME NEW key, List!Leave(key) PROVE ListInv'
  <2>1. list.open /\ IsListBox(list') /\ ~list'.open /\ list'.res = "esc"
    BY <1>0, <1>4 DEF List!Leave, IsListBox, ListFields
  <2>q. QED
    BY <2>1 DEF ListInv
<1>5. ASSUME List!Resize PROVE ListInv'
  <2>1. OpenList(list') /\ SameList(list, list')
    BY <1>0, <1>5, ListDrawn DEF List!Resize, OpenList, ListWindow
  <2>q. QED
    BY <1>5, <2>1, OpenListKeeps DEF SameList, List!Resize
<1>6. ASSUME NEW n \in 0..Values, NEW active \in List!None..(Values - 1), NEW x \in List!None..(Values - 1),
             List!Open(n, active, x)
      PROVE  ListInv'
  <2> DEFINE choice == IF active # List!None THEN active ELSE IF x # List!None THEN x ELSE 0
             b == [list EXCEPT !.open = TRUE, !.n = n, !.scroll = 0, !.button = 0, !.res = "none",
                               !.marked = {active} \ {List!None}, !.choice = choice]
  <2>1. list' = List!Layout(b)
    BY <1>6 DEF List!Open
  <2>2. n \in Nat /\ choice \in Nat /\ (n # 0 => choice < n)
    BY <1>6 DEF List!Open, List!None, ListSizes
  <2> HIDE DEF choice
  <2>3. IsListBox(b) /\ b.open /\ b.n = n /\ b.scroll = 0 /\ b.choice = choice /\ b.res = "none"
    BY DEF ListInv, IsListBox, ListFields
  <2> HIDE DEF b
  <2>q. QED
    BY <2>1, <2>2, <2>3, ListDrawn, OpenListKeeps DEF SameList
<1>7. ASSUME UNCHANGED list PROVE ListInv'
  BY <1>7, ZenonT(40) DEF ListInv, IsListBox, OpenList, ListWindow, ListLines, ListFrame, ListCount
<1>q. QED
  BY <1>1, <1>2, <1>3, <1>4, <1>5, <1>6, <1>7 DEF List!Next

(* dialog_checklist() for every list of values and every window: the value *)
(* marked on return is the one that was highlighted on the screen          *)
(* (checklist.c:228-321), and a window with values around it shows the     *)
(* part of the list its variables say.                                     *)
THEOREM ChoiceShows == ListSizes => (List!Spec => []List!ChosenIsShown)
<1> SUFFICES ASSUME ListSizes PROVE List!Spec => []List!ChosenIsShown
  OBVIOUS
<1>1. List!Init => ListInv
  BY DEF List!Init, ListInv, IsListBox, ListFields
<1>2. ListInv => List!ChosenIsShown
  <2>1. ASSUME OpenList(list), list.n # 0
        PROVE  /\ list.choice < List!Shown(list) /\ list.scroll + List!Shown(list) <= list.n
               /\ list.arrows[1] <=> list.scroll > 0
               /\ list.scroll + List!Shown(list) < list.n => list.arrows[2]
               /\ \A r \in 0..(ListHeight - 1) :
                    list.rows[r] = IF r < List!Shown(list) THEN <<list.scroll + r, r = list.choice>>
                                   ELSE List!Blank
    <3>1. List!Shown(list) = ListCount(list)
      BY <2>1, ListCountIs DEF OpenList, ListWindow
    <3>2. /\ list.choice < ListCount(list) /\ list.scroll + ListCount(list) <= list.n
          /\ list.arrows[1] = (list.scroll > 0)
          /\ list.scroll + ListCount(list) < list.n => list.arrows[2]
      BY <2>1 DEF OpenList, ListWindow, ListFrame
    <3>3. \A r \in 0..(ListHeight - 1) :
            list.rows[r] = IF r < ListCount(list) THEN <<list.scroll + r, r = list.choice>> ELSE List!Blank
      BY <2>1 DEF OpenList, ListLines
    <3>q. QED
      BY <3>1, <3>2, <3>3
  <2>q. QED
    BY <2>1 DEF ListInv, List!ChosenIsShown
<1>3. ListInv /\ [List!Next]_list => ListInv'
  BY ListStepKeeps
<1>q. QED
  BY <1>1, <1>2, <1>3, PTL DEF List!Spec

-----------------------------------------------------------------------------
(* dialog_inputbox().                                                      *)

InputSizes == Width \in Nat \ {0} /\ MaxLen \in Nat \ {0}

InputFields == {"open", "kind", "instr", "pos", "show_x", "input_x", "cells", "button", "lit",
                "cursor", "resized", "res"}
IsInputBox(b) == b = [f \in InputFields |-> b[f]]

(* The place of the next key in the text, and that place in the field.     *)
InputPlace(b) ==
  /\ IsInputBox(b)
  /\ b.instr \in Seq(Char) /\ Len(b.instr) <= MaxLen
  /\ b.show_x \in Nat /\ b.input_x \in 0..(Width - 1)
  /\ b.pos = b.show_x + b.input_x /\ b.pos <= Len(b.instr)
  /\ DOMAIN b.cells = 0..(Width - 1)

(* Drawing the text blanks one cell after its end and leaves the rest:     *)
(* they have to be blank already.                                          *)
RestIsBlank(b) == \A i \in 0..(Width - 1) : b.show_x + i > Len(b.instr) => b.cells[i] = Input!Space

CellsShow(b) ==
  \A i \in 0..(Width - 1) :
    b.cells[i] = IF b.show_x + i < Len(b.instr) THEN b.instr[b.show_x + i + 1] ELSE Input!Space

LitActive(b) == ~b.resized => b.lit = Input!Max({0, b.button})

OpenInput(b) ==
  /\ b.open /\ InputPlace(b) /\ CellsShow(b) /\ LitActive(b)
  /\ b.kind = "input" /\ b.button = Input!Field => b.cursor = b.input_x

LEMMA InputDrawn ==
  ASSUME InputSizes, NEW b, InputPlace(b), RestIsBlank(b), b.open, LitActive(b)
  PROVE  OpenInput(Input!Cursor(Input!Draw(b)))
<1> DEFINE cells == [i \in 0..(Width - 1) |->
                       IF b.show_x + i < Len(b.instr) THEN b.instr[b.show_x + i + 1] ELSE Input!Space]
           c == [b EXCEPT !.cells = cells]
           d == Input!Cursor(c)
<1>1. ASSUME NEW i \in 0..(Width - 1)
      PROVE  (CASE b.show_x + i < Len(b.instr) -> b.instr[b.show_x + i + 1]
                [] b.show_x + i = Len(b.instr) -> Input!Space
                [] OTHER -> b.cells[i])
             = IF b.show_x + i < Len(b.instr) THEN b.instr[b.show_x + i + 1] ELSE Input!Space
  <2>1. b.show_x + i \in Int /\ Len(b.instr) \in Nat
    BY DEF InputPlace, InputSizes
  <2>2. CASE b.show_x + i < Len(b.instr)
    BY <2>1, <2>2
  <2>3. CASE b.show_x + i = Len(b.instr)
    BY <2>1, <2>3
  <2>4. CASE b.show_x + i > Len(b.instr)
    BY <2>1, <2>4 DEF RestIsBlank
  <2>q. QED
    BY <2>1, <2>2, <2>3, <2>4
<1>2. Input!Draw(b) = c
  BY <1>1 DEF Input!Draw
<1> HIDE DEF cells
<1>3. /\ IsInputBox(c) /\ c.instr = b.instr /\ c.show_x = b.show_x /\ c.input_x = b.input_x
      /\ c.pos = b.pos /\ c.cells = cells /\ c.open = b.open /\ c.lit = b.lit /\ c.button = b.button
      /\ c.resized = b.resized
  BY DEF InputPlace, IsInputBox, InputFields
<1> HIDE DEF c
<1>4. /\ IsInputBox(d) /\ d.instr = b.instr /\ d.show_x = b.show_x /\ d.input_x = b.input_x
      /\ d.pos = b.pos /\ d.cells = cells /\ d.open = b.open /\ d.lit = b.lit /\ d.button = b.button
      /\ d.resized = b.resized /\ d.cursor = b.input_x
  BY <1>3 DEF IsInputBox, InputFields, Input!Cursor
<1> HIDE DEF d
<1>5. InputPlace(d)
  BY <1>4 DEF InputPlace, cells
<1>6. CellsShow(d)
  BY <1>4 DEF CellsShow, cells
<1>q. QED
  BY <1>2, <1>4, <1>5, <1>6 DEF OpenInput, LitActive, d

(* Only the cursor moves.                                                  *)
LEMMA InputCursor ==
  ASSUME NEW b, b.open, InputPlace(b), CellsShow(b), LitActive(b)
  PROVE  OpenInput(Input!Cursor(b))
<1> DEFINE d == Input!Cursor(b)
<1>1. /\ IsInputBox(d) /\ d.instr = b.instr /\ d.show_x = b.show_x /\ d.input_x = b.input_x
      /\ d.pos = b.pos /\ d.cells = b.cells /\ d.open = b.open /\ d.lit = b.lit /\ d.button = b.button
      /\ d.resized = b.resized /\ d.cursor = b.input_x
  BY DEF InputPlace, IsInputBox, InputFields, Input!Cursor
<1> HIDE DEF d
<1>q. QED
  BY <1>1 DEF OpenInput, InputPlace, CellsShow, LitActive, d

(* do_resize, at the start of a call and when the terminal changes.        *)
LEMMA InputLayout ==
  ASSUME InputSizes, NEW b, IsInputBox(b), b.instr \in Seq(Char), Len(b.instr) <= MaxLen, b.open,
         b.resized \/ Input!Max({0, b.button}) = 0
  PROVE  OpenInput(Input!Layout(b))
<1> DEFINE len == Len(b.instr)
           show == IF len >= Width THEN len - Width + 1 ELSE 0
           blank == [i \in 0..(Width - 1) |-> Input!Space]
           c == [Input!Buttons(b, 0) EXCEPT !.pos = len, !.show_x = show, !.input_x = len - show,
                                           !.cells = blank]
<1>1. Input!Layout(b) = Input!Cursor(Input!Draw(c))
  BY DEF Input!Layout
<1>2. len \in Nat /\ show \in Nat /\ len - show \in 0..(Width - 1) /\ show + (len - show) = len
  BY DEF InputSizes
<1>3. DOMAIN blank = 0..(Width - 1) /\ \A i \in 0..(Width - 1) : blank[i] = Input!Space
  OBVIOUS
<1> HIDE DEF show, blank
<1>4. /\ IsInputBox(c) /\ c.instr = b.instr /\ c.show_x = show /\ c.input_x = len - show /\ c.pos = len
      /\ c.cells = blank /\ c.open = b.open /\ c.lit = 0 /\ c.button = b.button /\ c.resized = b.resized
  BY DEF IsInputBox, InputFields, Input!Buttons
<1> HIDE DEF c
<1>5. InputPlace(c)
  BY <1>2, <1>3, <1>4 DEF InputPlace
<1>6. RestIsBlank(c) /\ LitActive(c)
  BY <1>3, <1>4 DEF RestIsBlank, LitActive
<1>q. QED
  BY <1>1, <1>4, <1>5, <1>6, InputDrawn

(* The inductive invariant.                                                *)
InputInv ==
  /\ IsInputBox(input) /\ input.button \in {-1, 0, 1}
  /\ input.open => OpenInput(input)

LEMMA OpenInputKeeps ==
  ASSUME OpenInput(input'), input'.button \in {-1, 0, 1}
  PROVE  InputInv'
BY DEF InputInv, OpenInput, InputPlace

(* Keys in the field (inputbox.c:182-277): what is left on the screen      *)
(* after a key has the text drawn over it, or the cursor moved.            *)
LEMMA EditKeeps ==
  ASSUME InputSizes, InputInv, Input!InField,
         NEW e, \/ input' = Input!Cursor(Input!Draw(e)) /\ RestIsBlank(e)
                \/ input' = Input!Cursor(e) /\ CellsShow(e),
         InputPlace(e), e.open = input.open, e.button = input.button, e.lit = input.lit,
         e.resized = input.resized
  PROVE  InputInv'
<1>1. e.open /\ LitActive(e) /\ IsInputBox(e)
  BY DEF Input!InField, InputInv, OpenInput, LitActive, InputPlace
<1>2. OpenInput(input')
  BY <1>1, InputDrawn, InputCursor
<1>3. input'.button = e.button
  BY <1>1 DEF Input!Cursor, Input!Draw, IsInputBox, InputFields
<1>q. QED
  BY <1>2, <1>3, OpenInputKeeps DEF InputInv

(* What lies beyond the text after an edit was blank before it, when the   *)
(* end of the text moves left by at most a cell on the screen.             *)
LEMMA BeyondIsBlank ==
  ASSUME InputPlace(input), CellsShow(input), NEW e, e.cells = input.cells,
         e.show_x \in Int, Len(e.instr) \in Nat,
         Len(input.instr) - input.show_x <= Len(e.instr) - e.show_x + 1
  PROVE  RestIsBlank(e)
<1>1. ASSUME NEW i \in 0..(Width - 1), e.show_x + i > Len(e.instr) PROVE e.cells[i] = Input!Space
  <2>1. ~(input.show_x + i < Len(input.instr))
    BY <1>1, SMTT(30) DEF InputPlace
  <2>q. QED
    BY <2>1 DEF CellsShow
<1>q. QED
  BY <1>1 DEF RestIsBlank

(* A character goes in at the place of the cursor.                         *)
LEMMA TypeKeeps == ASSUME InputSizes, InputInv, NEW c \in Char, Input!Type(c) PROVE InputInv'
<1> DEFINE s == input.instr
           text == SubSeq(s, 1, input.pos) \o <<c>> \o SubSeq(s, input.pos + 1, Len(s))
           show == IF input.input_x = Width - 1 THEN input.show_x + 1 ELSE input.show_x
           x == IF input.input_x = Width - 1 THEN input.input_x ELSE input.input_x + 1
           e == [input EXCEPT !.instr = text, !.pos = input.pos + 1, !.show_x = show, !.input_x = x]
<1>1. Input!InField /\ Len(s) < MaxLen /\ input' = Input!Cursor(Input!Draw(e))
  BY DEF Input!Type
<1>2. InputPlace(input) /\ CellsShow(input)
  BY <1>1 DEF Input!InField, InputInv, OpenInput
<1>3. /\ s \in Seq(Char) /\ Len(s) \in Nat /\ input.pos \in 0..Len(s) /\ input.show_x \in Nat
      /\ input.input_x \in 0..(Width - 1) /\ input.pos = input.show_x + input.input_x
      /\ Width \in Nat \ {0} /\ MaxLen \in Nat
  BY <1>2 DEF InputPlace, InputSizes
<1>4. text \in Seq(Char) /\ Len(text) = Len(s) + 1
  BY <1>3, SMTT(30)
<1>5. show \in Nat /\ x \in 0..(Width - 1) /\ input.pos + 1 = show + x /\ show >= input.show_x
      /\ show <= input.show_x + 1
  <2>1. CASE input.input_x = Width - 1
    <3>1. show = input.show_x + 1 /\ x = input.input_x
      BY <2>1
    <3> HIDE DEF show, x
    <3>q. QED
      BY <1>3, <3>1
  <2>2. CASE input.input_x # Width - 1
    <3>1. show = input.show_x /\ x = input.input_x + 1
      BY <2>2
    <3> HIDE DEF show, x
    <3>q. QED
      BY <1>3, <2>2, <3>1
  <2>q. QED
    BY <2>1, <2>2
<1> HIDE DEF text, show, x
<1>6. /\ IsInputBox(e) /\ e.instr = text /\ e.pos = input.pos + 1 /\ e.show_x = show /\ e.input_x = x
      /\ e.cells = input.cells /\ e.open = input.open /\ e.button = input.button /\ e.lit = input.lit
      /\ e.resized = input.resized
  BY DEF InputInv, IsInputBox, InputFields
<1> HIDE DEF e
<1>7. InputPlace(e)
  BY <1>1, <1>2, <1>3, <1>4, <1>5, <1>6, SMTT(30) DEF InputPlace
<1>8. RestIsBlank(e)
  <2>1. Len(input.instr) - input.show_x <= Len(e.instr) - e.show_x + 1
    BY <1>3, <1>4, <1>5, <1>6, SMTT(30)
  <2>2. e.show_x \in Int /\ Len(e.instr) \in Nat /\ e.cells = input.cells
    BY <1>4, <1>5, <1>6
  <2>q. QED
    BY <1>2, <2>1, <2>2, BeyondIsBlank
<1>q. QED
  BY <1>1, <1>6, <1>7, <1>8, EditKeeps

(* The character before the cursor goes; the end of the text comes nearer. *)
LEMMA BackspaceKeeps == ASSUME InputSizes, InputInv, Input!Backspace PROVE InputInv'
<1> DEFINE s == input.instr
           text == SubSeq(s, 1, input.pos - 1) \o SubSeq(s, input.pos + 1, Len(s))
           show == IF input.input_x = 0 THEN input.show_x - 1 ELSE input.show_x
           x == IF input.input_x = 0 THEN input.input_x ELSE input.input_x - 1
           e == [input EXCEPT !.instr = text, !.pos = input.pos - 1, !.show_x = show, !.input_x = x]
<1>1. Input!InField /\ input.pos # 0 /\ input' = Input!Cursor(Input!Draw(e))
  BY DEF Input!Backspace
<1>2. InputPlace(input) /\ CellsShow(input)
  BY <1>1 DEF Input!InField, InputInv, OpenInput
<1>3. /\ s \in Seq(Char) /\ Len(s) \in Nat /\ input.pos \in 1..Len(s) /\ input.show_x \in Nat
      /\ input.input_x \in 0..(Width - 1) /\ input.pos = input.show_x + input.input_x
      /\ Width \in Nat \ {0} /\ MaxLen \in Nat
  BY <1>1, <1>2 DEF InputPlace, InputSizes
<1>4. text \in Seq(Char) /\ Len(text) = Len(s) - 1
  <2> DEFINE before == SubSeq(s, 1, input.pos - 1)
             after == SubSeq(s, input.pos + 1, Len(s))
  <2>1. before \in Seq(Char) /\ Len(before) = input.pos - 1
    BY <1>3
  <2>2. after \in Seq(Char) /\ Len(after) = Len(s) - input.pos
    BY <1>3
  <2>3. text = before \o after
    OBVIOUS
  <2> HIDE DEF before, after, text
  <2>4. before \o after \in Seq(Char) /\ Len(before \o after) = Len(before) + Len(after)
    BY <2>1, <2>2
  <2>5. (input.pos - 1) + (Len(s) - input.pos) = Len(s) - 1
    BY <1>3
  <2>6. Len(before) + Len(after) = Len(s) - 1
    BY <2>1, <2>2, <2>5
  <2>q. QED
    BY <2>3, <2>4, <2>6
<1>5. show \in Nat /\ x \in 0..(Width - 1) /\ input.pos - 1 = show + x /\ show <= input.show_x
      /\ show >= input.show_x - 1
  BY <1>3
<1> HIDE DEF text, show, x
<1>6. /\ IsInputBox(e) /\ e.instr = text /\ e.pos = input.pos - 1 /\ e.show_x = show /\ e.input_x = x
      /\ e.cells = input.cells /\ e.open = input.open /\ e.button = input.button /\ e.lit = input.lit
      /\ e.resized = input.resized
  BY DEF InputInv, IsInputBox, InputFields
<1> HIDE DEF e
<1>7. InputPlace(e)
  BY <1>2, <1>3, <1>4, <1>5, <1>6, SMTT(30) DEF InputPlace
<1>8. RestIsBlank(e)
  <2>1. Len(input.instr) - input.show_x <= Len(e.instr) - e.show_x + 1
    BY <1>3, <1>4, <1>5, <1>6, SMTT(30)
  <2>2. e.show_x \in Int /\ Len(e.instr) \in Nat /\ e.cells = input.cells
    BY <1>3, <1>4, <1>5, <1>6
  <2>q. QED
    BY <1>2, <2>1, <2>2, BeyondIsBlank
<1>q. QED
  BY <1>1, <1>6, <1>7, <1>8, EditKeeps

(* The cursor moves in the field, or the text moves under it.              *)
LEMMA SidewaysKeeps == ASSUME InputSizes, InputInv, Input!Left \/ Input!Right PROVE InputInv'
<1> DEFINE Same(e) == /\ e.instr = input.instr /\ e.cells = input.cells /\ e.open = input.open
                      /\ e.button = input.button /\ e.lit = input.lit /\ e.resized = input.resized
<1>1. Input!InField /\ InputPlace(input) /\ CellsShow(input)
  BY DEF Input!Left, Input!Right, Input!InField, InputInv, OpenInput
<1>2. /\ Len(input.instr) \in Nat /\ input.pos \in 0..Len(input.instr) /\ input.show_x \in Nat
      /\ input.input_x \in 0..(Width - 1) /\ input.pos = input.show_x + input.input_x
      /\ Width \in Nat \ {0} /\ IsInputBox(input)
  BY <1>1 DEF InputPlace, InputSizes
<1>3. ASSUME NEW e, IsInputBox(e), Same(e), e.pos \in 0..Len(input.instr), e.input_x \in 0..(Width - 1),
             e.show_x \in Nat, e.pos = e.show_x + e.input_x, e.show_x <= input.show_x + 1,
             \/ input' = Input!Cursor(Input!Draw(e))
             \/ input' = Input!Cursor(e) /\ e.show_x = input.show_x
      PROVE  InputInv'
  <2>1. InputPlace(e)
    BY <1>1, <1>3 DEF InputPlace
  <2>2. RestIsBlank(e)
    BY <1>1, <1>2, <1>3, BeyondIsBlank, SMTT(30)
  <2>3. e.show_x = input.show_x => CellsShow(e)
    BY <1>1, <1>3 DEF CellsShow
  <2>q. QED
    BY <1>1, <1>3, <2>1, <2>2, <2>3, EditKeeps
<1>4. CASE Input!Left
  <2>1. CASE input.input_x > 0
    <3> DEFINE e == [input EXCEPT !.pos = @ - 1, !.input_x = @ - 1]
    <3>1. input' = Input!Cursor(e)
      BY <1>4, <2>1 DEF Input!Left
    <3>2. /\ IsInputBox(e) /\ e.pos = input.pos - 1 /\ e.input_x = input.input_x - 1 /\ e.show_x = input.show_x
          /\ Same(e)
      BY <1>2 DEF IsInputBox, InputFields
    <3> HIDE DEF e
    <3>3. e.pos \in 0..Len(input.instr) /\ e.input_x \in 0..(Width - 1) /\ e.show_x \in Nat
          /\ e.pos = e.show_x + e.input_x /\ e.show_x <= input.show_x + 1
      BY <1>2, <1>4, <2>1, <3>2, SMTT(30) DEF Input!Left
    <3>q. QED
      BY <1>3, <3>1, <3>2, <3>3
  <2>2. CASE ~(input.input_x > 0)
    <3> DEFINE e == [input EXCEPT !.pos = @ - 1, !.show_x = @ - 1]
    <3>1. input' = Input!Cursor(Input!Draw(e))
      BY <1>4, <2>2 DEF Input!Left
    <3>2. /\ IsInputBox(e) /\ e.pos = input.pos - 1 /\ e.input_x = input.input_x /\ e.show_x = input.show_x - 1
          /\ Same(e)
      BY <1>2 DEF IsInputBox, InputFields
    <3> HIDE DEF e
    <3>3. e.pos \in 0..Len(input.instr) /\ e.input_x \in 0..(Width - 1) /\ e.show_x \in Nat
          /\ e.pos = e.show_x + e.input_x /\ e.show_x <= input.show_x + 1
      BY <1>2, <1>4, <2>2, <3>2, SMTT(30) DEF Input!Left
    <3>q. QED
      BY <1>3, <3>1, <3>2, <3>3
  <2>q. QED
    BY <2>1, <2>2
<1>5. CASE Input!Right
  <2>1. CASE input.input_x < Width - 1
    <3> DEFINE e == [input EXCEPT !.pos = @ + 1, !.input_x = @ + 1]
    <3>1. input' = Input!Cursor(e)
      BY <1>5, <2>1 DEF Input!Right
    <3>2. /\ IsInputBox(e) /\ e.pos = input.pos + 1 /\ e.input_x = input.input_x + 1 /\ e.show_x = input.show_x
          /\ Same(e)
      BY <1>2 DEF IsInputBox, InputFields
    <3> HIDE DEF e
    <3>3. e.pos \in 0..Len(input.instr) /\ e.input_x \in 0..(Width - 1) /\ e.show_x \in Nat
          /\ e.pos = e.show_x + e.input_x /\ e.show_x <= input.show_x + 1
      BY <1>2, <1>5, <2>1, <3>2, SMTT(30) DEF Input!Right
    <3>q. QED
      BY <1>3, <3>1, <3>2, <3>3
  <2>2. CASE ~(input.input_x < Width - 1)
    <3> DEFINE e == [input EXCEPT !.pos = @ + 1, !.show_x = @ + 1]
    <3>1. input' = Input!Cursor(Input!Draw(e))
      BY <1>5, <2>2 DEF Input!Right
    <3>2. /\ IsInputBox(e) /\ e.pos = input.pos + 1 /\ e.input_x = input.input_x /\ e.show_x = input.show_x + 1
          /\ Same(e)
      BY <1>2 DEF IsInputBox, InputFields
    <3> HIDE DEF e
    <3>3. e.pos \in 0..Len(input.instr) /\ e.input_x \in 0..(Width - 1) /\ e.show_x \in Nat
          /\ e.pos = e.show_x + e.input_x /\ e.show_x <= input.show_x + 1
      BY <1>2, <1>5, <2>2, <3>2, SMTT(30) DEF Input!Right
    <3>q. QED
      BY <1>3, <3>1, <3>2, <3>3
  <2>q. QED
    BY <2>1, <2>2
<1>q. QED
  BY <1>4, <1>5

(* The keys that go from field to buttons and back (inputbox.c:171-221,    *)
(* 279-291; yesno.c:88-103).                                               *)
LEMMA SwitchKeeps == ASSUME InputInv, NEW d \in {-1, 1}, Input!Switch(d) PROVE InputInv'
<1> DEFINE turn == Input!Turn(d)
           lit == Input!Max({0, turn})
           b == [Input!Buttons(input, lit) EXCEPT !.button = turn, !.resized = FALSE]
<1>1. OpenInput(input) /\ input' = IF b.button = Input!Field THEN Input!Cursor(b) ELSE b
  BY DEF Input!Switch, InputInv
<1>2. turn \in {-1, 0, 1}
  <2>1. CASE input.kind = "input"
    <3>1. ((input.button + 1 + d) % 3) - 1 \in {-1, 0, 1}
      BY DEF InputInv
    <3>q. QED
      BY <2>1, <3>1 DEF Input!Turn
  <2>2. CASE input.kind # "input"
    <3>1. (input.button + d) % 2 \in {-1, 0, 1}
      BY DEF InputInv
    <3>q. QED
      BY <2>2, <3>1 DEF Input!Turn
  <2>q. QED
    BY <2>1, <2>2
<1> HIDE DEF turn
<1>3. lit = Input!Max({0, turn})
  OBVIOUS
<1> HIDE DEF lit
<1>4. /\ IsInputBox(b) /\ b.instr = input.instr /\ b.show_x = input.show_x /\ b.input_x = input.input_x
      /\ b.pos = input.pos /\ b.cells = input.cells /\ b.open = input.open /\ b.lit = lit
      /\ b.button = turn /\ b.kind = input.kind
  BY DEF InputInv, IsInputBox, InputFields, Input!Buttons
<1> HIDE DEF b
<1>5. b.open /\ InputPlace(b) /\ CellsShow(b) /\ LitActive(b)
  BY <1>1, <1>3, <1>4 DEF OpenInput, InputPlace, CellsShow, LitActive
<1>6. OpenInput(input')
  BY <1>1, <1>5, InputCursor DEF OpenInput
<1>7. input'.button = turn
  BY <1>1, <1>4 DEF Input!Cursor, IsInputBox, InputFields
<1>q. QED
  BY <1>2, <1>6, <1>7, OpenInputKeeps

(* Each operation of dialog_inputbox() and dialog_yesno() keeps it.        *)
LEMMA InputStepKeeps == InputSizes /\ InputInv /\ [Input!Next]_input => InputInv'
<1> SUFFICES ASSUME InputSizes, InputInv, [Input!Next]_input PROVE InputInv'
  OBVIOUS
<1>1. ASSUME NEW res, input' = Input!Close(res) PROVE InputInv'
  <2>1. IsInputBox(input') /\ input'.button = input.button /\ ~input'.open
    BY <1>1 DEF Input!Close, InputInv, IsInputBox, InputFields
  <2>q. QED
    BY <2>1 DEF InputInv
<1>2. ASSUME Input!Resize PROVE InputInv'
  <2> DEFINE b == [input EXCEPT !.resized = TRUE]
  <2>1. input.open /\ input' = Input!Layout(b)
    BY <1>2 DEF Input!Resize
  <2>2. IsInputBox(b) /\ b.open /\ b.instr = input.instr /\ b.resized /\ b.button = input.button
    BY <2>1 DEF InputInv, IsInputBox, InputFields
  <2> HIDE DEF b
  <2>3. OpenInput(input')
    BY <2>1, <2>2, InputLayout DEF InputInv, OpenInput, InputPlace
  <2>4. input'.button = b.button
    BY <2>1, <2>2 DEF Input!Layout, Input!Cursor, Input!Draw, Input!Buttons, IsInputBox, InputFields
  <2>q. QED
    BY <2>2, <2>3, <2>4, OpenInputKeeps DEF InputInv
<1>3. ASSUME NEW kind, NEW init \in Seq(Char), Len(init) <= MaxLen, Input!Open(kind, init) PROVE InputInv'
  <2> DEFINE button == IF kind = "input" THEN Input!Field ELSE 0
             b == [input EXCEPT !.open = TRUE, !.kind = kind, !.instr = init, !.resized = FALSE,
                                !.button = button]
  <2>1. input' = Input!Layout(b)
    BY <1>3 DEF Input!Open
  <2>2. button \in {-1, 0}
    BY DEF Input!Field
  <2>3. \A S : Input!Max(S) = Max(S)
    BY DEF Input!Max, Max
  <2>4. Input!Max({0, button}) = 0
    BY <2>2, <2>3, MaxPair
  <2> HIDE DEF button
  <2>5. IsInputBox(b) /\ b.open /\ b.instr = init /\ b.button = button
    BY DEF InputInv, IsInputBox, InputFields
  <2> HIDE DEF b
  <2>6. OpenInput(input')
    BY <1>3, <2>1, <2>4, <2>5, InputLayout
  <2>7. input'.button = b.button
    BY <2>1, <2>5 DEF Input!Layout, Input!Cursor, Input!Draw, Input!Buttons, IsInputBox, InputFields
  <2>q. QED
    BY <2>2, <2>5, <2>6, <2>7, OpenInputKeeps
<1>4. ASSUME NEW init \in UNION {[1..n -> Char] : n \in {0, 1, MaxLen}}
      PROVE  init \in Seq(Char) /\ Len(init) <= MaxLen
  <2>1. PICK n \in {0, 1, MaxLen} : init \in [1..n -> Char]
    OBVIOUS
  <2>2. n \in Nat /\ n <= MaxLen
    BY <1>4 DEF InputSizes
  <2>3. init \in Seq(Char) /\ Len(init) = n
    BY <2>1, <2>2
  <2>q. QED
    BY <2>2, <2>3
<1>5. CASE UNCHANGED input
  BY <1>5 DEF InputInv, OpenInput, IsInputBox, InputPlace, CellsShow, LitActive
<1>6. ASSUME NEW init \in UNION {[1..n -> Char] : n \in {0, 1, MaxLen}}, Input!Open("input", init)
      PROVE  InputInv'
  BY <1>3, <1>4, <1>6
<1>7. ASSUME Input!Open("yesno", <<>>) PROVE InputInv'
  <2>1. <<>> \in Seq(Char) /\ Len(<<>>) <= MaxLen
    BY DEF InputSizes
  <2>q. QED
    BY <1>3, <1>7, <2>1
<1>8. ASSUME Input!Return \/ Input!Leave \/ \E res \in {0, 1} : Input!Shortcut(res) PROVE InputInv'
  BY <1>1, <1>8 DEF Input!Return, Input!Leave, Input!Shortcut
<1>q. QED
  BY <1>2, <1>5, <1>6, <1>7, <1>8, TypeKeeps, BackspaceKeeps, SidewaysKeeps, SwitchKeeps DEF Input!Next

LEMMA InputStarts == Input!Init => InputInv
BY DEF Input!Init, InputInv, IsInputBox, InputFields

(* dialog_inputbox() for every text and width of the field: whatever is    *)
(* typed, deleted and scrolled past, the field shows the text from show_x  *)
(* on and the cursor is where the next key acts (inputbox.c:171-302).      *)
THEOREM FieldShows == InputSizes => (Input!Spec => []Input!FieldShowsText)
<1> SUFFICES ASSUME InputSizes PROVE Input!Spec => []Input!FieldShowsText
  OBVIOUS
<1>1. InputInv => Input!FieldShowsText
  <2> SUFFICES ASSUME OpenInput(input), input.kind = "input"
               PROVE  /\ Len(input.instr) <= MaxLen /\ input.pos \in 0..Len(input.instr)
                      /\ input.pos = input.show_x + input.input_x
                      /\ Input!InField => input.cursor = input.input_x /\ input.cursor \in 0..(Width - 1)
                      /\ CellsShow(input)
    BY DEF InputInv, Input!FieldShowsText, CellsShow
  <2>1. /\ Len(input.instr) <= MaxLen /\ input.pos \in 0..Len(input.instr)
        /\ input.pos = input.show_x + input.input_x /\ input.input_x \in 0..(Width - 1)
    BY DEF OpenInput, InputPlace, InputSizes
  <2>2. Input!InField => input.cursor = input.input_x
    BY DEF OpenInput, Input!InField
  <2>q. QED
    BY <2>1, <2>2 DEF OpenInput
<1>q. QED
  BY <1>1, InputStarts, InputStepKeeps, PTL DEF Input!Spec

(* The button drawn as active is the one Enter takes, until the terminal   *)
(* is resized (inputbox.c:131-149, 279-302).                               *)
THEOREM ButtonLit == InputSizes => (Input!Spec => []Input!ActiveIsLit)
<1> SUFFICES ASSUME InputSizes PROVE Input!Spec => []Input!ActiveIsLit
  OBVIOUS
<1>1. InputInv => Input!ActiveIsLit
  BY DEF InputInv, OpenInput, LitActive, Input!ActiveIsLit
<1>q. QED
  BY <1>1, InputStarts, InputStepKeeps, PTL DEF Input!Spec

-----------------------------------------------------------------------------
(* dialog_textbox().  The lines of a text are counted by the newlines      *)
(* before them.                                                            *)

(* Where a line starts, and where `page' may be: there, or at the end.     *)
Starts(t) == {0} \cup {i \in 1..Len(t) : t[i]}
Places(t) == Starts(t) \cup {Len(t)}
Rank(t, p) == Cardinality({j \in Starts(t) : j < p})

IsContent(t) == t \in Seq(BOOLEAN) /\ Len(t) # 0

PagerSizes ==
  /\ \A t \in Contents : IsContent(t)
  /\ BoxHeights \subseteq Nat \ {0} /\ Borders \subseteq Nat /\ JumpNb \in Nat \ {0}

(* The operators of TextBox are those of the library. *)
LEMMA PagerCount == \A S : Pager!Cardinality(S) = Cardinality(S)
BY DEF Pager!Cardinality, Cardinality

LEMMA PagerMin ==
  ASSUME NEW S \in SUBSET Nat, S # {}
  PROVE  Pager!Min(S) \in S /\ \A x \in S : Pager!Min(S) <= x
<1>1. Pager!Min(S) = Min(S)
  BY DEF Pager!Min, Min
<1>q. QED
  BY <1>1, MinIn

LEMMA PagerMax ==
  ASSUME NEW S \in SUBSET Nat, S # {}, NEW n \in Nat, \A x \in S : x <= n
  PROVE  Pager!Max(S) \in S /\ \A x \in S : Pager!Max(S) >= x
<1> DEFINE above == {m \in Nat : \A x \in S : x <= m}
<1>1. above \in SUBSET Nat /\ above # {}
  OBVIOUS
<1>2. Min(above) \in above /\ \A m \in above : Min(above) <= m
  BY <1>1, MinIn
<1>3. PICK m : m = Min(above)
  OBVIOUS
<1>4. m \in Nat /\ \A x \in S : x <= m
  BY <1>2, <1>3
<1>5. m \in S
  <2>1. SUFFICES ASSUME m \notin S PROVE FALSE
    OBVIOUS
  <2>2. \A x \in S : x <= m - 1
    BY <1>4, <2>1
  <2>3. m - 1 \in Nat
    <3>1. PICK x \in S : TRUE
      OBVIOUS
    <3>2. x \in Nat /\ x <= m - 1
      BY <2>2
    <3>q. QED
      BY <1>4, <3>2
  <2>4. m - 1 \in above
    BY <2>2, <2>3
  <2>q. QED
    BY <1>2, <1>3, <1>4, <2>4
<1>q. QED
  BY <1>4, <1>5 DEF Pager!Max

LEMMA PagerStarts ==
  ASSUME NEW b, IsContent(b.buf)
  PROVE  /\ Pager!LineStarts(b) = Starts(b.buf) /\ Pager!EndOf(b) = Len(b.buf)
         /\ Len(b.buf) \in Nat \ {0} /\ 0 \in Starts(b.buf) /\ Len(b.buf) \in Places(b.buf)
         /\ Starts(b.buf) \subseteq Places(b.buf) /\ Places(b.buf) \subseteq 0..Len(b.buf)
         /\ \A p \in Places(b.buf) : p # Len(b.buf) => p \in Starts(b.buf)
         /\ \A j \in 1..Len(b.buf) : Pager!Newline(b, j - 1) = b.buf[j]
<1>1. Len(b.buf) \in Nat \ {0}
  BY DEF IsContent
<1>2. \A i \in 1..Len(b.buf) : (i - 1) + 1 = i
  BY <1>1
<1>3. \A i \in 1..Len(b.buf) : Pager!Newline(b, i - 1) = b.buf[i]
  BY <1>2 DEF Pager!Newline
<1>4. Pager!LineStarts(b) = Starts(b.buf)
  BY <1>3 DEF Pager!LineStarts, Starts, Pager!EndOf
<1>q. QED
  BY <1>1, <1>3, <1>4 DEF Starts, Places, Pager!EndOf

(* There are finitely many lines. *)
LEMMA StartsFinite ==
  ASSUME NEW t, IsContent(t), NEW S \in SUBSET Starts(t)
  PROVE  IsFiniteSet(S) /\ Cardinality(S) \in Nat
<1>1. Len(t) \in Nat
  BY DEF IsContent
<1>2. S \in SUBSET (0..Len(t))
  BY <1>1 DEF Starts
<1>3. IsFiniteSet(0..Len(t))
  BY <1>1, FS_Interval
<1>4. IsFiniteSet(S)
  BY <1>2, <1>3, FS_Subset
<1>q. QED
  BY <1>4, FS_CardinalityType

LEMMA RankType == ASSUME NEW t, IsContent(t), NEW p PROVE Rank(t, p) \in Nat
BY StartsFinite DEF Rank

LEMMA RankZero == ASSUME NEW t, IsContent(t) PROVE Rank(t, 0) = 0
<1>1. {j \in Starts(t) : j < 0} = {}
  BY DEF Starts, IsContent
<1>q. QED
  BY <1>1, FS_EmptySet DEF Rank

(* The next line has the next number ...                                   *)
LEMMA RankNext ==
  ASSUME NEW t, IsContent(t), NEW p \in Starts(t), NEW q \in 0..Len(t), p < q,
         \A j \in Starts(t) : j < q => j <= p
  PROVE  Rank(t, q) = Rank(t, p) + 1
<1> DEFINE S == {j \in Starts(t) : j < p}
<1>1. Starts(t) \subseteq Nat /\ Len(t) \in Nat
  BY DEF Starts, IsContent
<1>2. {j \in Starts(t) : j < q} = S \cup {p}
  BY <1>1
<1>3. IsFiniteSet(S) /\ p \notin S
  BY <1>1, StartsFinite
<1>q. QED
  BY <1>2, <1>3, FS_AddElement DEF Rank

(* ... and a later one a larger.                                           *)
LEMMA RankGrows ==
  ASSUME NEW t, IsContent(t), NEW p \in Places(t), NEW q \in Places(t), p < q
  PROVE  Rank(t, p) < Rank(t, q)
<1> DEFINE S == {j \in Starts(t) : j < p}
           T == {j \in Starts(t) : j < q}
<1>1. Places(t) \subseteq 0..Len(t) /\ Len(t) \in Nat /\ Starts(t) \subseteq Nat
  BY DEF Places, Starts, IsContent
<1>2. p \in Starts(t)
  BY <1>1 DEF Places
<1>3. S \in SUBSET T /\ S # T
  <2>1. p \in T /\ p \notin S
    BY <1>1, <1>2
  <2>2. S \in SUBSET T
    BY <1>1
  <2>q. QED
    BY <2>1, <2>2
<1>4. IsFiniteSet(T) /\ Cardinality(T) \in Nat /\ Cardinality(S) \in Nat
  BY StartsFinite
<1>5. Cardinality(S) <= Cardinality(T) /\ Cardinality(S) # Cardinality(T)
  <2> HIDE DEF S, T
  <2>q. QED
    BY <1>3, <1>4, FS_Subset
<1>6. Cardinality(S) < Cardinality(T)
  BY <1>4, <1>5
<1>q. QED
  BY <1>6 DEF Rank

LEMMA RankTells ==
  ASSUME NEW t, IsContent(t), NEW p \in Places(t), NEW q \in Places(t), Rank(t, p) = Rank(t, q)
  PROVE  p = q
<1>1. Places(t) \subseteq Int
  BY DEF Places, Starts, IsContent
<1>2. ~(p < q) /\ ~(q < p)
  BY RankGrows, RankType
<1>q. QED
  BY <1>1, <1>2

LEMMA RankLast ==
  ASSUME NEW t, IsContent(t), NEW p \in Places(t)
  PROVE  Rank(t, p) <= Rank(t, Len(t)) /\ (Rank(t, p) = Rank(t, Len(t)) => p = Len(t))
<1>1. Len(t) \in Places(t) /\ Places(t) \subseteq 0..Len(t) /\ Len(t) \in Nat
  BY DEF Places, Starts, IsContent
<1>2. CASE p = Len(t)
  BY <1>2, RankType
<1>3. CASE p < Len(t)
  BY <1>1, <1>3, RankGrows, RankType
<1>q. QED
  BY <1>1, <1>2, <1>3

(* What get_line() and back_lines() leave alone.                           *)
PagerFields ==
  {"open", "buf", "boxh", "page", "begin_reached", "end_reached", "page_length", "top",
   "hscroll", "vscroll", "search", "label", "targets", "res"}
IsPager(b) ==
  /\ b = [f \in PagerFields |-> b[f]]
  /\ b.begin_reached \in BOOLEAN /\ b.end_reached \in BOOLEAN
SameText(b, c) ==
  /\ c.open = b.open /\ c.buf = b.buf /\ c.boxh = b.boxh /\ c.page_length = b.page_length
  /\ c.top = b.top /\ c.hscroll = b.hscroll /\ c.vscroll = b.vscroll
  /\ c.search = b.search /\ c.label = b.label /\ c.targets = b.targets /\ c.res = b.res

InText(b) == IsPager(b) /\ IsContent(b.buf) /\ b.page \in Places(b.buf)
AtEnd(b) == b.page = Len(b.buf)

(* One line on.                                                            *)
LEMMA LineAhead ==
  ASSUME NEW b, InText(b)
  PROVE  LET c == Pager!GetLine(b)
         IN  /\ InText(c) /\ SameText(b, c) /\ c.begin_reached = b.begin_reached
             /\ AtEnd(b) => AtEnd(c) /\ c.end_reached
             /\ ~AtEnd(b) => /\ Rank(b.buf, c.page) = Rank(b.buf, b.page) + 1
                             /\ c.end_reached => AtEnd(c) /\ ~b.buf[Len(b.buf)]
<1> DEFINE t == b.buf
           N == Len(t)
           ends == {i \in b.page..(N - 1) : Pager!Newline(b, i)}
           last == [b EXCEPT !.end_reached = TRUE, !.page = N]
           next == [b EXCEPT !.end_reached = FALSE, !.page = Pager!Min(ends) + 1]
<1>1. /\ N \in Nat \ {0} /\ N \in Places(t) /\ Starts(t) \subseteq Places(t)
      /\ Places(t) \subseteq 0..N /\ (b.page # N => b.page \in Starts(t))
      /\ b.page \in 0..N /\ Pager!EndOf(b) = N
  BY PagerStarts DEF InText
<1>2. Pager!GetLine(b) = IF ends = {} THEN last ELSE next
  BY <1>1 DEF Pager!GetLine
<1>3. /\ \A j \in 1..N : Pager!Newline(b, j - 1) = t[j]
      /\ \A i : Pager!Newline(b, i) = t[i + 1]
  BY PagerStarts DEF InText, Pager!Newline
<1>4. /\ InText(last) /\ SameText(b, last) /\ last.begin_reached = b.begin_reached
      /\ AtEnd(last) /\ last.end_reached
  BY <1>1 DEF InText, IsPager, PagerFields, SameText, AtEnd
<1>5. CASE ends = {} /\ b.page = N
  BY <1>2, <1>4, <1>5 DEF AtEnd
<1>6. CASE ends = {} /\ b.page # N
  <2>1. ~t[N]
    <3>1. N - 1 \in b.page..(N - 1) /\ (N - 1) + 1 = N
      BY <1>1, <1>6
    <3>2. ~Pager!Newline(b, N - 1)
      BY <1>6, <3>1
    <3>q. QED
      BY <1>1, <1>3, <3>2
  <2>2. ASSUME NEW j \in Starts(t), j < N PROVE j <= b.page
    <3>1. SUFFICES ASSUME j > b.page PROVE FALSE
      BY <1>1
    <3>2. j \in 1..N /\ t[j]
      BY <1>1, <3>1 DEF Starts
    <3>3. j - 1 \in b.page..(N - 1) /\ (j - 1) + 1 = j
      BY <1>1, <3>1, <3>2
    <3>4. Pager!Newline(b, j - 1)
      BY <1>1, <1>3, <3>2, <3>3
    <3>q. QED
      BY <1>6, <3>3, <3>4
  <2>3. Rank(t, N) = Rank(t, b.page) + 1
    <3>1. b.page < N /\ N \in 0..N
      BY <1>1, <1>6
    <3>q. QED
      BY <1>1, <1>6, <2>2, <3>1, RankNext DEF InText
  <2>4. last.page = N
    BY DEF InText, IsPager, PagerFields
  <2>q. QED
    BY <1>2, <1>4, <1>6, <2>1, <2>3, <2>4 DEF AtEnd
<1>7. CASE ends # {}
  <2> DEFINE m == Pager!Min(ends)
  <2>1. ends \in SUBSET Nat
    BY <1>1
  <2>2. m \in ends /\ \A i \in ends : m <= i
    <3> HIDE DEF ends
    <3>q. QED
      BY <1>7, <2>1, PagerMin
  <2> HIDE DEF m
  <2>3. m \in b.page..(N - 1) /\ t[m + 1]
    <3>1. m \in b.page..(N - 1) /\ Pager!Newline(b, m)
      BY <2>2
    <3>q. QED
      BY <1>3, <3>1
  <2>4. m + 1 \in Starts(t) /\ m + 1 \in Places(t) /\ m + 1 \in 0..N /\ b.page < m + 1 /\ b.page # N
    BY <1>1, <2>3 DEF Starts
  <2>5. ASSUME NEW j \in Starts(t), j < m + 1 PROVE j <= b.page
    <3>1. SUFFICES ASSUME j > b.page PROVE FALSE
      BY <1>1
    <3>2. j \in 1..N /\ t[j]
      BY <1>1, <3>1 DEF Starts
    <3>3. j - 1 \in b.page..(N - 1) /\ (j - 1) + 1 = j
      BY <1>1, <3>1, <3>2
    <3>4. j - 1 \in ends
      BY <1>1, <1>3, <3>2, <3>3
    <3>q. QED
      BY <2>2, <2>3, <2>5, <3>2, <3>4
  <2>6. Rank(t, m + 1) = Rank(t, b.page) + 1
    BY <1>1, <2>4, <2>5, RankNext DEF InText
  <2>7. next = [b EXCEPT !.end_reached = FALSE, !.page = m + 1]
    BY DEF m
  <2>8. /\ InText(next) /\ SameText(b, next) /\ next.begin_reached = b.begin_reached
        /\ next.page = m + 1 /\ ~next.end_reached
    <3> HIDE DEF next
    <3>q. QED
      BY <2>4, <2>7 DEF InText, IsPager, PagerFields, SameText
  <2>q. QED
    BY <1>2, <1>7, <2>4, <2>6, <2>8 DEF AtEnd
<1>q. QED
  BY <1>5, <1>6, <1>7

(* One line back: the number of the line drops, down to the first.  The    *)
(* end counts for one more when it was printed.                            *)
Spot(b) == Rank(b.buf, b.page) + (IF AtEnd(b) /\ b.end_reached THEN 1 ELSE 0)
Ends(b) == (b.end_reached => AtEnd(b)) /\ (b.begin_reached => b.page = 0)

LEMMA SpotType == ASSUME NEW b, InText(b) PROVE Spot(b) \in Nat
BY RankType DEF Spot, InText

LEMMA LineBehind ==
  ASSUME NEW b, InText(b), Ends(b)
  PROVE  LET c == Pager!BackLine(b)
         IN  /\ InText(c) /\ SameText(b, c) /\ Ends(c)
             /\ Spot(c) = IF Spot(b) = 0 THEN 0 ELSE Spot(b) - 1
<1> DEFINE t == b.buf
           N == Len(t)
           before == {i \in 0..(b.page - 2) : Pager!Newline(b, i)}
<1>1. /\ N \in Nat \ {0} /\ N \in Places(t) /\ 0 \in Starts(t) /\ Starts(t) \subseteq Places(t)
      /\ Places(t) \subseteq 0..N /\ (b.page # N => b.page \in Starts(t))
      /\ b.page \in 0..N /\ Pager!EndOf(b) = N
  BY PagerStarts DEF InText
<1>2. /\ \A j \in 1..N : Pager!Newline(b, j - 1) = t[j]
      /\ \A i : Pager!Newline(b, i) = t[i + 1]
  BY PagerStarts DEF InText, Pager!Newline
<1>3. Rank(t, b.page) \in Nat /\ Rank(t, 0) = 0
  BY RankType, RankZero DEF InText
<1>4. CASE b.begin_reached
  <2>1. Pager!BackLine(b) = b
    BY <1>4 DEF Pager!BackLine
  <2>2. Spot(b) = 0
    BY <1>1, <1>3, <1>4 DEF Spot, AtEnd, Ends
  <2>q. QED
    BY <2>1, <2>2 DEF SameText
<1>5. CASE ~b.begin_reached /\ b.page = N /\ b.end_reached
  <2> DEFINE c == [b EXCEPT !.end_reached = FALSE]
  <2>1. Pager!BackLine(b) = c
    BY <1>1, <1>5 DEF Pager!BackLine
  <2>2. /\ InText(c) /\ SameText(b, c) /\ c.page = b.page /\ ~c.end_reached
        /\ c.begin_reached = b.begin_reached /\ c.buf = t
    BY DEF InText, IsPager, PagerFields, SameText
  <2> HIDE DEF c
  <2>3. Ends(c) /\ Spot(c) = Rank(t, b.page) /\ Spot(b) = Rank(t, b.page) + 1
    BY <1>3, <1>5, <2>2 DEF Ends, Spot, AtEnd
  <2>q. QED
    BY <1>3, <2>1, <2>2, <2>3
<1>6. ASSUME ~b.begin_reached, ~(b.page = N /\ b.end_reached)
      PROVE  ~b.end_reached /\ Spot(b) = Rank(t, b.page)
  BY <1>3, <1>6 DEF Ends, Spot, AtEnd
<1>7. CASE ~b.begin_reached /\ ~(b.page = N /\ b.end_reached) /\ before = {}
  <2> DEFINE c == [b EXCEPT !.begin_reached = TRUE, !.page = 0]
  <2>1. Pager!BackLine(b) = c
    BY <1>1, <1>7 DEF Pager!BackLine
  <2>2. /\ InText(c) /\ SameText(b, c) /\ c.page = 0 /\ ~c.end_reached /\ c.buf = t
    BY <1>1, <1>6, <1>7 DEF InText, IsPager, PagerFields, SameText
  <2> HIDE DEF c
  <2>3. Ends(c) /\ Spot(c) = 0
    BY <1>3, <2>2 DEF Ends, Spot
  <2>4. ASSUME NEW j \in Starts(t), j < b.page PROVE j <= 0
    <3>1. SUFFICES ASSUME j > 0 PROVE FALSE
      BY <1>1
    <3>2. j \in 1..N /\ t[j] /\ j - 1 \in 0..(b.page - 2) /\ (j - 1) + 1 = j
      BY <1>1, <2>4, <3>1 DEF Starts
    <3>3. j - 1 \in before
      BY <1>2, <3>2
    <3>q. QED
      BY <1>7, <3>3
  <2>5. b.page # 0 => Rank(t, b.page) = 1
    <3>1. b.page # 0 => 0 < b.page
      BY <1>1
    <3>q. QED
      BY <1>1, <1>3, <2>4, <3>1, RankNext DEF InText
  <2>q. QED
    BY <1>3, <1>6, <1>7, <2>1, <2>2, <2>3, <2>5
<1>8. CASE ~b.begin_reached /\ ~(b.page = N /\ b.end_reached) /\ before # {}
  <2> DEFINE m == Pager!Max(before)
             c == [b EXCEPT !.page = m + 1]
  <2>1. Pager!BackLine(b) = c
    BY <1>1, <1>8 DEF Pager!BackLine
  <2>2. before \in SUBSET Nat /\ \A x \in before : x <= N
    BY <1>1
  <2>3. m \in before /\ \A i \in before : m >= i
    <3> HIDE DEF before
    <3>q. QED
      BY <1>1, <1>8, <2>2, PagerMax
  <2> HIDE DEF m, c
  <2>4. m \in 0..(b.page - 2) /\ t[m + 1]
    <3>1. m \in 0..(b.page - 2) /\ Pager!Newline(b, m)
      BY <2>3
    <3>q. QED
      BY <1>2, <3>1
  <2>5. m + 1 \in Starts(t) /\ m + 1 \in Places(t) /\ m + 1 < b.page /\ m + 1 # N
    BY <1>1, <2>4, SMTT(30) DEF Starts
  <2>6. ASSUME NEW j \in Starts(t), j < b.page PROVE j <= m + 1
    <3>1. SUFFICES ASSUME j > m + 1 PROVE FALSE
      BY <1>1, <2>4
    <3>2. j \in 1..N /\ t[j] /\ j - 1 \in 0..(b.page - 2) /\ (j - 1) + 1 = j
      BY <1>1, <2>4, <2>6, <3>1 DEF Starts
    <3>3. j - 1 \in before
      BY <1>2, <3>2
    <3>q. QED
      BY <2>3, <2>4, <3>1, <3>2, <3>3
  <2>7. Rank(t, b.page) = Rank(t, m + 1) + 1
    BY <1>1, <2>5, <2>6, RankNext DEF InText
  <2>8. /\ InText(c) /\ SameText(b, c) /\ c.page = m + 1 /\ c.end_reached = b.end_reached /\ c.buf = t
        /\ c.begin_reached = b.begin_reached
    BY <2>5 DEF c, InText, IsPager, PagerFields, SameText
  <2>9. Ends(c) /\ Spot(c) = Rank(t, m + 1) /\ Rank(t, m + 1) \in Nat
    BY <1>6, <1>8, <2>5, <2>8, RankType DEF Ends, Spot, AtEnd, InText
  <2>q. QED
    BY <1>6, <1>8, <2>1, <2>7, <2>8, <2>9
<1>q. QED
  BY <1>4, <1>5, <1>7, <1>8

(* Both go line by line, and have a value after every number of lines.     *)
PagerStep(back, b) == IF back THEN Pager!BackLine(b) ELSE Pager!GetLine(b)
PagerLoop(back, b, n, f) ==
  f = [i \in 0..n |-> IF i = 0 THEN b ELSE PagerStep(back, f[i - 1])]

LEMMA PagerRuns == ASSUME NEW back, NEW b, NEW n \in Nat PROVE \E f : PagerLoop(back, b, n, f)
<1> DEFINE Stuck == {m \in Nat : ~ \E f : PagerLoop(back, b, m, f)}
<1>1. SUFFICES ASSUME Stuck # {} PROVE FALSE
  OBVIOUS
<1>2. PICK m \in Stuck : \A x \in Stuck : m <= x
  BY <1>1, MinIn
<1>3. \E f : PagerLoop(back, b, 0, f)
  <2> DEFINE f == [i \in 0..0 |-> b]
  <2>1. f = [i \in 0..0 |-> IF i = 0 THEN b ELSE PagerStep(back, f[i - 1])]
    OBVIOUS
  <2> HIDE DEF f
  <2>q. QED
    BY <2>1 DEF PagerLoop
<1>4. m - 1 \in Nat /\ m - 1 \notin Stuck
  BY <1>2, <1>3
<1>5. PICK f : PagerLoop(back, b, m - 1, f)
  BY <1>4
<1> DEFINE g == [i \in 0..m |-> IF i = m THEN PagerStep(back, f[m - 1]) ELSE f[i]]
<1>6. \A i \in 0..m : g[i] = IF i = 0 THEN b ELSE PagerStep(back, g[i - 1])
  BY <1>4, <1>5 DEF PagerLoop
<1>7. PagerLoop(back, b, m, g)
  <2>1. DOMAIN g = 0..m /\ g = [i \in DOMAIN g |-> g[i]]
    OBVIOUS
  <2> HIDE DEF g
  <2>q. QED
    BY <1>6, <2>1 DEF PagerLoop
<1>q. QED
  BY <1>2, <1>7

(* n lines on: n more are before the page, or it is at the end; and it was *)
(* reached if there were not so many.                                      *)
Ahead(b, n, c) ==
  /\ InText(c) /\ SameText(b, c) /\ c.begin_reached = b.begin_reached
  /\ n = 0 => c = b
  /\ IF AtEnd(c) THEN Rank(b.buf, b.page) + n >= Rank(b.buf, Len(b.buf))
     ELSE Rank(b.buf, c.page) = Rank(b.buf, b.page) + n
  /\ n # 0 /\ c.end_reached => AtEnd(c)
  /\ n # 0 /\ b.buf[Len(b.buf)] =>
       (c.end_reached <=> Rank(b.buf, b.page) + n > Rank(b.buf, Len(b.buf)))

LEMMA AheadStep ==
  ASSUME NEW b, InText(b), NEW n \in Nat, NEW c, Ahead(b, n, c)
  PROVE  Ahead(b, n + 1, Pager!GetLine(c))
<1> DEFINE d == Pager!GetLine(c)
           t == b.buf
           r == Rank(t, b.page)
           k == Rank(t, Len(t))
<1>1. InText(c) /\ SameText(b, c) /\ c.begin_reached = b.begin_reached /\ c.buf = t
  BY DEF Ahead, SameText
<1>2. /\ InText(d) /\ SameText(c, d) /\ d.begin_reached = c.begin_reached
      /\ AtEnd(c) => AtEnd(d) /\ d.end_reached
      /\ ~AtEnd(c) => /\ Rank(t, d.page) = Rank(t, c.page) + 1
                      /\ d.end_reached => AtEnd(d) /\ ~t[Len(t)]
  BY <1>1, LineAhead
<1> SUFFICES Ahead(b, n + 1, d)
  OBVIOUS
<1> HIDE DEF d
<1>3. r \in Nat /\ k \in Nat /\ Rank(t, c.page) \in Nat
  BY RankType DEF InText
<1>4. SameText(b, d) /\ d.begin_reached = b.begin_reached /\ d.buf = t
  BY <1>1, <1>2 DEF SameText
<1>5. CASE AtEnd(c)
  <2>1. r + n >= k
    BY <1>5 DEF Ahead
  <2>q. QED
    BY <1>2, <1>3, <1>4, <1>5, <2>1 DEF Ahead
<1>6. CASE ~AtEnd(c)
  <2>1. Rank(t, c.page) = r + n
    BY <1>6 DEF Ahead
  <2>2. Rank(t, d.page) = r + (n + 1)
    BY <1>2, <1>3, <1>6, <2>1
  <2>3. Rank(t, d.page) <= k
    BY <1>2, <1>4, RankLast DEF InText
  <2>4. AtEnd(d) => Rank(t, d.page) = k
    BY <1>4 DEF AtEnd
  <2>5. r + (n + 1) <= k /\ ~(r + (n + 1) > k)
    BY <1>3, <2>2, <2>3
  <2>q. QED
    BY <1>2, <1>3, <1>4, <1>6, <2>2, <2>4, <2>5 DEF Ahead
<1>q. QED
  BY <1>5, <1>6

LEMMA LinesAhead ==
  ASSUME NEW b, InText(b), NEW n \in Nat
  PROVE  Ahead(b, n, Pager!GetLines(b, n))
<1> DEFINE line[i \in 0..n] == IF i = 0 THEN b ELSE Pager!GetLine(line[i - 1])
<1>1. Pager!GetLines(b, n) = line[n]
  BY DEF Pager!GetLines
<1>2. line = CHOOSE f : PagerLoop(FALSE, b, n, f)
  BY DEF line, PagerLoop, PagerStep
<1> HIDE DEF line
<1>3. PagerLoop(FALSE, b, n, line)
  BY <1>2, PagerRuns
<1> DEFINE Wrong == {i \in 0..n : ~Ahead(b, i, line[i])}
<1>4. ASSUME Wrong # {} PROVE FALSE
  <2>1. PICK i \in Wrong : \A x \in Wrong : i <= x
    <3>1. Wrong \in SUBSET Nat
      OBVIOUS
    <3> HIDE DEF Wrong
    <3>q. QED
      BY <1>4, <3>1, MinIn
  <2>2. line[0] = b
    BY <1>3 DEF PagerLoop
  <2>3. Ahead(b, 0, b)
    BY RankType DEF Ahead, SameText, InText, AtEnd
  <2>4. i # 0 /\ i \in Nat /\ i - 1 \in 0..n /\ i - 1 \in Nat /\ (i - 1) + 1 = i
    BY <2>1, <2>2, <2>3
  <2>5. Ahead(b, i - 1, line[i - 1])
    BY <2>1, <2>4
  <2>6. line[i] = Pager!GetLine(line[i - 1])
    BY <1>3, <2>1, <2>4 DEF PagerLoop, PagerStep
  <2>7. Ahead(b, (i - 1) + 1, Pager!GetLine(line[i - 1]))
    BY <2>4, <2>5, AheadStep
  <2>q. QED
    BY <2>1, <2>4, <2>6, <2>7
<1>q. QED
  BY <1>1, <1>4

(* n lines back, however the end was reached.                              *)
Behind(b, n, c) ==
  /\ InText(c) /\ SameText(b, c) /\ Ends(c)
  /\ Spot(c) = IF n <= Spot(b) THEN Spot(b) - n ELSE 0

LEMMA LinesBehind ==
  ASSUME NEW b, InText(b), b.end_reached => AtEnd(b), NEW n \in Nat
  PROVE  Behind(b, n, Pager!BackLines(b, n))
<1> DEFINE first == [b EXCEPT !.begin_reached = FALSE]
           back[i \in 0..n] == IF i = 0 THEN first ELSE Pager!BackLine(back[i - 1])
<1>1. Pager!BackLines(b, n) = back[n]
  BY DEF Pager!BackLines
<1>2. back = CHOOSE f : PagerLoop(TRUE, first, n, f)
  BY DEF back, PagerLoop, PagerStep
<1>3. /\ InText(first) /\ SameText(b, first) /\ ~first.begin_reached /\ first.page = b.page
      /\ first.end_reached = b.end_reached /\ first.buf = b.buf
  BY DEF InText, IsPager, PagerFields, SameText
<1> HIDE DEF back, first
<1>4. PagerLoop(TRUE, first, n, back)
  BY <1>2, PagerRuns
<1> DEFINE Wrong == {i \in 0..n : ~Behind(b, i, back[i])}
<1>5. ASSUME Wrong # {} PROVE FALSE
  <2>1. PICK i \in Wrong : \A x \in Wrong : i <= x
    <3>1. Wrong \in SUBSET Nat
      OBVIOUS
    <3> HIDE DEF Wrong
    <3>q. QED
      BY <1>5, <3>1, MinIn
  <2>2. back[0] = first
    BY <1>4 DEF PagerLoop
  <2>3. Spot(b) \in Nat /\ Spot(first) = Spot(b)
    BY <1>3, SpotType DEF Spot, AtEnd
  <2>4. Behind(b, 0, first)
    BY <1>3, <2>3 DEF Behind, Ends, AtEnd
  <2>5. i # 0 /\ i \in Nat /\ i - 1 \in 0..n /\ i - 1 \in Nat
    BY <2>1, <2>2, <2>4
  <2>6. Behind(b, i - 1, back[i - 1])
    BY <2>1, <2>5
  <2>7. back[i] = Pager!BackLine(back[i - 1])
    BY <1>4, <2>1, <2>5 DEF PagerLoop, PagerStep
  <2> DEFINE c == back[i - 1]
             d == back[i]
  <2>8. /\ InText(c) /\ SameText(b, c) /\ Ends(c) /\ Spot(c) \in Nat
        /\ Spot(c) = IF i - 1 <= Spot(b) THEN Spot(b) - (i - 1) ELSE 0
    BY <2>6, SpotType DEF Behind
  <2>9. InText(d) /\ SameText(c, d) /\ Ends(d) /\ Spot(d) = IF Spot(c) = 0 THEN 0 ELSE Spot(c) - 1
    BY <2>7, <2>8, LineBehind
  <2> HIDE DEF c, d
  <2>10. SameText(b, d)
    BY <2>8, <2>9 DEF SameText
  <2>11. Spot(d) = IF i <= Spot(b) THEN Spot(b) - i ELSE 0
    BY <2>3, <2>5, <2>8, <2>9
  <2>12. Behind(b, i, d)
    BY <2>9, <2>10, <2>11 DEF Behind
  <2>q. QED
    BY <2>1, <2>12 DEF d
<1>q. QED
  BY <1>1, <1>5

(* The number of a place, and the end counted, when n lines were printed.  *)
LEMMA SpotIsRank ==
  ASSUME NEW b, InText(b), Spot(b) <= Rank(b.buf, Len(b.buf)) PROVE Spot(b) = Rank(b.buf, b.page)
BY RankType DEF Spot, AtEnd, InText

LEMMA SpotBound == ASSUME NEW b, InText(b) PROVE Spot(b) <= Rank(b.buf, Len(b.buf)) + 1
<1>1. /\ Rank(b.buf, b.page) \in Nat /\ Rank(b.buf, Len(b.buf)) \in Nat
      /\ Rank(b.buf, b.page) <= Rank(b.buf, Len(b.buf))
  BY RankType, RankLast DEF InText
<1>q. QED
  BY <1>1 DEF Spot

EndsLine(b) == b.buf[Len(b.buf)]

LEMMA SpotAhead ==
  ASSUME NEW b, InText(b), EndsLine(b), NEW n \in Nat \ {0}, NEW c, Ahead(b, n, c)
  PROVE  /\ Spot(c) = IF Rank(b.buf, b.page) + n <= Rank(b.buf, Len(b.buf))
                      THEN Rank(b.buf, b.page) + n ELSE Rank(b.buf, Len(b.buf)) + 1
         /\ c.end_reached <=> Rank(b.buf, b.page) + n > Rank(b.buf, Len(b.buf))
<1> DEFINE t == b.buf
           r == Rank(t, b.page)
           k == Rank(t, Len(t))
<1>1. r \in Nat /\ k \in Nat /\ Rank(t, c.page) \in Nat /\ c.buf = t
  BY RankType DEF Ahead, SameText, InText
<1>2. c.end_reached <=> r + n > k
  BY DEF Ahead, EndsLine
<1>3. CASE r + n > k
  <2>1. AtEnd(c) /\ c.end_reached
    BY <1>2, <1>3 DEF Ahead
  <2>2. Spot(c) = k + 1
    BY <1>1, <2>1 DEF Spot, AtEnd
  <2>q. QED
    BY <1>1, <1>2, <1>3, <2>2
<1>4. CASE r + n <= k
  <2>1. Spot(c) = Rank(t, c.page)
    BY <1>1, <1>2, <1>4 DEF Spot
  <2>2. AtEnd(c) => r + n >= k /\ Rank(t, c.page) = k
    BY <1>1 DEF Ahead, AtEnd
  <2>3. ~AtEnd(c) => Rank(t, c.page) = r + n
    BY DEF Ahead
  <2>q. QED
    BY <1>1, <1>2, <1>4, <2>1, <2>2, <2>3
<1>q. QED
  BY <1>1, <1>3, <1>4

(* page_length: a full page, or the lines left and the empty one after the *)
(* last newline.                                                           *)
LEMMA PageLengthIs ==
  ASSUME NEW b, InText(b), b.boxh \in Nat \ {0}
  PROVE  /\ Pager!PageLength(b) \in 1..b.boxh
         /\ EndsLine(b) =>
              Pager!PageLength(b) =
                IF Rank(b.buf, b.page) + b.boxh <= Rank(b.buf, Len(b.buf)) THEN b.boxh
                ELSE Rank(b.buf, Len(b.buf)) + 1 - Rank(b.buf, b.page)
<1> DEFINE h == b.boxh
           r == Rank(b.buf, b.page)
           k == Rank(b.buf, Len(b.buf))
           reached == {i \in 1..h : Pager!GetLines(b, i).end_reached}
<1>1. r \in Nat /\ k \in Nat /\ r <= k
  BY RankType, RankLast DEF InText
<1>2. Pager!PageLength(b) = IF reached = {} THEN h ELSE Pager!Min(reached)
  BY DEF Pager!PageLength
<1>3. ASSUME EndsLine(b), NEW i \in 1..h PROVE i \in reached <=> r + i > k
  <2>1. i \in Nat \ {0} /\ Ahead(b, i, Pager!GetLines(b, i))
    BY LinesAhead
  <2>2. Pager!GetLines(b, i).end_reached <=> r + i > k
    BY <1>3, <2>1, SpotAhead
  <2>q. QED
    BY <2>2
<1>4. reached \in SUBSET Nat /\ reached \subseteq 1..h
  OBVIOUS
<1> DEFINE m == Pager!Min(reached)
<1> HIDE DEF reached
<1>5. reached # {} => m \in reached /\ \A i \in reached : m <= i
  BY <1>4, PagerMin
<1> HIDE DEF m
<1>6. Pager!PageLength(b) = IF reached = {} THEN h ELSE m
  BY <1>2 DEF m
<1>7. Pager!PageLength(b) \in 1..h
  <2>1. h \in 1..h
    OBVIOUS
  <2>2. reached # {} => m \in 1..h
    BY <1>4, <1>5
  <2>q. QED
    BY <1>6, <2>1, <2>2
<1>8. CASE r + h <= k
  <2>1. EndsLine(b) => reached = {}
    <3>1. SUFFICES ASSUME EndsLine(b), NEW i \in reached PROVE FALSE
      OBVIOUS
    <3>2. i \in 1..h /\ r + i > k
      BY <1>3, <1>4, <3>1
    <3>q. QED
      BY <1>1, <1>8, <3>2
  <2>q. QED
    BY <1>6, <1>7, <1>8, <2>1
<1>9. CASE ~(r + h <= k)
  <2>1. SUFFICES ASSUME EndsLine(b) PROVE Pager!PageLength(b) = k + 1 - r
    BY <1>1, <1>7, <1>9
  <2>2. k + 1 - r \in 1..h /\ r + (k + 1 - r) > k
    BY <1>1, <1>9
  <2>3. k + 1 - r \in reached
    BY <1>3, <2>1, <2>2
  <2>4. m \in 1..h /\ r + m > k /\ m <= k + 1 - r
    BY <1>3, <1>4, <1>5, <2>1, <2>3
  <2>q. QED
    BY <1>1, <1>6, <2>2, <2>3, <2>4
<1>q. QED
  BY <1>8, <1>9

(* Two numbers less than n apart have different remainders.                *)
LEMMA RemaindersDiffer ==
  ASSUME NEW n \in Nat \ {0}, NEW x \in Nat, NEW y \in Nat, x < y, y < x + n
  PROVE  x % n # y % n
<1>1. SUFFICES ASSUME x % n = y % n PROVE FALSE
  OBVIOUS
<1>2. x = (x \div n) * n + (x % n) /\ y = (y \div n) * n + (y % n)
  BY Z3
<1> DEFINE p == x \div n
           q == y \div n
<1>3. p \in Nat /\ q \in Nat
  BY Z3
<1>4. y - x = q * n - p * n
  <2>1. x % n \in Nat
    BY Z3
  <2>2. p * n \in Nat /\ q * n \in Nat
    BY <1>3, Z3
  <2> HIDE DEF p, q
  <2>q. QED
    BY <1>1, <1>2, <2>1, <2>2 DEF p, q
<1> HIDE DEF p, q
<1>5. p * n \in Nat /\ q * n \in Nat
  BY <1>3, Z3
<1>6. CASE q <= p
  <2>1. q * n <= p * n
    BY <1>3, <1>6, Z3
  <2>q. QED
    BY <1>4, <1>5, <2>1
<1>7. CASE p + 1 <= q
  <2>1. (p + 1) * n <= q * n /\ (p + 1) * n = p * n + n
    BY <1>3, <1>7, Z3
  <2>q. QED
    BY <1>4, <1>5, <2>1
<1>q. QED
  BY <1>3, <1>6, <1>7

(* What print_page() is called with.                                       *)
Ready(b) ==
  /\ InText(b) /\ b.boxh \in Nat \ {0} /\ DOMAIN b.label = Starts(b.buf)
  /\ b.begin_reached => b.page = 0

(* update_text() of a search leaves the page where it is if a page that    *)
(* ends with the end of the text starts here or later, or the text starts  *)
(* here.                                                                   *)
Fits(b) ==
  \/ Rank(b.buf, b.page) + b.boxh <= Rank(b.buf, Len(b.buf)) + 1
  \/ Rank(b.buf, b.page) = 0

(* The keys written before `last' lead to the lines they are in.           *)
KeysLead(b, first, last) ==
  \A i \in Starts(b.buf) :
    first <= i /\ i < last /\ b.label[i] # 0 =>
      \A j \in Starts(b.buf) : <<b.label[i], j>> \in b.targets <=> i = j

LEMMA KeysApart ==
  ASSUME NEW b, InText(b), NEW end, JumpNb \in Nat \ {0},
         NEW i \in Starts(b.buf), NEW j \in Starts(b.buf), i < j, b.page <= i, j < end, end \in Int,
         Cardinality({x \in {x \in Starts(b.buf) : b.page <= x /\ x < end} : x < j}) < JumpNb
  PROVE  Pager!Key(b, i) # Pager!Key(b, j)
<1> DEFINE t == b.buf
           page == {x \in Starts(t) : b.page <= x /\ x < end}
           shown == {x \in page : x < j}
           before == {x \in Starts(t) : x < i}
           upto == {x \in Starts(t) : x < j}
<1>1. Starts(t) \subseteq Nat /\ b.page \in Nat
  BY DEF InText, IsContent, Places, Starts
<1>2. upto \subseteq before \cup shown /\ before \subseteq upto
  BY <1>1
<1>3. /\ IsFiniteSet(before) /\ IsFiniteSet(shown) /\ IsFiniteSet(upto)
      /\ Cardinality(before) \in Nat /\ Cardinality(shown) \in Nat /\ Cardinality(upto) \in Nat
  BY StartsFinite DEF InText
<1>4. Cardinality(shown) < JumpNb
  OBVIOUS
<1>5. Rank(t, i) = Cardinality(before) /\ Rank(t, j) = Cardinality(upto)
  BY DEF Rank
<1>6. Rank(t, i) < Rank(t, j)
  BY PagerStarts, RankGrows DEF InText
<1> HIDE DEF shown, before, upto
<1>7. /\ IsFiniteSet(before \cup shown)
      /\ Cardinality(before \cup shown) <= Cardinality(before) + Cardinality(shown)
  <2>1. /\ IsFiniteSet(before \cup shown)
        /\ Cardinality(before \cup shown)
             = Cardinality(before) + Cardinality(shown) - Cardinality(before \cap shown)
    BY <1>3, FS_Union
  <2>2. IsFiniteSet(before \cap shown)
    BY <1>3, FS_Intersection
  <2>3. Cardinality(before \cap shown) \in Nat
    BY <2>2, FS_CardinalityType
  <2>q. QED
    BY <1>3, <2>1, <2>3
<1>8. Cardinality(upto) <= Cardinality(before \cup shown)
  BY <1>2, <1>7, FS_Subset
<1>9. Cardinality(before \cup shown) \in Nat
  BY <1>7, FS_CardinalityType
<1>10. Rank(t, j) < Rank(t, i) + JumpNb /\ Rank(t, i) \in Nat /\ Rank(t, j) \in Nat
  BY <1>3, <1>4, <1>5, <1>7, <1>8, <1>9
<1>11. Rank(t, i) % JumpNb # Rank(t, j) % JumpNb
  BY <1>6, <1>10, RemaindersDiffer
<1>12. Pager!Key(b, i) = (Rank(t, i) % JumpNb) + 1 /\ Pager!Key(b, j) = (Rank(t, j) % JumpNb) + 1
  <2>1. Pager!LineStarts(b) = Starts(t)
    BY PagerStarts DEF InText
  <2>q. QED
    BY <2>1, PagerCount DEF Pager!Key, Rank
<1>13. Rank(t, i) % JumpNb \in Nat /\ Rank(t, j) % JumpNb \in Nat
  BY <1>10, Z3
<1>q. QED
  BY <1>11, <1>12, <1>13

LEMMA KeyType == ASSUME NEW b, InText(b), JumpNb \in Nat \ {0}, NEW i
                 PROVE Pager!Key(b, i) \in Nat \ {0}
<1>1. Pager!Key(b, i) = (Rank(b.buf, i) % JumpNb) + 1
  <2>1. Pager!LineStarts(b) = Starts(b.buf)
    BY PagerStarts DEF InText
  <2>q. QED
    BY <2>1, PagerCount DEF Pager!Key, Rank
<1>2. Rank(b.buf, i) % JumpNb \in Nat
  <2>1. Rank(b.buf, i) \in Nat
    BY RankType DEF InText
  <2>q. QED
    BY <2>1, Z3
<1>q. QED
  BY <1>1, <1>2

LEMMA UpdateKeys ==
  ASSUME JumpNb \in Nat \ {0}, NEW b, InText(b), DOMAIN b.label = Starts(b.buf), NEW end \in Int
  PROVE  LET c == Pager!UpdateText(b, end)
         IN  /\ InText(c) /\ DOMAIN c.label = Starts(c.buf)
             /\ c.open = b.open /\ c.buf = b.buf /\ c.boxh = b.boxh /\ c.page = b.page
             /\ c.begin_reached = b.begin_reached /\ c.end_reached = b.end_reached
             /\ c.page_length = b.page_length /\ c.top = b.top /\ c.hscroll = b.hscroll
             /\ c.vscroll = b.vscroll /\ c.search = b.search /\ c.res = b.res
             /\ KeysLead(c, b.page, end)
<1> DEFINE c == Pager!UpdateText(b, end)
           t == b.buf
           page == {x \in Starts(t) : b.page <= x /\ x < end}
           first == {x \in page : Cardinality({y \in page : y < x}) < JumpNb}
           label == [i \in DOMAIN b.label |-> IF i \notin page THEN b.label[i]
                                              ELSE IF i \in first THEN Pager!Key(b, i) ELSE 0]
           targets == {<<Pager!Key(b, i), i>> : i \in first}
<1>1. c = [b EXCEPT !.label = label, !.targets = targets]
  <2>1. Pager!LineStarts(b) = Starts(t)
    BY PagerStarts DEF InText
  <2>q. QED
    BY <2>1, PagerCount DEF Pager!UpdateText
<1>2. DOMAIN label = Starts(t)
  OBVIOUS
<1>3. ASSUME NEW i \in page, label[i] # 0
      PROVE  i \in first /\ label[i] = Pager!Key(b, i)
  BY <1>3
<1>4. Starts(t) \subseteq Nat /\ b.page \in Nat
  BY DEF InText, IsContent, Places, Starts
<1>5. ASSUME NEW i \in first, NEW j \in first, Pager!Key(b, i) = Pager!Key(b, j) PROVE i = j
  <2>1. /\ i \in Starts(t) /\ j \in Starts(t) /\ b.page <= i /\ b.page <= j /\ i < end /\ j < end
        /\ Cardinality({y \in page : y < i}) < JumpNb /\ Cardinality({y \in page : y < j}) < JumpNb
    OBVIOUS
  <2> HIDE DEF first
  <2>2. ~(i < j)
    BY <1>5, <2>1, KeysApart
  <2>3. ~(j < i)
    BY <1>5, <2>1, KeysApart
  <2>q. QED
    BY <1>4, <2>1, <2>2, <2>3
<1>6. ASSUME NEW i \in first, NEW j
      PROVE  <<Pager!Key(b, i), j>> \in targets <=> i = j
  <2> HIDE DEF first
  <2>1. <<Pager!Key(b, i), j>> \in targets
          <=> \E x \in first : Pager!Key(b, i) = Pager!Key(b, x) /\ j = x
    BY DEF targets
  <2>q. QED
    BY <1>5, <2>1
<1> SUFFICES /\ InText(c) /\ DOMAIN c.label = Starts(c.buf)
             /\ c.open = b.open /\ c.buf = b.buf /\ c.boxh = b.boxh /\ c.page = b.page
             /\ c.begin_reached = b.begin_reached /\ c.end_reached = b.end_reached
             /\ c.page_length = b.page_length /\ c.top = b.top /\ c.hscroll = b.hscroll
             /\ c.vscroll = b.vscroll /\ c.search = b.search /\ c.res = b.res
             /\ KeysLead(c, b.page, end)
  OBVIOUS
<1> HIDE DEF c, label, targets
<1>7. /\ InText(c)
      /\ c.open = b.open /\ c.buf = b.buf /\ c.boxh = b.boxh /\ c.page = b.page
      /\ c.begin_reached = b.begin_reached /\ c.end_reached = b.end_reached
      /\ c.page_length = b.page_length /\ c.top = b.top /\ c.hscroll = b.hscroll
      /\ c.vscroll = b.vscroll /\ c.search = b.search /\ c.res = b.res
      /\ c.label = label /\ c.targets = targets
  BY <1>1 DEF InText, IsPager, PagerFields
<1>8. KeysLead(c, b.page, end)
  <2>1. SUFFICES ASSUME NEW i \in Starts(t), b.page <= i, i < end, label[i] # 0, NEW j \in Starts(t)
                 PROVE  <<label[i], j>> \in targets <=> i = j
    BY <1>7 DEF KeysLead
  <2>2. i \in page
    BY <2>1
  <2>3. i \in first /\ label[i] = Pager!Key(b, i)
    BY <1>3, <2>1, <2>2
  <2> HIDE DEF first, page
  <2>q. QED
    BY <1>6, <2>3
<1>q. QED
  BY <1>2, <1>7, <1>8

(* update_text() before a page of search results; the page may move up, so *)
(* that a full one is shown.                                               *)
LEMMA Updates ==
  ASSUME JumpNb \in Nat \ {0}, NEW b, Ready(b)
  PROVE  LET c == Pager!Updated(b)
             e == Pager!GetLines(c, c.boxh)
         IN  /\ Ready(c)
             /\ c.open = b.open /\ c.buf = b.buf /\ c.boxh = b.boxh /\ c.hscroll = b.hscroll
             /\ c.vscroll = b.vscroll /\ c.search = b.search /\ c.res = b.res
             /\ ~b.search => c = b
             /\ b.search => KeysLead(e, c.page, e.page)
             /\ b.search /\ EndsLine(b) => Fits(c)
             /\ EndsLine(b) /\ Fits(b) => c.page = b.page
<1> DEFINE c == Pager!Updated(b)
           e == Pager!GetLines(c, c.boxh)
           t == b.buf
           h == b.boxh
           r == Rank(t, b.page)
           k == Rank(t, Len(t))
           below == Pager!GetLines(b, h)
           up == Pager!BackLines(below, h)
<1>1. CASE ~b.search
  <2>1. c = b
    BY <1>1 DEF Pager!Updated
  <2>q. QED
    BY <1>1, <2>1
<1>2. CASE b.search
  <2>1. c = Pager!UpdateText(up, below.page)
    BY <1>2 DEF Pager!Updated
  <2>2. Ahead(b, h, below) /\ InText(b) /\ h \in Nat \ {0}
    BY LinesAhead DEF Ready
  <2>3. InText(below) /\ SameText(b, below) /\ below.buf = t /\ (below.end_reached => AtEnd(below))
    BY <2>2 DEF Ahead, SameText
  <2>4. Behind(below, h, up)
    BY <2>2, <2>3, LinesBehind
  <2> HIDE DEF below, up
  <2>5. InText(up) /\ SameText(below, up) /\ SameText(b, up) /\ Ends(up) /\ up.buf = t
    BY <2>3, <2>4 DEF Behind, SameText
  <2>6. r \in Nat /\ k \in Nat /\ r <= k
    BY <2>2, RankType, RankLast DEF InText
  <2>7. Spot(below) \in Nat /\ Spot(below) <= k + 1
    BY <2>3, SpotType, SpotBound
  <2>8. Spot(up) = IF h <= Spot(below) THEN Spot(below) - h ELSE 0
    BY <2>4 DEF Behind
  <2>9. Spot(up) = Rank(t, up.page)
    <3>1. Spot(up) <= k
      BY <2>2, <2>6, <2>7, <2>8
    <3>q. QED
      BY <2>5, <3>1, SpotIsRank
  <2>10. /\ InText(c) /\ DOMAIN c.label = Starts(t)
         /\ c.open = b.open /\ c.buf = t /\ c.boxh = h /\ c.page = up.page
         /\ c.begin_reached = up.begin_reached /\ c.hscroll = b.hscroll
         /\ c.vscroll = b.vscroll /\ c.search = b.search /\ c.res = b.res
         /\ KeysLead(c, up.page, below.page)
    <3>1. DOMAIN up.label = Starts(up.buf) /\ below.page \in Int
      BY <2>3, <2>5 DEF SameText, Ready, InText, IsContent, Places, Starts
    <3>q. QED
      BY <2>1, <2>5, <3>1, UpdateKeys DEF SameText
  <2>11. Ready(c)
    BY <2>2, <2>5, <2>10 DEF Ready, Ends
  <2>12. EndsLine(b) => Fits(c) /\ (Fits(b) => c.page = b.page)
    <3>1. SUFFICES ASSUME EndsLine(b) PROVE Fits(c) /\ (Fits(b) => c.page = b.page)
      OBVIOUS
    <3>2. Spot(below) = IF r + h <= k THEN r + h ELSE k + 1
      BY <2>2, <3>1, SpotAhead
    <3>3. Fits(c)
      <4>1. Rank(t, c.page) + h <= k + 1 \/ Rank(t, c.page) = 0
        BY <2>2, <2>6, <2>8, <2>9, <2>10, <3>2
      <4>q. QED
        BY <2>10, <4>1 DEF Fits
    <3>4. Fits(b) => Rank(t, c.page) = r
      BY <2>2, <2>6, <2>8, <2>9, <2>10, <3>2 DEF Fits
    <3>5. b.page \in Places(t) /\ c.page \in Places(t) /\ IsContent(t)
      BY <2>2, <2>10 DEF InText
    <3>q. QED
      BY <3>3, <3>4, <3>5, RankTells
  <2>13. Ahead(c, h, e)
    BY <2>2, <2>10, LinesAhead
  <2>14. InText(e) /\ e.buf = t /\ e.label = c.label /\ e.targets = c.targets
    BY <2>10, <2>13 DEF Ahead, SameText
  <2> HIDE DEF c, e
  <2>15. e.page <= below.page
    <3>1. CASE AtEnd(below)
      BY <2>3, <2>14, <3>1 DEF AtEnd, InText, IsContent, Places, Starts
    <3>2. CASE ~AtEnd(below)
      <4>1. Rank(t, below.page) = r + h
        BY <2>2, <3>2 DEF Ahead
      <4>2. Spot(below) = r + h
        <5>1. Spot(below) = Rank(t, below.page)
          BY <2>3, <2>6, <3>2, <4>1, RankType DEF Spot, InText
        <5>q. QED
          BY <4>1, <5>1
      <4>3. Rank(t, c.page) = r
        BY <2>2, <2>6, <2>8, <2>9, <2>10, <4>2
      <4>4. r + h < k
        <5>1. r + h <= k /\ r + h # k
          BY <2>3, <3>2, <4>1, RankLast DEF AtEnd, InText
        <5>q. QED
          BY <2>2, <2>6, <5>1
      <4>5. Rank(t, e.page) = r + h
        BY <2>2, <2>6, <2>10, <2>13, <4>3, <4>4 DEF Ahead
      <4>6. e.page = below.page
        BY <2>3, <2>14, <4>1, <4>5, RankTells DEF InText
      <4>q. QED
        BY <2>3, <4>6 DEF InText, IsContent, Places, Starts
    <3>q. QED
      BY <3>1, <3>2
  <2>16. KeysLead(e, c.page, e.page)
    <3>1. Starts(t) \subseteq Int /\ e.page \in Int /\ below.page \in Int
      BY <2>3, <2>14 DEF InText, IsContent, Places, Starts
    <3>q. QED
      BY <2>10, <2>14, <2>15, <3>1 DEF KeysLead
  <2>q. QED
    BY <1>2, <2>10, <2>11, <2>12, <2>16 DEF c, e
<1>q. QED
  BY <1>1, <1>2

(* What print_page() leaves.                                               *)
Printed(b) ==
  /\ InText(b) /\ b.boxh \in Nat \ {0} /\ DOMAIN b.label = Starts(b.buf)
  /\ b.top \in Places(b.buf) /\ b.page_length \in 1..b.boxh
  /\ b.end_reached => AtEnd(b)
  /\ b.begin_reached => b.top = 0
  /\ EndsLine(b) =>
       LET top == Rank(b.buf, b.top)
           all == Rank(b.buf, Len(b.buf))
       IN  /\ b.page_length = IF top + b.boxh <= all THEN b.boxh ELSE all + 1 - top
           /\ Spot(b) = IF top + b.boxh <= all THEN top + b.boxh ELSE all + 1
           /\ b.end_reached <=> top + b.boxh > all
           /\ b.search => top + b.boxh <= all + 1 \/ top = 0
  /\ b.search => KeysLead(b, b.top, b.page)

LEMMA Prints ==
  ASSUME JumpNb \in Nat \ {0}, NEW b, Ready(b)
  PROVE  LET d == Pager!PrintPage(b)
         IN  /\ Printed(d)
             /\ d.open = b.open /\ d.buf = b.buf /\ d.boxh = b.boxh /\ d.hscroll = b.hscroll
             /\ d.vscroll = b.vscroll /\ d.search = b.search /\ d.res = b.res
             /\ EndsLine(b) /\ (b.search => Fits(b)) => d.top = b.page
<1> DEFINE c == Pager!Updated(b)
           e == Pager!GetLines(c, c.boxh)
           n == Pager!PageLength(c)
           d == Pager!PrintPage(b)
           t == b.buf
           top == Rank(t, c.page)
           all == Rank(t, Len(t))
<1>1. d = [e EXCEPT !.page_length = n, !.top = c.page]
  BY DEF Pager!PrintPage
<1>2. /\ Ready(c)
      /\ c.open = b.open /\ c.buf = t /\ c.boxh = b.boxh /\ c.hscroll = b.hscroll
      /\ c.vscroll = b.vscroll /\ c.search = b.search /\ c.res = b.res
      /\ ~b.search => c = b
      /\ b.search => KeysLead(e, c.page, e.page)
      /\ b.search /\ EndsLine(b) => Fits(c)
      /\ EndsLine(b) /\ Fits(b) => c.page = b.page
  BY Updates
<1>3. InText(c) /\ c.boxh \in Nat \ {0}
  BY <1>2 DEF Ready
<1>4. Ahead(c, c.boxh, e)
  BY <1>3, LinesAhead
<1>5. /\ n \in 1..c.boxh
      /\ EndsLine(c) => n = IF top + c.boxh <= all THEN c.boxh ELSE all + 1 - top
  BY <1>2, <1>3, PageLengthIs
<1> SUFFICES /\ Printed(d)
             /\ d.open = b.open /\ d.buf = b.buf /\ d.boxh = b.boxh /\ d.hscroll = b.hscroll
             /\ d.vscroll = b.vscroll /\ d.search = b.search /\ d.res = b.res
             /\ EndsLine(b) /\ (b.search => Fits(b)) => d.top = b.page
  OBVIOUS
<1> HIDE DEF c, e, n, d
<1>6. InText(e) /\ SameText(c, e) /\ e.begin_reached = c.begin_reached /\ (e.end_reached => AtEnd(e))
  BY <1>3, <1>4 DEF Ahead
<1>7. EndsLine(c) => /\ Spot(e) = IF top + c.boxh <= all THEN top + c.boxh ELSE all + 1
                     /\ e.end_reached <=> top + c.boxh > all
  BY <1>2, <1>3, <1>4, SpotAhead
<1>8. /\ InText(d) /\ d.open = b.open /\ d.buf = t /\ d.boxh = b.boxh /\ d.hscroll = b.hscroll
      /\ d.vscroll = b.vscroll /\ d.search = b.search /\ d.res = b.res /\ d.page = e.page
      /\ d.end_reached = e.end_reached /\ d.begin_reached = c.begin_reached /\ d.label = c.label
      /\ d.targets = e.targets /\ d.label = e.label /\ d.page_length = n /\ d.top = c.page
      /\ e.buf = t
  BY <1>1, <1>2, <1>6 DEF InText, IsPager, PagerFields, SameText
<1>9. /\ Spot(d) = Spot(e) /\ (AtEnd(d) <=> AtEnd(e))
      /\ (EndsLine(d) <=> EndsLine(b)) /\ (EndsLine(c) <=> EndsLine(b))
  BY <1>2, <1>8 DEF Spot, AtEnd, EndsLine
<1>10. d.search => KeysLead(d, d.top, d.page)
  BY <1>2, <1>8 DEF KeysLead
<1>11. EndsLine(b) /\ b.search => top + b.boxh <= all + 1 \/ top = 0
  BY <1>2 DEF Fits
<1>12. Printed(d)
  <2>1. /\ DOMAIN d.label = Starts(t) /\ d.top \in Places(t) /\ (d.begin_reached => d.top = 0)
    BY <1>2, <1>8 DEF Ready, InText
  <2>2. d.boxh \in Nat \ {0} /\ d.page_length \in 1..d.boxh /\ (d.end_reached => AtEnd(d))
    BY <1>2, <1>3, <1>5, <1>6, <1>8, <1>9
  <2>3. EndsLine(d) =>
          /\ d.page_length = IF top + d.boxh <= all THEN d.boxh ELSE all + 1 - top
          /\ Spot(d) = IF top + d.boxh <= all THEN top + d.boxh ELSE all + 1
          /\ d.end_reached <=> top + d.boxh > all
          /\ d.search => top + d.boxh <= all + 1 \/ top = 0
    BY <1>2, <1>5, <1>7, <1>8, <1>9, <1>11
  <2>q. QED
    BY <1>8, <1>10, <2>1, <2>2, <2>3 DEF Printed
<1>q. QED
  BY <1>2, <1>8, <1>12

(* Going back by the length of the page finds where it starts.             *)
LEMMA PageAgain ==
  ASSUME NEW b, Printed(b), EndsLine(b)
  PROVE  /\ Behind(b, b.page_length, Pager!BackLines(b, b.page_length))
         /\ Pager!BackLines(b, b.page_length).page = b.top
<1> DEFINE t == b.buf
           c == Pager!BackLines(b, b.page_length)
           top == Rank(t, b.top)
           all == Rank(t, Len(t))
<1>1. /\ InText(b) /\ IsContent(t) /\ b.top \in Places(t) /\ b.boxh \in Nat \ {0}
      /\ b.page_length \in Nat /\ (b.end_reached => AtEnd(b))
  BY DEF Printed, InText
<1>2. top \in Nat /\ all \in Nat /\ top <= all
  BY <1>1, RankType, RankLast
<1>3. /\ b.page_length = IF top + b.boxh <= all THEN b.boxh ELSE all + 1 - top
      /\ Spot(b) = IF top + b.boxh <= all THEN top + b.boxh ELSE all + 1
  BY DEF Printed
<1>4. Behind(b, b.page_length, c)
  BY <1>1, LinesBehind
<1>5. /\ InText(c) /\ c.buf = t
      /\ Spot(c) = IF b.page_length <= Spot(b) THEN Spot(b) - b.page_length ELSE 0
  BY <1>4 DEF Behind, SameText
<1> HIDE DEF c
<1>6. Spot(c) = top
  BY <1>1, <1>2, <1>3, <1>5
<1>7. Rank(t, c.page) = top
  BY <1>2, <1>5, <1>6, SpotIsRank
<1>8. c.page = b.top
  BY <1>1, <1>5, <1>7, RankTells DEF InText
<1>q. QED
  BY <1>4, <1>8 DEF c

(* *_vscroll is the number of the line the page starts with.               *)
LEMMA NewlinesBefore ==
  ASSUME NEW b, InText(b)
  PROVE  LET above == {i \in 0..(b.page - 1) : Pager!Newline(b, i)}
         IN  /\ Cardinality(above) \in Nat
             /\ EndsLine(b) => Cardinality(above) = Rank(b.buf, b.page)
<1> DEFINE t == b.buf
           p == b.page
           above == {i \in 0..(p - 1) : Pager!Newline(b, i)}
           lines == {j \in 1..p : t[j]}
           S == {j \in Starts(t) : j < p}
<1>1. p \in 0..Len(t) /\ Len(t) \in Nat \ {0} /\ IsContent(t)
  BY DEF InText, IsContent, Places, Starts
<1>2. \A j \in 1..Len(t) : Pager!Newline(b, j - 1) = t[j]
  BY PagerStarts DEF InText
<1>3. IsFiniteSet(above) /\ Cardinality(above) \in Nat
  <2>1. IsFiniteSet(0..(p - 1)) /\ above \in SUBSET (0..(p - 1))
    <3>1. 0 \in Int /\ p - 1 \in Int
      BY <1>1
    <3>2. IsFiniteSet(0..(p - 1))
      BY <3>1, FS_Interval
    <3>q. QED
      BY <3>2
  <2> HIDE DEF above
  <2>2. IsFiniteSet(above)
    BY <2>1, FS_Subset
  <2>q. QED
    BY <2>2, FS_CardinalityType
<1>4. Cardinality(above) = Cardinality(lines)
  <2> DEFINE f == [i \in above |-> i + 1]
  <2>1. \A i \in above : i \in 0..(p - 1) /\ i + 1 \in lines
    <3>1. SUFFICES ASSUME NEW i \in 0..(p - 1), Pager!Newline(b, i) PROVE i + 1 \in lines
      OBVIOUS
    <3>2. i + 1 \in 1..p /\ i + 1 \in 1..Len(t) /\ (i + 1) - 1 = i
      BY <1>1
    <3>3. t[i + 1]
      BY <3>1 DEF Pager!Newline
    <3>q. QED
      BY <3>2, <3>3
  <2>2. \A j \in lines : j - 1 \in above /\ (j - 1) + 1 = j
    <3>1. SUFFICES ASSUME NEW j \in 1..p, t[j] PROVE j - 1 \in above /\ (j - 1) + 1 = j
      OBVIOUS
    <3>2. j - 1 \in 0..(p - 1) /\ j \in 1..Len(t) /\ (j - 1) + 1 = j
      BY <1>1
    <3>3. Pager!Newline(b, j - 1)
      BY <1>2, <3>1, <3>2
    <3>q. QED
      BY <3>2, <3>3
  <2> HIDE DEF above, lines
  <2>3. f \in [above -> lines]
    BY <2>1
  <2>4. \A x \in above, y \in above : f[x] = f[y] => x = y
    BY <2>1
  <2>5. \A j \in lines : \E i \in above : f[i] = j
    BY <2>2
  <2>6. f \in Bijection(above, lines)
    <3>1. DOMAIN f = above
      OBVIOUS
    <3> HIDE DEF f
    <3>2. IsInjective(f)
      BY <2>4, <3>1 DEF IsInjective
    <3>q. QED
      BY <2>3, <2>5, <3>2 DEF Bijection, Injection, Surjection
  <2>7. ExistsBijection(above, lines)
    BY <2>6 DEF ExistsBijection
  <2>q. QED
    BY <1>3, <2>7, FS_Bijection
<1>5. CASE p = 0
  <2>1. above = {} /\ Rank(t, p) = 0
    BY <1>1, <1>5, RankZero
  <2>q. QED
    BY <2>1, FS_EmptySet
<1>6. CASE p # 0
  <2>1. SUFFICES ASSUME EndsLine(b) PROVE Cardinality(lines) = Rank(t, p)
    BY <1>3, <1>4
  <2>2. p \in 1..Len(t) /\ t[p]
    <3>1. p \in Starts(t) \/ p = Len(t)
      BY DEF InText, Places
    <3>q. QED
      BY <1>1, <1>6, <2>1, <3>1 DEF Starts, EndsLine
  <2>3. lines = (S \cup {p}) \ {0}
    BY <1>1, <2>2 DEF Starts
  <2>4. 0 \in S /\ p \notin S /\ 0 # p
    BY <1>1, <1>6, <2>2 DEF Starts
  <2>5. IsFiniteSet(S) /\ Cardinality(S) \in Nat
    BY <1>1, StartsFinite
  <2> HIDE DEF S, lines
  <2>6. IsFiniteSet(S \cup {p}) /\ Cardinality(S \cup {p}) = Cardinality(S) + 1
    BY <2>4, <2>5, FS_AddElement
  <2>7. Cardinality((S \cup {p}) \ {0}) = Cardinality(S \cup {p}) - 1
    BY <2>4, <2>6, FS_RemoveElement
  <2>q. QED
    BY <2>3, <2>5, <2>6, <2>7 DEF Rank, S
<1>q. QED
  BY <1>5, <1>6

(* Between two openings of a search, *_vscroll says where the page was.    *)
Left(b) ==
  /\ InText(b) /\ b.boxh \in Nat \ {0} /\ b.vscroll \in Nat
  /\ EndsLine(b) =>
       /\ b.top \in Places(b.buf) /\ b.vscroll = Rank(b.buf, b.top)
       /\ b.search => \/ Rank(b.buf, b.top) + b.boxh <= Rank(b.buf, Len(b.buf)) + 1
                      \/ Rank(b.buf, b.top) = 0

PagerInv ==
  \/ pager.open /\ Printed(pager)
  \/ ~pager.open /\ Left(pager)
  \/ pager = Pager!Closed

LEMMA PagerClosed ==
  /\ IsPager(Pager!Closed) /\ ~Pager!Closed.open /\ Pager!Closed.res = 0
BY DEF Pager!Closed, IsPager, PagerFields

(* Every key that moves the page has it printed again.                     *)
LEMMA Reprints ==
  ASSUME JumpNb \in Nat \ {0}, NEW b, Ready(b), b.open, Pager!Reprint(b)
  PROVE  /\ PagerInv' /\ pager'.open /\ pager'.hscroll = b.hscroll
         /\ EndsLine(b) /\ (b.search => Fits(b)) => pager'.top = b.page
<1>1. pager' = Pager!PrintPage(b)
  BY DEF Pager!Reprint
<1>2. /\ Printed(pager') /\ pager'.open = b.open /\ pager'.hscroll = b.hscroll
      /\ EndsLine(b) /\ (b.search => Fits(b)) => pager'.top = b.page
  BY <1>1, Prints
<1>3. Printed(pager)' <=> Printed(pager')
  BY DEF Printed, InText, IsPager, PagerFields, AtEnd, EndsLine, Spot, KeysLead
<1>q. QED
  BY <1>2, <1>3 DEF PagerInv

LEMMA BehindReady ==
  ASSUME NEW a, InText(a), a.boxh \in Nat \ {0}, DOMAIN a.label = Starts(a.buf),
         a.end_reached => AtEnd(a), NEW n \in Nat
  PROVE  Ready(Pager!BackLines(a, n)) /\ SameText(a, Pager!BackLines(a, n))
<1>1. Behind(a, n, Pager!BackLines(a, n))
  BY LinesBehind
<1>q. QED
  BY <1>1 DEF Behind, Ready, SameText, Ends

(* dialog_textbox() starts at line vscroll.                                *)
LEMMA Entered ==
  ASSUME NEW b, IsPager(b), IsContent(b.buf), b.boxh \in Nat \ {0}, NEW lines \in Nat
  PROVE  LET c == Pager!Enter(b, lines)
         IN  /\ Ready(c) /\ c.open /\ c.buf = b.buf /\ c.boxh = b.boxh /\ c.search = b.search
             /\ c.hscroll = b.hscroll
             /\ EndsLine(b) /\ lines < Rank(b.buf, Len(b.buf)) => Rank(b.buf, c.page) = lines
             /\ EndsLine(b) /\ lines >= Rank(b.buf, Len(b.buf)) => AtEnd(c)
<1> DEFINE t == b.buf
           first == [b EXCEPT !.open = TRUE, !.page = 0, !.begin_reached = (lines = 0),
                              !.end_reached = FALSE, !.res = 0, !.targets = {},
                              !.label = [i \in Starts(t) |-> 0]]
           c == Pager!GetLines(first, lines)
           all == Rank(t, Len(t))
<1>1. Pager!Enter(b, lines) = c
  BY PagerStarts DEF Pager!Enter
<1>2. 0 \in Places(t)
  BY PagerStarts
<1>3. /\ InText(first) /\ first.open /\ first.buf = t /\ first.boxh = b.boxh
      /\ first.search = b.search /\ first.hscroll = b.hscroll /\ first.page = 0
      /\ (first.begin_reached <=> lines = 0) /\ ~first.end_reached
      /\ first.label = [i \in Starts(t) |-> 0]
  BY <1>2 DEF InText, IsPager, PagerFields
<1>4. DOMAIN first.label = Starts(t)
  BY <1>3
<1> HIDE DEF first
<1>5. Ahead(first, lines, c)
  BY <1>3, LinesAhead
<1> HIDE DEF c
<1>6. Rank(t, 0) = 0 /\ all \in Nat
  BY RankZero, RankType
<1>7. InText(c) /\ SameText(first, c) /\ c.begin_reached = first.begin_reached
  BY <1>5 DEF Ahead
<1>8. c.begin_reached => c.page = 0
  BY <1>3, <1>5, <1>7 DEF Ahead
<1>9. /\ Ready(c) /\ c.open /\ c.buf = t /\ c.boxh = b.boxh /\ c.search = b.search
      /\ c.hscroll = b.hscroll
  BY <1>3, <1>4, <1>7, <1>8 DEF Ready, SameText
<1>10. EndsLine(b) => IF AtEnd(c) THEN lines >= all ELSE Rank(t, c.page) = lines
  <2>1. IF AtEnd(c) THEN 0 + lines >= all ELSE Rank(t, c.page) = 0 + lines
    BY <1>3, <1>5, <1>6 DEF Ahead
  <2>q. QED
    BY <2>1
<1>11. AtEnd(c) => Rank(t, c.page) = all
  BY <1>9 DEF AtEnd
<1>12. ~AtEnd(c) => Rank(t, c.page) < all
  <2>1. c.page \in Places(t) /\ IsContent(t)
    BY <1>7, <1>9 DEF InText
  <2>2. Rank(t, c.page) <= all /\ (Rank(t, c.page) = all => c.page = Len(t)) /\ Rank(t, c.page) \in Nat
    BY <2>1, RankLast, RankType
  <2>q. QED
    BY <1>6, <1>9, <2>2 DEF AtEnd
<1>13. EndsLine(b) /\ lines < all => Rank(t, c.page) = lines
  BY <1>6, <1>10
<1>14. EndsLine(b) /\ lines >= all => AtEnd(c)
  BY <1>6, <1>10, <1>12
<1>q. QED
  BY <1>1, <1>9, <1>13, <1>14

LEMMA KeysKeep ==
  ASSUME PagerSizes, PagerInv, pager.open,
         \/ Pager!Home \/ Pager!End \/ Pager!LineDown \/ Pager!PageDown
         \/ \E n \in {1, pager.boxh} : Pager!Back(n)
         \/ \E boxh \in BoxHeights, border \in Borders : Pager!Resize(boxh, border)
  PROVE  PagerInv' /\ pager'.open /\ pager'.hscroll = pager.hscroll
<1>1. Printed(pager) /\ JumpNb \in Nat \ {0}
  BY PagerClosed DEF PagerInv, PagerSizes
<1>2. /\ InText(pager) /\ pager.boxh \in Nat \ {0} /\ DOMAIN pager.label = Starts(pager.buf)
      /\ pager.page_length \in Nat \ {0} /\ (pager.end_reached => AtEnd(pager))
      /\ 0 \in Places(pager.buf) /\ Len(pager.buf) \in Places(pager.buf)
  <2>1. InText(pager) /\ pager.boxh \in Nat \ {0} /\ DOMAIN pager.label = Starts(pager.buf)
        /\ pager.page_length \in 1..pager.boxh /\ (pager.end_reached => AtEnd(pager))
    BY <1>1 DEF Printed
  <2>2. 0 \in Places(pager.buf) /\ Len(pager.buf) \in Places(pager.buf)
    BY DEF Places, Starts
  <2>q. QED
    BY <2>1, <2>2
<1>3. ASSUME NEW n \in Nat, Pager!Reprint(Pager!BackLines(pager, n))
      PROVE  PagerInv' /\ pager'.open /\ pager'.hscroll = pager.hscroll
  <2>1. Ready(Pager!BackLines(pager, n)) /\ SameText(pager, Pager!BackLines(pager, n))
    BY <1>2, BehindReady
  <2>q. QED
    BY <1>1, <1>3, <2>1, Reprints DEF SameText
<1>4. CASE Pager!Home
  <2> DEFINE b == [pager EXCEPT !.begin_reached = TRUE, !.page = 0]
  <2>1. Pager!Reprint(b)
    BY <1>4 DEF Pager!Home
  <2>2. Ready(b) /\ b.open = pager.open /\ b.hscroll = pager.hscroll
    BY <1>2 DEF Ready, InText, IsPager, PagerFields
  <2> HIDE DEF b
  <2>q. QED
    BY <1>1, <2>1, <2>2, Reprints
<1>5. CASE Pager!End
  <2> DEFINE a == [pager EXCEPT !.end_reached = TRUE, !.page = Len(pager.buf)]
             b == Pager!BackLines(a, pager.boxh)
  <2>1. Pager!Reprint(b)
    BY <1>5 DEF Pager!End, Pager!EndOf
  <2>2. /\ InText(a) /\ a.boxh = pager.boxh /\ a.label = pager.label /\ a.buf = pager.buf
        /\ AtEnd(a) /\ a.open = pager.open /\ a.hscroll = pager.hscroll
    BY <1>2 DEF InText, IsPager, PagerFields, AtEnd
  <2> HIDE DEF a
  <2>3. Ready(b) /\ SameText(a, b)
    BY <1>2, <2>2, BehindReady
  <2> HIDE DEF b
  <2>q. QED
    BY <1>1, <2>1, <2>2, <2>3, Reprints DEF SameText
<1>6. CASE Pager!LineDown
  <2>1. pager.page_length - 1 \in Nat
    BY <1>2
  <2>q. QED
    BY <1>3, <1>6, <2>1 DEF Pager!LineDown
<1>7. CASE Pager!PageDown
  <2> DEFINE b == [pager EXCEPT !.begin_reached = FALSE]
  <2>1. Pager!Reprint(b)
    BY <1>7 DEF Pager!PageDown
  <2>2. Ready(b) /\ b.open = pager.open /\ b.hscroll = pager.hscroll
    BY <1>2 DEF Ready, InText, IsPager, PagerFields
  <2> HIDE DEF b
  <2>q. QED
    BY <1>1, <2>1, <2>2, Reprints
<1>8. ASSUME NEW n \in {1, pager.boxh}, Pager!Back(n)
      PROVE  PagerInv' /\ pager'.open /\ pager'.hscroll = pager.hscroll
  <2>1. pager.page_length + n \in Nat
    BY <1>2
  <2>q. QED
    BY <1>3, <1>8, <2>1 DEF Pager!Back
<1>9. ASSUME NEW boxh \in BoxHeights, NEW border \in Borders, Pager!Resize(boxh, border)
      PROVE  PagerInv' /\ pager'.open /\ pager'.hscroll = pager.hscroll
  <2>1. pager.boxh + border \in Nat /\ boxh \in Nat \ {0}
    BY <1>2 DEF PagerSizes
  <2> DEFINE c == Pager!BackLines(pager, pager.boxh + border)
             b == [c EXCEPT !.boxh = boxh]
  <2>2. Pager!Reprint(b)
    BY <1>9 DEF Pager!Resize
  <2>3. Ready(c) /\ SameText(pager, c)
    BY <1>2, <2>1, BehindReady
  <2> HIDE DEF c
  <2>4. Ready(b) /\ b.open = pager.open /\ b.hscroll = pager.hscroll
    BY <2>1, <2>3 DEF Ready, InText, IsPager, PagerFields, SameText
  <2> HIDE DEF b
  <2>q. QED
    BY <1>1, <2>2, <2>4, Reprints
<1>q. QED
  BY <1>4, <1>5, <1>6, <1>7, <1>8, <1>9

LEMMA SidewaysSame ==
  ASSUME PagerSizes, PagerInv, NEW to, Pager!Sideways(to)
  PROVE  PagerInv' /\ pager'.open /\ (EndsLine(pager) => pager'.top = pager.top)
<1> DEFINE a == [pager EXCEPT !.hscroll = to]
           c == Pager!BackLines(a, pager.page_length)
<1>1. pager.open /\ Pager!Reprint(c)
  BY DEF Pager!Sideways
<1>2. Printed(pager) /\ JumpNb \in Nat \ {0}
  BY <1>1, PagerClosed DEF PagerInv, PagerSizes
<1>3. /\ IsPager(a) /\ a.open /\ a.buf = pager.buf /\ a.boxh = pager.boxh /\ a.page = pager.page
      /\ a.begin_reached = pager.begin_reached /\ a.end_reached = pager.end_reached
      /\ a.page_length = pager.page_length /\ a.top = pager.top /\ a.search = pager.search
      /\ a.label = pager.label /\ a.targets = pager.targets
  BY <1>1, <1>2 DEF Printed, InText, IsPager, PagerFields
<1> HIDE DEF a
<1>4. Printed(a)
  BY <1>2, <1>3 DEF Printed, InText, AtEnd, EndsLine, Spot, KeysLead
<1>5. /\ InText(a) /\ a.boxh \in Nat \ {0} /\ DOMAIN a.label = Starts(a.buf)
      /\ (a.end_reached => AtEnd(a)) /\ a.page_length \in Nat
  BY <1>4 DEF Printed
<1>6. Ready(c) /\ SameText(a, c)
  BY <1>3, <1>5, BehindReady
<1>7. EndsLine(a) => c.page = a.top
  BY <1>3, <1>4, PageAgain
<1> HIDE DEF c
<1>8. EndsLine(a) /\ c.search => Fits(c)
  <2>1. EndsLine(a) /\ a.search => \/ Rank(a.buf, a.top) + a.boxh <= Rank(a.buf, Len(a.buf)) + 1
                                   \/ Rank(a.buf, a.top) = 0
    BY <1>4 DEF Printed
  <2>q. QED
    BY <1>6, <1>7, <2>1 DEF Fits, SameText
<1>9. (EndsLine(c) <=> EndsLine(pager)) /\ (EndsLine(a) <=> EndsLine(pager)) /\ c.open
  BY <1>3, <1>6 DEF EndsLine, SameText
<1>q. QED
  BY <1>1, <1>2, <1>3, <1>6, <1>7, <1>8, <1>9, Reprints

(* A key of a search leaves the box, and it is opened again at the page.   *)
LEMMA JumpLeaves ==
  ASSUME PagerSizes, PagerInv, NEW key, Pager!Jump(key)
  PROVE  PagerInv' /\ ~pager'.open
<1> DEFINE c == Pager!BackLines(pager, pager.page_length)
           above == Pager!LinesAbove(pager)
           b == [c EXCEPT !.open = FALSE, !.res = key, !.vscroll = above]
<1>1. pager.open /\ pager' = b
  BY DEF Pager!Jump
<1>2. Printed(pager)
  BY <1>1, PagerClosed DEF PagerInv
<1>3. /\ InText(pager) /\ (pager.end_reached => AtEnd(pager))
      /\ pager.page_length \in Nat /\ pager.boxh \in Nat \ {0}
  BY <1>2 DEF Printed
<1>4. InText(c) /\ SameText(pager, c)
  BY <1>3, LinesBehind DEF Behind
<1>5. EndsLine(pager) => c.page = pager.top
  BY <1>2, PageAgain
<1>6. above \in Nat /\ (EndsLine(c) => above = Rank(c.buf, c.page))
  <2>1. above = Cardinality({i \in 0..(c.page - 1) : Pager!Newline(c, i)})
    BY PagerCount DEF Pager!LinesAbove
  <2> HIDE DEF c, above
  <2>q. QED
    BY <1>4, <2>1, NewlinesBefore
<1> HIDE DEF c, above
<1>7. /\ InText(b) /\ ~b.open /\ b.buf = pager.buf /\ b.boxh = pager.boxh /\ b.search = pager.search
      /\ b.top = pager.top /\ b.vscroll = above
  BY <1>4 DEF InText, IsPager, PagerFields, SameText
<1> HIDE DEF b
<1>8. (EndsLine(b) <=> EndsLine(pager)) /\ (EndsLine(c) <=> EndsLine(pager)) /\ c.buf = pager.buf
  BY <1>4, <1>7 DEF EndsLine, SameText
<1>9. EndsLine(pager) =>
        /\ pager.top \in Places(pager.buf)
        /\ pager.search => \/ Rank(pager.buf, pager.top) + pager.boxh <= Rank(pager.buf, Len(pager.buf)) + 1
                           \/ Rank(pager.buf, pager.top) = 0
  BY <1>2 DEF Printed
<1>10. Left(b)
  BY <1>3, <1>5, <1>6, <1>7, <1>8, <1>9 DEF Left
<1>11. Left(pager)' <=> Left(pager')
  BY DEF Left, InText, IsPager, PagerFields, EndsLine
<1>q. QED
  BY <1>1, <1>7, <1>10, <1>11 DEF PagerInv

LEMMA ReopenSame ==
  ASSUME PagerSizes, PagerInv, Pager!Reopen
  PROVE  PagerInv' /\ pager'.open /\ (EndsLine(pager) => pager'.top = pager.top)
<1> DEFINE t == pager.buf
           b == Pager!Enter(pager, pager.vscroll)
           all == Rank(t, Len(t))
<1>1. ~pager.open /\ pager.res # 0 /\ Pager!Reprint(b) /\ JumpNb \in Nat \ {0}
  BY DEF Pager!Reopen, PagerSizes
<1>2. Left(pager)
  BY <1>1, PagerClosed DEF PagerInv
<1>3. IsPager(pager) /\ IsContent(t) /\ pager.boxh \in Nat \ {0} /\ pager.vscroll \in Nat
  BY <1>2 DEF Left, InText
<1>4. /\ Ready(b) /\ b.open /\ b.buf = t /\ b.boxh = pager.boxh /\ b.search = pager.search
      /\ EndsLine(pager) /\ pager.vscroll < all => Rank(t, b.page) = pager.vscroll
      /\ EndsLine(pager) /\ pager.vscroll >= all => AtEnd(b)
  BY <1>3, Entered
<1> HIDE DEF b
<1>5. ASSUME EndsLine(pager) PROVE b.page = pager.top /\ (b.search => Fits(b)) /\ EndsLine(b)
  <2>1. pager.top \in Places(t) /\ pager.vscroll = Rank(t, pager.top)
    BY <1>2, <1>5 DEF Left
  <2>2. Rank(t, pager.top) <= all /\ (Rank(t, pager.top) = all => pager.top = Len(t)) /\ all \in Nat
    BY <1>3, <2>1, RankLast, RankType
  <2>3. b.page = pager.top
    <3>1. CASE pager.vscroll < all
      <4>1. b.page \in Places(t) /\ Rank(t, b.page) = Rank(t, pager.top)
        BY <1>4, <1>5, <2>1, <3>1 DEF Ready, InText
      <4>q. QED
        BY <1>3, <2>1, <4>1, RankTells
    <3>2. CASE ~(pager.vscroll < all)
      <4>1. pager.vscroll = all
        BY <1>3, <2>1, <2>2, <3>2
      <4>2. b.page = Len(t) /\ pager.top = Len(t)
        BY <1>4, <1>5, <2>1, <2>2, <4>1 DEF AtEnd
      <4>q. QED
        BY <4>2
    <3>q. QED
      BY <3>1, <3>2
  <2>4. b.search => Fits(b)
    BY <1>2, <1>4, <1>5, <2>3 DEF Left, Fits
  <2>q. QED
    BY <1>4, <1>5, <2>3, <2>4 DEF EndsLine
<1>q. QED
  BY <1>1, <1>4, <1>5, Reprints

LEMMA PagerOpens ==
  ASSUME PagerSizes, PagerInv,
         NEW buf \in Contents, NEW boxh \in BoxHeights, NEW search \in BOOLEAN,
         Pager!Open(buf, boxh, search)
  PROVE  PagerInv' /\ pager.res = 0
<1> DEFINE a == [Pager!Closed EXCEPT !.buf = buf, !.boxh = boxh, !.search = search]
           b == Pager!Enter(a, 0)
<1>1. pager = Pager!Closed /\ Pager!Reprint(b) /\ JumpNb \in Nat \ {0}
  BY DEF Pager!Open, PagerSizes
<1>2. IsPager(a) /\ IsContent(a.buf) /\ a.boxh \in Nat \ {0}
  BY PagerClosed DEF IsPager, PagerFields, PagerSizes
<1> HIDE DEF a
<1>3. Ready(b) /\ b.open
  BY <1>2, Entered
<1> HIDE DEF b
<1>q. QED
  BY <1>1, <1>3, PagerClosed, Reprints

LEMMA PagerStepKeeps ==
  ASSUME PagerSizes, PagerInv, [Pager!Next]_pager
  PROVE  /\ PagerInv'
         /\ EndsLine(pager) /\ \/ pager.open /\ pager'.open /\ pager'.hscroll # pager.hscroll
                               \/ ~pager.open /\ pager'.open /\ pager.res # 0
            => pager'.top = pager.top
<1>1. CASE UNCHANGED pager
  BY <1>1 DEF PagerInv, Printed, Left, InText, IsPager, PagerFields, AtEnd, EndsLine, Spot, KeysLead
<1>2. CASE Pager!Home \/ Pager!End \/ Pager!LineDown \/ Pager!PageDown
  BY <1>2, KeysKeep DEF Pager!Home, Pager!End, Pager!LineDown, Pager!PageDown
<1>3. CASE pager.open /\ \E n \in {1, pager.boxh} : Pager!Back(n)
  BY <1>3, KeysKeep
<1>4. CASE \E boxh \in BoxHeights, border \in Borders : Pager!Resize(boxh, border)
  BY <1>4, KeysKeep DEF Pager!Resize
<1>5. CASE \E to : Pager!Sideways(to)
  BY <1>5, SidewaysSame DEF Pager!Sideways
<1>6. CASE Pager!Exit
  BY <1>6, PagerClosed DEF Pager!Exit, PagerInv
<1>7. CASE \E key \in 1..JumpNb : Pager!Jump(key)
  BY <1>7, JumpLeaves
<1>8. CASE Pager!Reopen
  BY <1>8, ReopenSame DEF Pager!Reopen
<1>9. CASE \E buf \in Contents, boxh \in BoxHeights, search \in BOOLEAN : Pager!Open(buf, boxh, search)
  BY <1>9, PagerOpens, PagerClosed DEF Pager!Open
<1>q. QED
  BY <1>1, <1>2, <1>3, <1>4, <1>5, <1>6, <1>7, <1>8, <1>9 DEF Pager!Next

LEMMA PagerStarted == Pager!Init => PagerInv
BY DEF Pager!Init, PagerInv

(* Nothing but `page' says where the printed page of dialog_textbox() is:  *)
(* for every text that ends with a newline, going back by page_length      *)
(* finds its start, and begin_reached and end_reached say whether the text *)
(* starts and ends on it (textbox.c:280-394).                              *)
THEOREM PagesFound == PagerSizes => (Pager!Spec => []Pager!PageFound)
<1> SUFFICES ASSUME PagerSizes PROVE Pager!Spec => []Pager!PageFound
  OBVIOUS
<1>1. PagerInv => Pager!PageFound
  <2>1. SUFFICES ASSUME PagerInv, pager.open, pager.buf[Len(pager.buf)] PROVE Pager!Paged
    BY DEF Pager!PageFound
  <2> DEFINE t == pager.buf
             lines == {i \in Starts(t) : pager.top <= i}
             before == {j \in Starts(t) : j < pager.top}
  <2>2. Printed(pager) /\ EndsLine(pager)
    BY <2>1, PagerClosed DEF PagerInv, EndsLine
  <2>3. /\ IsContent(t) /\ Len(t) \in Nat \ {0} /\ Starts(t) \subseteq 0..Len(t) /\ Places(t) = Starts(t)
        /\ pager.top \in Starts(t) /\ Len(t) \in Starts(t) /\ InText(pager)
    BY <2>1, <2>2 DEF Printed, InText, IsContent, Starts, Places
  <2>4. Pager!LineStarts(pager) = Starts(t)
    BY <2>3, PagerStarts
  <2>5. Rank(t, Len(t)) \in Nat /\ Rank(t, pager.top) \in Nat /\ pager.boxh \in Nat
    BY <2>2, <2>3, RankType DEF Printed
  <2>6. Cardinality(lines) = Rank(t, Len(t)) + 1 - Rank(t, pager.top)
    <3>1. /\ IsFiniteSet(Starts(t)) /\ IsFiniteSet(before)
          /\ Cardinality(before) \in Nat /\ Cardinality(Starts(t)) \in Nat
      BY <2>3, StartsFinite
    <3>2. lines = Starts(t) \ before /\ Starts(t) \cap before = before
      BY <2>3
    <3>3. Cardinality(lines) = Cardinality(Starts(t)) - Cardinality(before)
      <4> HIDE DEF lines, before
      <4>1. Cardinality(Starts(t) \ before) = Cardinality(Starts(t)) - Cardinality(Starts(t) \cap before)
        BY <3>1, FS_Difference
      <4>q. QED
        BY <3>2, <4>1
    <3>4. Cardinality(Starts(t)) = Rank(t, Len(t)) + 1
      <4> DEFINE S == {j \in Starts(t) : j < Len(t)}
      <4>1. Starts(t) = S \cup {Len(t)} /\ Len(t) \notin S /\ IsFiniteSet(S)
        BY <2>3, StartsFinite
      <4> HIDE DEF S
      <4>2. Cardinality(S \cup {Len(t)}) = Cardinality(S) + 1
        BY <4>1, FS_AddElement
      <4>q. QED
        BY <4>1, <4>2 DEF Rank, S
    <3>5. Rank(t, pager.top) = Cardinality(before)
      BY DEF Rank
    <3> HIDE DEF lines, before
    <3>q. QED
      BY <2>5, <3>1, <3>3, <3>4, <3>5
  <2>7. pager.end_reached <=> Rank(t, pager.top) + pager.boxh > Rank(t, Len(t))
    BY <2>2 DEF Printed
  <2>8. pager.end_reached <=> Cardinality(lines) <= pager.boxh
    BY <2>5, <2>6, <2>7
  <2>9. Pager!Cardinality(Pager!Lines(pager)) = Cardinality(lines)
    BY <2>4, PagerCount DEF Pager!Lines
  <2>10. Pager!BackLines(pager, pager.page_length).page = pager.top
    BY <2>2, PageAgain
  <2>11. pager.begin_reached => pager.top = 0
    BY <2>2 DEF Printed
  <2>q. QED
    BY <2>3, <2>4, <2>8, <2>9, <2>10, <2>11 DEF Pager!Paged
<1>q. QED
  BY <1>1, PagerStarted, PagerStepKeeps, PTL DEF Pager!Spec

(* Scrolling sideways and coming back from a jump show the page that was   *)
(* there, whatever update_text() has moved up before (textbox.c:56-79,     *)
(* 212-273; mconf.c:440-455).                                              *)
THEOREM PagesKept == PagerSizes => (Pager!Spec => Pager!PageKept)
<1> SUFFICES ASSUME PagerSizes PROVE Pager!Spec => Pager!PageKept
  OBVIOUS
<1>1. PagerInv /\ [Pager!Next]_pager =>
        [/\ pager.buf[Len(pager.buf)]
         /\ \/ pager.open /\ pager'.open /\ pager'.hscroll # pager.hscroll
            \/ ~pager.open /\ pager'.open /\ pager.res # 0
         => pager'.top = pager.top]_pager
  BY PagerStepKeeps DEF EndsLine
<1>q. QED
  BY <1>1, PagerStarted, PagerStepKeeps, PTL DEF Pager!Spec, Pager!PageKept

(* A key update_text() has written on the page shown jumps to the result   *)
(* it stands at and to no other, for every text (mconf.c:360-385).          *)
THEOREM KeysLeadOn == PagerSizes => (Pager!Spec => []Pager!KeysJump)
<1> SUFFICES ASSUME PagerSizes PROVE Pager!Spec => []Pager!KeysJump
  OBVIOUS
<1>1. PagerInv => Pager!KeysJump
  <2>1. SUFFICES ASSUME PagerInv, pager.open, pager.search, NEW i \in DOMAIN pager.label,
                        i \in pager.top..(pager.page - 1), pager.label[i] # 0,
                        NEW j \in Pager!LineStarts(pager)
                 PROVE  <<pager.label[i], j>> \in pager.targets <=> i = j
    BY DEF Pager!KeysJump
  <2>2. Printed(pager)
    BY <2>1, PagerClosed DEF PagerInv
  <2>3. /\ DOMAIN pager.label = Starts(pager.buf) /\ KeysLead(pager, pager.top, pager.page)
        /\ InText(pager) /\ pager.top \in Places(pager.buf)
    BY <2>1, <2>2 DEF Printed
  <2>4. Pager!LineStarts(pager) = Starts(pager.buf)
    BY <2>3, PagerStarts DEF InText
  <2>5. pager.top <= i /\ i < pager.page
    BY <2>1, <2>3 DEF InText, IsContent, Places, Starts
  <2>q. QED
    BY <2>1, <2>3, <2>4, <2>5 DEF KeysLead
<1>q. QED
  BY <1>1, PagerStarted, PagerStepKeeps, PTL DEF Pager!Spec
-----------------------------------------------------------------------------
(* print_autowrap() and dialog_clear().                                    *)

Words == [len : Nat, sep : DOMAIN Gap]
DrawSizes ==
  /\ Indent \in Nat /\ Border \in Nat /\ Ellipsis \in Nat /\ Columns \subseteq Int
  /\ Widths \subseteq Nat /\ \A w \in Widths : w + Border # 0
  /\ Prompts \subseteq Seq(Words) /\ Trails \subseteq Seq(Nat)

PromptFields == {"what", "words", "width", "at", "x", "y", "newl", "placed"}
Placed == [y : Nat, x : Nat, len : Nat]

(* Cells in the order a window has them. *)
Cell(d, y, x) == y * (d.width + Border) + x
EndCell(d, p) == Cell(d, p.y, p.x) + p.len

(* A word is in its line, and behind the one before. *)
Apart(d) ==
  \A k \in 1..Len(d.placed) :
    /\ d.placed[k].len <= d.width - Indent => d.placed[k].x + d.placed[k].len <= d.width
    /\ k > 1 => Cell(d, d.placed[k].y, d.placed[k].x) > EndCell(d, d.placed[k - 1])

(* The next place, in this line or in the next, is behind the last word. *)
Behindhand(d) ==
  Len(d.placed) > 0 =>
    LET end == EndCell(d, d.placed[Len(d.placed)])
    IN  Cell(d, d.y, d.x) > end /\ Cell(d, d.y + 1, Indent) > end

WrapInv ==
  /\ drawn = [f \in PromptFields |-> drawn[f]] /\ drawn.what = "prompt"
  /\ drawn.words \in Seq(Words) /\ drawn.width \in Nat /\ drawn.width + Border \in Nat \ {0}
  /\ drawn.at \in Nat \ {0} /\ drawn.x \in Nat /\ drawn.y \in Nat
  /\ drawn.placed \in Seq(Placed) /\ Apart(drawn) /\ Behindhand(drawn)

(* Printing n characters moves the cursor n cells on. *)
LEMMA AfterWordIs ==
  ASSUME NEW y \in Nat, NEW x \in Nat, NEW len \in Nat, NEW win \in Nat \ {0}
  PROVE  LET e == AfterWord(y, x, len, win)
         IN  /\ e.y \in Nat /\ e.x \in Nat /\ e.x < win
             /\ e.y * win + e.x = y * win + x + len
<1> DEFINE n == x + len
<1>1. n \in Nat
  OBVIOUS
<1>2. n \div win \in Nat /\ n % win \in 0..(win - 1) /\ n = (n \div win) * win + (n % win)
  <2> HIDE DEF n
  <2>q. QED
    BY <1>1, Z3
<1> DEFINE q == n \div win
           m == n % win
<1>3. q \in Nat /\ m \in Nat /\ m < win /\ n = q * win + m
  <2> HIDE DEF n
  <2>q. QED
    BY <1>2
<1>4. AfterWord(y, x, len, win) = [y |-> y + q, x |-> m]
  BY DEF AfterWord
<1> HIDE DEF q, m
<1>5. (y + q) * win = y * win + q * win /\ y * win \in Nat /\ q * win \in Nat
  BY <1>3, Z3
<1>6. (y + q) * win + m = y * win + x + len
  <2> DEFINE a == y * win
             b == q * win
             c == (y + q) * win
  <2>1. c = a + b /\ a \in Nat /\ b \in Nat /\ x + len = b + m
    BY <1>3, <1>5
  <2> HIDE DEF a, b, c
  <2>2. c + m = a + x + len
    BY <2>1, <1>3
  <2>q. QED
    BY <2>2 DEF a, c
<1>q. QED
  BY <1>3, <1>4, <1>6

LEMMA ConcatIs ==
  ASSUME NEW S, NEW s \in Seq(S), NEW t \in Seq(S), NEW m, NEW n, Len(s) = m, Len(t) = n
  PROVE  /\ m \in Nat /\ n \in Nat /\ s \o t \in Seq(S) /\ Len(s \o t) = m + n
         /\ \A j \in 1..m : (s \o t)[j] = s[j]
         /\ \A j \in 1..n : (s \o t)[m + j] = t[j]
OBVIOUS

LEMMA OneMoreIs ==
  ASSUME NEW S, NEW s \in Seq(S), NEW e \in S, NEW n, Len(s) = n
  PROVE  /\ n \in Nat /\ s \o <<e>> \in Seq(S) /\ Len(s \o <<e>>) = n + 1
         /\ \A j \in 1..n : (s \o <<e>>)[j] = s[j]
         /\ (s \o <<e>>)[n + 1] = e
         /\ Append(s, e) = s \o <<e>>
OBVIOUS

LEMMA PartIs ==
  ASSUME NEW S, NEW s \in Seq(S), NEW i \in Nat, NEW k \in Nat, i <= k, k <= Len(s)
  PROVE  /\ SubSeq(s, i + 1, k) \in Seq(S) /\ Len(SubSeq(s, i + 1, k)) = k - i
         /\ \A j \in 1..(k - i) : SubSeq(s, i + 1, k)[j] = s[i + j]
OBVIOUS

LEMMA WrapStarts == ASSUME DrawSizes, WrapInit PROVE WrapInv
<1>1. PICK prompt \in Prompts, width \in Widths :
        drawn = [what |-> "prompt", words |-> prompt, width |-> width, at |-> 1, x |-> Indent, y |-> 0,
                 newl |-> TRUE, placed |-> <<>>]
  BY DEF WrapInit
<1>2. prompt \in Seq(Words) /\ width \in Nat /\ width + Border \in Nat \ {0} /\ Indent \in Nat
  BY DEF DrawSizes
<1>3. drawn.placed = <<>> /\ drawn.placed \in Seq(Placed) /\ Len(drawn.placed) = 0
  BY <1>1
<1>4. Apart(drawn) /\ Behindhand(drawn)
  BY <1>3 DEF Apart, Behindhand
<1>q. QED
  BY <1>1, <1>2, <1>3, <1>4 DEF WrapInv, PromptFields

(* A word put at a place behind the last, within its line if it can be.    *)
Put(y, x, len) ==
  /\ len <= drawn.width - Indent => x + len <= drawn.width
  /\ Len(drawn.placed) > 0 => Cell(drawn, y, x) > EndCell(drawn, drawn.placed[Len(drawn.placed)])
  /\ drawn' = [f \in PromptFields |-> drawn'[f]] /\ drawn'.what = "prompt"
  /\ drawn'.words = drawn.words /\ drawn'.width = drawn.width /\ drawn'.at = drawn.at + 1
  /\ drawn'.placed = Append(drawn.placed, [y |-> y, x |-> x, len |-> len])

LEMMA WordPlaced ==
  ASSUME DrawSizes, WrapInv, NEW y \in Nat, NEW x \in Nat, NEW len \in Nat, Put(y, x, len),
         NEW a \in Nat, NEW b \in Nat, b < drawn.width + Border,
         Cell(drawn, a, b) = Cell(drawn, y, x) + len,
         \/ drawn'.y = a + 1 /\ drawn'.x = Indent
         \/ drawn'.y = a /\ drawn'.x \in {b + 1, b + 2}
  PROVE  WrapInv'
<1> DEFINE p == [y |-> y, x |-> x, len |-> len]
           n == Len(drawn.placed)
           all == drawn'.placed
<1>1. /\ drawn.words \in Seq(Words) /\ drawn.width \in Nat /\ drawn.at \in Nat \ {0}
      /\ drawn.placed \in Seq(Placed) /\ n \in Nat /\ Indent \in Nat /\ p \in Placed
      /\ drawn.width + Border \in Nat \ {0}
  BY DEF WrapInv, DrawSizes, Placed
<1>2. PICK win \in Nat \ {0} : win = drawn.width + Border
  BY <1>1
<1>3. \A v, u : Cell(drawn', v, u) = v * win + u /\ Cell(drawn, v, u) = v * win + u
  BY <1>2 DEF Cell, Put
<1>4. \A q : EndCell(drawn', q) = EndCell(drawn, q)
  BY <1>3 DEF EndCell
<1>5. /\ all \in Seq(Placed) /\ Len(all) = n + 1 /\ all[n + 1] = p
      /\ \A k \in 1..n : all[k] = drawn.placed[k]
  <2>1. all = Append(drawn.placed, p)
    BY DEF Put
  <2> HIDE DEF p, all
  <2>q. QED
    BY <1>1, <2>1, OneMoreIs
<1>6. p.y = y /\ p.x = x /\ p.len = len
  OBVIOUS
<1> HIDE DEF p
<1>7. Apart(drawn')
  <2>1. ASSUME NEW k \in 1..(n + 1)
        PROVE  /\ all[k].len <= drawn'.width - Indent => all[k].x + all[k].len <= drawn'.width
               /\ k > 1 => Cell(drawn', all[k].y, all[k].x) > EndCell(drawn', all[k - 1])
    <3> HIDE DEF n, all
    <3>1. CASE k = n + 1
      <4>1. all[k] = p
        BY <1>5, <3>1
      <4>2. k > 1 => n > 0 /\ k - 1 = n /\ n \in 1..n
        BY <1>1, <3>1
      <4>3. k > 1 => all[k - 1] = drawn.placed[n]
        BY <1>5, <4>2
      <4>4. /\ len <= drawn.width - Indent => x + len <= drawn.width
            /\ n > 0 => Cell(drawn, y, x) > EndCell(drawn, drawn.placed[n])
        BY Zenon DEF n, Put
      <4>5. drawn'.width = drawn.width
        BY DEF Put
      <4>6. Cell(drawn', y, x) = Cell(drawn, y, x)
        BY <4>5 DEF Cell
      <4>q. QED
        BY <1>4, <1>6, <4>1, <4>2, <4>3, <4>4, <4>5, <4>6, Zenon
    <3>2. CASE k # n + 1
      <4>1. k \in 1..n /\ (k > 1 => k - 1 \in 1..n)
        BY <1>1, <3>2
      <4>2. all[k] = drawn.placed[k] /\ (k > 1 => all[k - 1] = drawn.placed[k - 1])
        BY <1>5, <4>1
      <4>3. /\ drawn.placed[k].len <= drawn.width - Indent =>
                 drawn.placed[k].x + drawn.placed[k].len <= drawn.width
            /\ k > 1 => Cell(drawn, drawn.placed[k].y, drawn.placed[k].x) > EndCell(drawn, drawn.placed[k - 1])
        BY <4>1 DEF WrapInv, Apart, n
      <4>q. QED
        BY <1>3, <1>4, <4>1, <4>2, <4>3 DEF Put
    <3>q. QED
      BY <3>1, <3>2
  <2>q. QED
    BY <1>5, <2>1 DEF Apart
<1>8. Behindhand(drawn')
  <2> DEFINE end == EndCell(drawn', all[Len(all)])
  <2>1. end = y * win + x + len
    BY <1>3, <1>5, <1>6 DEF EndCell
  <2>2. end = a * win + b /\ b < win
    BY <1>2, <1>3, <2>1
  <2>3. PICK c \in Nat : a * win = c
    BY Z3
  <2>4. (a + 1) * win = c + win /\ ((a + 1) + 1) * win = c + win + win
    <3>1. (a + 1) * win = a * win + win /\ ((a + 1) + 1) * win = (a + 1) * win + win
      BY Z3
    <3>q. QED
      BY <2>3, <3>1
  <2> HIDE DEF end, all
  <2>5. CASE drawn'.y = a + 1 /\ drawn'.x = Indent
    <3>1. /\ Cell(drawn', drawn'.y, drawn'.x) = c + win + Indent
          /\ Cell(drawn', drawn'.y + 1, Indent) = c + win + win + Indent
      <4>1. /\ Cell(drawn', a + 1, Indent) = (a + 1) * win + Indent
            /\ Cell(drawn', (a + 1) + 1, Indent) = ((a + 1) + 1) * win + Indent
        BY <1>3, Zenon
      <4>q. QED
        BY <2>4, <2>5, <4>1
    <3>2. Cell(drawn', drawn'.y, drawn'.x) > end /\ Cell(drawn', drawn'.y + 1, Indent) > end
      BY <1>1, <2>2, <2>3, <3>1, SMTT(30)
    <3>q. QED
      BY <3>2 DEF Behindhand, end, all
  <2>6. CASE drawn'.y = a /\ drawn'.x \in {b + 1, b + 2}
    <3>1. /\ Cell(drawn', drawn'.y, drawn'.x) \in {c + (b + 1), c + (b + 2)}
          /\ Cell(drawn', drawn'.y + 1, Indent) = c + win + Indent
      BY <1>3, <2>3, <2>4, <2>6
    <3>2. Cell(drawn', drawn'.y, drawn'.x) > end /\ Cell(drawn', drawn'.y + 1, Indent) > end
      BY <1>1, <2>2, <2>3, <3>1, SMTT(30)
    <3>q. QED
      BY <3>2 DEF Behindhand, end, all
  <2>q. QED
    BY <2>5, <2>6
<1>9. drawn'.x \in Nat /\ drawn'.y \in Nat
  <2>1. a + 1 \in Nat /\ b + 1 \in Nat /\ b + 2 \in Nat /\ Indent \in Nat
    BY <1>1
  <2>q. QED
    BY <2>1, Zenon
<1>10. drawn'.at \in Nat \ {0}
  <2>1. drawn'.at = drawn.at + 1
    BY DEF Put
  <2>2. PICK k \in Nat \ {0} : k = drawn.at
    BY <1>1
  <2>3. k + 1 \in Nat \ {0}
    OBVIOUS
  <2>q. QED
    BY <2>1, <2>2, <2>3, Zenon
<1>11. /\ drawn' = [f \in PromptFields |-> drawn'[f]] /\ drawn'.what = "prompt"
       /\ drawn'.words \in Seq(Words) /\ drawn'.width \in Nat /\ drawn'.width + Border \in Nat \ {0}
  BY <1>1 DEF Put
<1>q. QED
  BY <1>5, <1>7, <1>8, <1>9, <1>10, <1>11, Zenon DEF WrapInv

LEMMA WordKeeps == ASSUME DrawSizes, WrapInv, Word PROVE WrapInv'
<1> DEFINE word  == drawn.words[drawn.at]
           wraps == Breaks(drawn, word)
<1>1. /\ drawn = [f \in PromptFields |-> drawn[f]] /\ drawn.what = "prompt"
      /\ drawn.words \in Seq(Words) /\ drawn.width \in Nat /\ drawn.width + Border \in Nat \ {0}
      /\ drawn.at \in Nat \ {0} /\ drawn.x \in Nat /\ drawn.y \in Nat /\ Indent \in Nat
  BY DEF WrapInv, DrawSizes
<1>2. word \in Words /\ word.len \in Nat
  <2>1. drawn.at \in 1..Len(drawn.words)
    <3>1. drawn.at <= Len(drawn.words)
      BY DEF Word
    <3>q. QED
      BY <1>1, <3>1
  <2>2. word \in Words
    BY <1>1, <2>1
  <2> HIDE DEF word
  <2>q. QED
    BY <2>2 DEF Words
<1>3. ~wraps => word.len <= drawn.width - drawn.x
  <2>1. word.len > drawn.width - drawn.x => wraps
    BY Zenon DEF Breaks
  <2> HIDE DEF word, wraps
  <2>q. QED
    BY <1>1, <1>2, <2>1
<1>4. PICK y, x : y = (IF wraps THEN drawn.y + 1 ELSE drawn.y) /\ x = (IF wraps THEN Indent ELSE drawn.x)
  OBVIOUS
<1> DEFINE end == AfterWord(y, x, word.len, drawn.width + Border)
           p   == [y |-> y, x |-> x, len |-> word.len]
           put == [drawn EXCEPT !.at = @ + 1, !.placed = Append(@, p), !.newl = word.sep = "double"]
<1>5. drawn' = IF word.sep = "newline" THEN [put EXCEPT !.y = end.y + 1, !.x = Indent]
               ELSE [put EXCEPT !.y = end.y, !.x = end.x + (IF word.sep = "double" THEN 2 ELSE 1)]
  BY <1>4, Zenon DEF Word
<1> HIDE DEF word, wraps
<1>6. y \in Nat /\ x \in Nat /\ (word.len <= drawn.width - Indent => x + word.len <= drawn.width)
  BY <1>1, <1>2, <1>3, <1>4, SMTT(30)
<1>7. Len(drawn.placed) > 0 => Cell(drawn, y, x) > EndCell(drawn, drawn.placed[Len(drawn.placed)])
  BY <1>4 DEF WrapInv, Behindhand
<1>8. /\ end.y \in Nat /\ end.x \in Nat /\ end.x < drawn.width + Border
      /\ Cell(drawn, end.y, end.x) = Cell(drawn, y, x) + word.len
  <2> DEFINE win == drawn.width + Border
             len == word.len
  <2>1. win \in Nat \ {0} /\ len \in Nat
    BY <1>1, <1>2
  <2> HIDE DEF win, len
  <2>2. LET e == AfterWord(y, x, len, win)
        IN  /\ e.y \in Nat /\ e.x \in Nat /\ e.x < win
            /\ e.y * win + e.x = y * win + x + len
    BY <1>6, <2>1, AfterWordIs
  <2>q. QED
    BY <2>2 DEF Cell, win, len
<1> HIDE DEF end, p
<1>9. /\ put.placed = Append(drawn.placed, p) /\ put.what = "prompt" /\ put.words = drawn.words
      /\ put.width = drawn.width /\ put.at = drawn.at + 1 /\ put = [f \in PromptFields |-> put[f]]
  BY <1>1 DEF PromptFields
<1> HIDE DEF put
<1>10. \/ drawn' = [put EXCEPT !.y = end.y + 1, !.x = Indent]
       \/ drawn' = [put EXCEPT !.y = end.y, !.x = end.x + 2]
       \/ drawn' = [put EXCEPT !.y = end.y, !.x = end.x + 1]
  BY <1>5
<1>11. /\ drawn'.placed = Append(drawn.placed, p) /\ drawn'.what = "prompt" /\ drawn'.words = drawn.words
       /\ drawn'.width = drawn.width /\ drawn'.at = drawn.at + 1 /\ drawn' = [f \in PromptFields |-> drawn'[f]]
       /\ \/ drawn'.y = end.y + 1 /\ drawn'.x = Indent
          \/ drawn'.y = end.y /\ drawn'.x \in {end.x + 1, end.x + 2}
  <2>1. CASE drawn' = [put EXCEPT !.y = end.y + 1, !.x = Indent]
    BY <1>9, <2>1 DEF PromptFields
  <2>2. CASE drawn' = [put EXCEPT !.y = end.y, !.x = end.x + 2]
    BY <1>9, <2>2 DEF PromptFields
  <2>3. CASE drawn' = [put EXCEPT !.y = end.y, !.x = end.x + 1]
    BY <1>9, <2>3 DEF PromptFields
  <2>q. QED
    BY <1>10, <2>1, <2>2, <2>3
<1>q. QED
  BY <1>2, <1>6, <1>7, <1>8, <1>11, WordPlaced, ZenonT(40) DEF p, Put

TrailFields == {"what", "titles", "room", "at", "out", "skip"}
Marks == Nat \X Nat

(* The first n titles of the trail.                                        *)
Longer(titles, s, k) == s \o Piece(titles, k)
IsUpto(titles, n, f) == f = [k \in 0..n |-> IF k = 0 THEN <<>> ELSE Longer(titles, f[k - 1], k)]
Upto(titles) == CHOOSE f : IsUpto(titles, Len(titles), f)

LEMMA UptoRuns == ASSUME NEW titles, NEW n \in Nat PROVE \E f : IsUpto(titles, n, f)
<1> DEFINE Stuck == {m \in Nat : ~ \E f : IsUpto(titles, m, f)}
<1>1. SUFFICES ASSUME Stuck # {} PROVE FALSE
  OBVIOUS
<1>2. PICK m \in Stuck : \A x \in Stuck : m <= x
  BY <1>1, MinIn
<1>3. \E f : IsUpto(titles, 0, f)
  <2> DEFINE f == [k \in 0..0 |-> <<>>]
  <2>1. f = [k \in 0..0 |-> IF k = 0 THEN <<>> ELSE Longer(titles, f[k - 1], k)]
    OBVIOUS
  <2> HIDE DEF f
  <2>q. QED
    BY <2>1 DEF IsUpto
<1>4. m - 1 \in Nat /\ m - 1 \notin Stuck
  BY <1>2, <1>3
<1>5. PICK f : IsUpto(titles, m - 1, f)
  BY <1>4
<1> DEFINE g == [k \in 0..m |-> IF k = m THEN Longer(titles, f[m - 1], m) ELSE f[k]]
<1>6. \A k \in 0..m : g[k] = IF k = 0 THEN <<>> ELSE Longer(titles, g[k - 1], k)
  BY <1>4, <1>5 DEF IsUpto
<1>7. IsUpto(titles, m, g)
  <2>1. DOMAIN g = 0..m /\ g = [k \in DOMAIN g |-> g[k]]
    OBVIOUS
  <2> HIDE DEF g
  <2>q. QED
    BY <1>6, <2>1 DEF IsUpto
<1>q. QED
  BY <1>2, <1>7

LEMMA PieceIs ==
  ASSUME NEW titles \in Seq(Nat), NEW k \in 1..Len(titles)
  PROVE  Piece(titles, k) \in Seq(Marks) /\ Len(Piece(titles, k)) = titles[k] + 3 /\ titles[k] \in Nat
<1>1. titles[k] \in Nat /\ k \in Nat
  OBVIOUS
<1> DEFINE n == titles[k] + 3
<1>2. n \in Nat
  BY <1>1
<1>3. Piece(titles, k) = [j \in 1..n |-> <<k, j>>]
  BY DEF Piece
<1> HIDE DEF n
<1>4. \A j \in 1..n : <<k, j>> \in Marks
  BY <1>1, <1>2 DEF Marks
<1>5. Piece(titles, k) \in [1..n -> Marks]
  BY <1>3, <1>4
<1>6. Piece(titles, k) \in Seq(Marks) /\ Len(Piece(titles, k)) = n
  BY <1>2, <1>5
<1>q. QED
  BY <1>1, <1>6 DEF n

LEMMA UptoIs ==
  ASSUME NEW titles \in Seq(Nat)
  PROVE  /\ All(titles) = Upto(titles)[Len(titles)] /\ Upto(titles)[0] = <<>>
         /\ \A k \in 1..Len(titles) : Upto(titles)[k] = Upto(titles)[k - 1] \o Piece(titles, k)
         /\ \A k \in 0..Len(titles) : Upto(titles)[k] \in Seq(Marks)
<1> DEFINE n == Len(titles)
           f == Upto(titles)
           upto[k \in 0..n] == IF k = 0 THEN <<>> ELSE upto[k - 1] \o Piece(titles, k)
<1>1. upto = f
  BY DEF upto, Upto, IsUpto, Longer
<1>2. All(titles) = upto[n]
  BY DEF All
<1> HIDE DEF upto
<1>3. n \in Nat
  OBVIOUS
<1>4. IsUpto(titles, n, f)
  BY <1>3, UptoRuns DEF Upto
<1> HIDE DEF f
<1> HIDE DEF n
<1>5. f[0] = <<>> /\ \A k \in 1..n : f[k] = Longer(titles, f[k - 1], k)
  BY <1>3, <1>4 DEF IsUpto
<1> DEFINE Wrong == {k \in 0..n : f[k] \notin Seq(Marks)}
<1>6. ASSUME Wrong # {} PROVE FALSE
  <2>1. PICK k \in Wrong : \A x \in Wrong : k <= x
    <3>1. Wrong \in SUBSET Nat
      OBVIOUS
    <3> HIDE DEF Wrong
    <3>q. QED
      BY <1>6, <3>1, MinIn
  <2>2. f[0] \in Seq(Marks)
    BY <1>5
  <2>3. k \in 0..n /\ f[k] \notin Seq(Marks) /\ k # 0
    BY <2>1, <2>2
  <2>4. k \in 1..n /\ k - 1 \in 0..n /\ k - 1 < k
    BY <1>3, <2>3
  <2>5. f[k - 1] \in Seq(Marks) /\ Piece(titles, k) \in Seq(Marks)
    <3>1. k - 1 \notin Wrong
      BY <1>3, <2>1, <2>4
    <3>q. QED
      BY <2>4, <3>1, PieceIs DEF n
  <2>6. f[k] = f[k - 1] \o Piece(titles, k)
    BY <1>5, <2>4 DEF Longer
  <2>q. QED
    BY <2>3, <2>5, <2>6
<1>q. QED
  BY <1>1, <1>2, <1>5, <1>6, Zenon DEF f, n, Longer

LEMMA JoinIs ==
  \A u, v \in Seq(Marks) :
    /\ u \o v \in Seq(Marks) /\ Len(u \o v) = Len(u) + Len(v)
    /\ \A j \in 1..Len(u) : (u \o v)[j] = u[j]
    /\ \A j \in 1..Len(v) : (u \o v)[Len(u) + j] = v[j]
OBVIOUS

LEMMA RestIs ==
  \A u \in Seq(Marks) : \A i \in 0..Len(u) :
    /\ SubSeq(u, i + 1, Len(u)) \in Seq(Marks) /\ Len(SubSeq(u, i + 1, Len(u))) = Len(u) - i
    /\ \A j \in 1..(Len(u) - i) : SubSeq(u, i + 1, Len(u))[j] = u[i + j]
OBVIOUS

(* What is printed of p when s characters are skipped, and how many of     *)
(* those are left.                                                         *)
Cut(s, p) == IF s <= Len(p) THEN s ELSE Len(p)
Drawn(d, s, p) ==
  /\ d.skip = s - Cut(s, p) /\ d.out \in Seq(Marks) /\ Len(d.out) = Len(p) - Cut(s, p)
  /\ \A j \in 1..Len(d.out) : d.out[j] = p[Cut(s, p) + j]

(* One more piece, a character or a title.                                 *)
LEMMA MorePrinted ==
  ASSUME NEW s \in Nat, NEW p \in Seq(Marks), NEW q \in Seq(Marks), NEW d, Drawn(d, s, p), NEW e,
         \/ d.skip < Len(q) /\ e.skip = 0 /\ e.out = d.out \o SubSeq(q, d.skip + 1, Len(q))
         \/ d.skip >= Len(q) /\ e.skip = d.skip - Len(q) /\ e.out = d.out
  PROVE  Drawn(e, s, p \o q)
<1> DEFINE r == p \o q
           cut == Cut(s, p)
           n == Len(p)
           m == Len(q)
<1>1. /\ n \in Nat /\ m \in Nat /\ r \in Seq(Marks) /\ Len(r) = n + m
      /\ \A j \in 1..n : r[j] = p[j]
      /\ \A j \in 1..m : r[n + j] = q[j]
  OBVIOUS
<1>2. /\ cut \in Nat /\ cut <= n /\ cut <= s /\ (s <= n => cut = s) /\ (s > n => cut = n)
  BY <1>1 DEF Cut
<1>3. /\ d.skip = s - cut /\ d.out \in Seq(Marks) /\ Len(d.out) = n - cut
      /\ \A j \in 1..(n - cut) : d.out[j] = p[cut + j]
  BY DEF Drawn
<1>n. n \in Nat /\ m \in Nat /\ Len(q) = m /\ Len(r) = n + m
  BY <1>1
<1>d. d.skip = s - cut /\ d.out \in Seq(Marks) /\ Len(d.out) = n - cut
  BY <1>3
<1> HIDE DEF r, cut, n, m
<1>4. CASE d.skip < m
  <2> DEFINE t == SubSeq(q, d.skip + 1, m)
             skip == d.skip
  <2>1. skip \in Nat /\ skip + 1 \in 1..(m + 1) /\ skip = s - cut
    BY <1>2, <1>d, <1>4, <1>n
  <2>2. e.skip = 0 /\ e.out = d.out \o t
    <3>1. d.skip \in Nat /\ ~(d.skip >= Len(q))
      BY <1>4, <1>n, <2>1
    <3>q. QED
      BY <3>1, Zenon DEF t, m
  <2> HIDE DEF skip
  <2>3. t \in Seq(Marks) /\ Len(t) = m - skip /\ \A j \in 1..(m - skip) : t[j] = q[skip + j]
    <3>1. skip \in 0..m
      BY <1>n, <2>1
    <3>2. skip \in 0..Len(q)
      BY <1>n, <3>1, Zenon
    <3>q. QED
      BY <3>2, RestIs, Zenon DEF skip, m
  <2> HIDE DEF t
  <2>4. /\ e.out \in Seq(Marks) /\ Len(e.out) = (n - cut) + (m - skip)
        /\ \A j \in 1..(n - cut) : e.out[j] = d.out[j]
        /\ \A j \in 1..(m - skip) : e.out[(n - cut) + j] = t[j]
    <3>1. Len(d.out) = n - cut /\ Len(t) = m - skip /\ d.out \in Seq(Marks) /\ t \in Seq(Marks)
      BY <1>d, <2>3
    <3>2. PICK a, b : a = n - cut /\ b = m - skip
      OBVIOUS
    <3>3. /\ d.out \o t \in Seq(Marks) /\ Len(d.out \o t) = a + b
          /\ \A j \in 1..a : (d.out \o t)[j] = d.out[j]
          /\ \A j \in 1..b : (d.out \o t)[a + j] = t[j]
      <4>1. Len(d.out) = a /\ Len(t) = b
        BY <3>1, <3>2
      <4>2. /\ d.out \o t \in Seq(Marks) /\ Len(d.out \o t) = Len(d.out) + Len(t)
            /\ \A j \in 1..Len(d.out) : (d.out \o t)[j] = d.out[j]
            /\ \A j \in 1..Len(t) : (d.out \o t)[Len(d.out) + j] = t[j]
        BY <3>1, JoinIs
      <4>q. QED
        BY <4>1, <4>2, Zenon
    <3>q. QED
      BY <2>2, <3>2, <3>3, Zenon
  <2>5. Cut(s, r) = s /\ s <= n + m
    BY <1>1, <1>2, <1>4, <2>1 DEF Cut, skip
  <2>6. (n - cut) + (m - skip) = (n + m) - s
    BY <1>1, <1>2, <2>1
  <2>7. ASSUME NEW j \in 1..((n + m) - s) PROVE e.out[j] = r[s + j]
    <3>1. CASE j <= n - cut
      <4>1. j \in 1..(n - cut) /\ cut + j \in 1..n
        BY <1>1, <1>2, <2>1, <3>1
      <4>2. e.out[j] = p[cut + j] /\ r[cut + j] = p[cut + j]
        BY <1>1, <1>3, <2>4, <4>1
      <4>3. cut = s
        BY <1>1, <1>2, <4>1
      <4>q. QED
        BY <4>2, <4>3
    <3>2. CASE j > n - cut
      <4> DEFINE i == j - (n - cut)
      <4>1. i \in 1..(m - skip) /\ j = (n - cut) + i /\ skip + i \in 1..m /\ s + j = n + (skip + i)
        BY <1>1, <1>2, <2>1, <2>6, <3>2
      <4> HIDE DEF i
      <4>2. e.out[j] = t[i] /\ t[i] = q[skip + i] /\ r[n + (skip + i)] = q[skip + i]
        BY <1>1, <2>3, <2>4, <4>1
      <4>q. QED
        BY <4>1, <4>2
    <3>q. QED
      BY <1>1, <1>2, <3>1, <3>2
  <2>8. s - Cut(s, r) = 0 /\ Len(r) - Cut(s, r) = (n + m) - s
    BY <1>n, <2>5
  <2>9. e.skip = s - Cut(s, r) /\ e.out \in Seq(Marks) /\ Len(e.out) = Len(r) - Cut(s, r)
    BY <2>2, <2>4, <2>6, <2>8, Zenon
  <2>10. \A j \in 1..Len(e.out) : e.out[j] = r[Cut(s, r) + j]
    BY <2>4, <2>5, <2>6, <2>7, Zenon
  <2>q. QED
    BY <2>9, <2>10, Zenon DEF Drawn, r
<1>5. CASE d.skip >= m
  <2>1. e.skip = d.skip - m /\ e.out = d.out
    BY <1>1, <1>3, <1>2, <1>5 DEF m
  <2>2. CASE m = 0
    <3>1. Cut(s, r) = cut /\ Len(r) = n
      BY <1>1, <1>2, <2>2 DEF Cut
    <3>2. e.skip = s - cut
      BY <1>2, <1>3, <2>1, <2>2
    <3>3. \A j \in 1..(n - cut) : e.out[j] = r[cut + j]
      <4>1. \A j \in 1..(n - cut) : cut + j \in 1..n
        BY <1>1, <1>2
      <4>q. QED
        BY <1>1, <1>3, <2>1, <4>1
    <3>q. QED
      BY <1>3, <2>1, <3>1, <3>2, <3>3 DEF Drawn, r
  <2>3. CASE m # 0
    <3>1. s > n /\ cut = n /\ s >= n + m
      BY <1>1, <1>2, <1>3, <1>5, <2>3
    <3>2. Cut(s, r) = n + m /\ e.skip = s - (n + m)
      BY <1>1, <1>3, <2>1, <3>1 DEF Cut
    <3>3. e.out \in Seq(Marks) /\ Len(e.out) = 0
      BY <1>1, <1>3, <2>1, <3>1
    <3>q. QED
      BY <1>1, <3>2, <3>3 DEF Drawn, r
  <2>q. QED
    BY <2>2, <2>3
<1>q. QED
  BY <1>1, <1>2, <1>3, <1>4, <1>5

-----------------------------------------------------------------------------
(* The trail.                                                              *)
Skipped(titles, room) ==
  LET len == Len(All(titles)) IN IF len > room THEN len - (room - Ellipsis) ELSE 0

TrailInv ==
  /\ drawn = [f \in TrailFields |-> drawn[f]] /\ drawn.what = "trail"
  /\ drawn.titles \in Seq(Nat) /\ drawn.room \in Int /\ drawn.at \in 1..(Len(drawn.titles) + 1)
  /\ Drawn(drawn, Skipped(drawn.titles, drawn.room), Upto(drawn.titles)[drawn.at - 1])

LEMMA SkippedIs ==
  ASSUME DrawSizes, NEW titles \in Seq(Nat), NEW room \in Int
  PROVE  Skipped(titles, room) \in Nat
<1> DEFINE len == Len(All(titles))
<1>1. len \in Nat
  <2>1. Upto(titles)[Len(titles)] \in Seq(Marks) /\ All(titles) = Upto(titles)[Len(titles)]
    BY UptoIs
  <2>q. QED
    BY <2>1
<1>2. Skipped(titles, room) = IF len > room THEN len - (room - Ellipsis) ELSE 0
  BY DEF Skipped
<1> HIDE DEF len
<1>3. Ellipsis \in Nat
  BY DEF DrawSizes
<1>q. QED
  BY <1>1, <1>2, <1>3

LEMMA TrailStarts == ASSUME DrawSizes, TrailInit PROVE TrailInv
<1>1. PICK titles \in Trails, room \in Columns :
        drawn = [what |-> "trail", titles |-> titles, room |-> room, at |-> 1, out |-> <<>>,
                 skip |-> Skipped(titles, room)]
  BY Zenon DEF TrailInit, Skipped
<1>2. titles \in Seq(Nat) /\ room \in Int
  BY DEF DrawSizes
<1>3. Upto(titles)[0] = <<>> /\ Skipped(titles, room) \in Nat
  BY <1>2, UptoIs, SkippedIs
<1>4. drawn.skip = Skipped(titles, room) /\ drawn.out = <<>> /\ drawn.titles = titles /\ drawn.room = room
      /\ drawn.at = 1 /\ drawn.what = "trail" /\ drawn = [f \in TrailFields |-> drawn[f]]
  BY <1>1 DEF TrailFields
<1>5. Drawn(drawn, Skipped(titles, room), <<>>)
  <2>1. Cut(Skipped(titles, room), <<>>) = 0
    BY <1>3 DEF Cut
  <2>q. QED
    BY <1>3, <1>4, <2>1 DEF Drawn
<1>6. drawn.at \in 1..(Len(drawn.titles) + 1) /\ drawn.at - 1 = 0
  BY <1>2, <1>4
<1>q. QED
  BY <1>2, <1>3, <1>4, <1>5, <1>6 DEF TrailInv

(* A character is a piece of one. *)
LEMMA CharPrinted ==
  ASSUME NEW s \in Nat, NEW p \in Seq(Marks), NEW c \in Marks, NEW d, Drawn(d, s, p), d.skip \in Nat,
         d = [f \in TrailFields |-> d[f]]
  PROVE  /\ Drawn(PutChar(d, c), s, p \o <<c>>) /\ PutChar(d, c).skip \in Nat
         /\ PutChar(d, c) = [f \in TrailFields |-> PutChar(d, c)[f]]
         /\ \A f \in TrailFields \ {"out", "skip"} : PutChar(d, c)[f] = d[f]
<1> DEFINE e == PutChar(d, c)
<1>1. <<c>> \in Seq(Marks) /\ Len(<<c>>) = 1
  OBVIOUS
<1>2. d.out \in Seq(Marks)
  BY DEF Drawn
<1>3. CASE d.skip = 0
  <2>1. e = [d EXCEPT !.out = Append(d.out, c)]
    BY <1>3, Zenon DEF PutChar
  <2> HIDE DEF e
  <2>2. /\ e.skip = 0 /\ e.out = Append(d.out, c) /\ e = [f \in TrailFields |-> e[f]]
        /\ \A f \in TrailFields \ {"out", "skip"} : e[f] = d[f]
    BY <1>3, <2>1 DEF TrailFields
  <2>3. SubSeq(<<c>>, d.skip + 1, Len(<<c>>)) = <<c>>
    <3> DEFINE t == SubSeq(<<c>>, 0 + 1, 1)
    <3>1. /\ t \in Seq(Marks) /\ Len(t) = 1 - 0
          /\ \A j \in 1..(1 - 0) : t[j] = <<c>>[0 + j]
      BY <1>1, PartIs
    <3> HIDE DEF t
    <3>2. t = <<c>>
      BY <1>1, <3>1
    <3>q. QED
      BY <1>1, <1>3, <3>2, Zenon DEF t
  <2>4. e.out = d.out \o SubSeq(<<c>>, d.skip + 1, Len(<<c>>)) /\ d.skip < Len(<<c>>)
    <3>1. Append(d.out, c) = d.out \o <<c>>
      BY <1>2, OneMoreIs
    <3>2. d.skip < Len(<<c>>)
      BY <1>1, <1>3
    <3>q. QED
      BY <2>2, <2>3, <3>1, <3>2, Zenon
  <2>5. Drawn(e, s, p \o <<c>>)
    BY <1>1, <2>2, <2>4, MorePrinted
  <2>q. QED
    BY <2>2, <2>5 DEF e
<1>4. CASE d.skip # 0
  <2>1. e = [d EXCEPT !.skip = d.skip - 1]
    BY <1>4, Zenon DEF PutChar
  <2> HIDE DEF e
  <2>2. /\ e.skip = d.skip - 1 /\ e.out = d.out /\ e = [f \in TrailFields |-> e[f]]
        /\ \A f \in TrailFields \ {"out", "skip"} : e[f] = d[f]
    BY <1>4, <2>1 DEF TrailFields
  <2>3. d.skip >= Len(<<c>>) /\ e.skip = d.skip - Len(<<c>>) /\ e.skip \in Nat
    BY <1>1, <1>4, <2>2
  <2>4. Drawn(e, s, p \o <<c>>)
    BY <1>1, <2>2, <2>3, MorePrinted
  <2>q. QED
    BY <2>2, <2>3, <2>4 DEF e
<1>q. QED
  BY <1>3, <1>4

LEMMA TextPrinted ==
  ASSUME NEW s \in Nat, NEW p \in Seq(Marks), NEW q \in Seq(Marks), NEW d, Drawn(d, s, p), d.skip \in Nat,
         d = [f \in TrailFields |-> d[f]]
  PROVE  /\ Drawn(PutText(d, q), s, p \o q) /\ PutText(d, q).skip \in Nat
         /\ PutText(d, q) = [f \in TrailFields |-> PutText(d, q)[f]]
         /\ \A f \in TrailFields \ {"out", "skip"} : PutText(d, q)[f] = d[f]
<1> DEFINE e == PutText(d, q)
<1>1. Len(q) \in Nat
  OBVIOUS
<1>2. CASE d.skip < Len(q)
  <2> DEFINE t == d.out \o SubSeq(q, d.skip + 1, Len(q))
  <2>1. e = [d EXCEPT !.out = t, !.skip = 0]
    BY <1>2, Zenon DEF PutText
  <2> HIDE DEF e, t
  <2>2. /\ e.skip = 0 /\ e.out = t /\ e = [f \in TrailFields |-> e[f]]
        /\ \A f \in TrailFields \ {"out", "skip"} : e[f] = d[f]
    BY <1>2, <2>1 DEF TrailFields
  <2>3. Drawn(e, s, p \o q)
    BY <1>2, <2>2, MorePrinted DEF t
  <2>q. QED
    BY <2>2, <2>3 DEF e
<1>3. CASE ~(d.skip < Len(q))
  <2>1. e = [d EXCEPT !.skip = d.skip - Len(q)]
    BY <1>3, Zenon DEF PutText
  <2> HIDE DEF e
  <2>2. /\ e.skip = d.skip - Len(q) /\ e.out = d.out /\ e = [f \in TrailFields |-> e[f]]
        /\ \A f \in TrailFields \ {"out", "skip"} : e[f] = d[f]
    BY <2>1 DEF TrailFields
  <2>3. d.skip >= Len(q) /\ e.skip \in Nat
    BY <1>1, <1>3, <2>2
  <2>4. Drawn(e, s, p \o q)
    BY <2>2, <2>3, MorePrinted
  <2>q. QED
    BY <2>2, <2>3, <2>4 DEF e
<1>q. QED
  BY <1>2, <1>3

(* A piece is its first two characters, those of the title, and its last. *)
LEMMA PieceParts ==
  ASSUME NEW p \in Seq(Marks), NEW q \in Seq(Marks), Len(q) >= 3
  PROVE  LET mid == SubSeq(q, 3, Len(q) - 1)
         IN  /\ mid \in Seq(Marks) /\ q[1] \in Marks /\ q[2] \in Marks /\ q[Len(q)] \in Marks
             /\ (((p \o <<q[1]>>) \o <<q[2]>>) \o mid) \o <<q[Len(q)]>> = p \o q
<1> DEFINE m == Len(q)
           n == Len(p)
           mid == SubSeq(q, 3, m - 1)
           a == p \o <<q[1]>>
           b == a \o <<q[2]>>
           c == b \o mid
           d == c \o <<q[m]>>
           r == p \o q
<1>1. m \in Nat /\ n \in Nat /\ 3 <= m
  OBVIOUS
<1>2. q[1] \in Marks /\ q[2] \in Marks /\ q[m] \in Marks
  BY <1>1
<1>3. mid \in Seq(Marks) /\ Len(mid) = m - 3 /\ \A j \in 1..(m - 3) : mid[j] = q[2 + j]
  <2> DEFINE k == m - 1
  <2>1. k \in Nat /\ k = m - 1 /\ 2 <= k /\ k <= m
    <3> HIDE DEF m
    <3>q. QED
      BY <1>1
  <2> HIDE DEF k
  <2>2. /\ SubSeq(q, 2 + 1, k) \in Seq(Marks) /\ Len(SubSeq(q, 2 + 1, k)) = k - 2
        /\ \A j \in 1..(k - 2) : SubSeq(q, 2 + 1, k)[j] = q[2 + j]
    BY <2>1, PartIs
  <2>3. 2 + 1 = 3 /\ k - 2 = m - 3
    BY <1>1, <2>1
  <2>q. QED
    BY <2>1, <2>2, <2>3, Zenon
<1>4. a \in Seq(Marks) /\ Len(a) = n + 1 /\ (\A j \in 1..n : a[j] = p[j]) /\ a[n + 1] = q[1]
  BY <1>1, <1>2
<1> HIDE DEF a, m, n, mid
<1>5. b \in Seq(Marks) /\ Len(b) = n + 2 /\ (\A j \in 1..(n + 1) : b[j] = a[j]) /\ b[n + 2] = q[2]
  BY <1>1, <1>2, <1>4
<1> HIDE DEF b
<1>6. /\ c \in Seq(Marks) /\ Len(c) = n + m - 1 /\ \A j \in 1..(n + 2) : c[j] = b[j]
      /\ \A j \in 1..(m - 3) : c[(n + 2) + j] = mid[j]
  <2>1. PICK x, y : x = n + 2 /\ y = m - 3
    OBVIOUS
  <2>2. /\ c \in Seq(Marks) /\ Len(c) = x + y /\ \A j \in 1..x : c[j] = b[j]
        /\ \A j \in 1..y : c[x + j] = mid[j]
    <3>1. b \in Seq(Marks) /\ mid \in Seq(Marks) /\ Len(b) = x /\ Len(mid) = y
      BY <1>3, <1>5, <2>1, Zenon
    <3>2. /\ b \o mid \in Seq(Marks) /\ Len(b \o mid) = Len(b) + Len(mid)
          /\ \A j \in 1..Len(b) : (b \o mid)[j] = b[j]
          /\ \A j \in 1..Len(mid) : (b \o mid)[Len(b) + j] = mid[j]
      BY <3>1, JoinIs
    <3>q. QED
      BY <3>1, <3>2, Zenon
  <2> HIDE DEF c
  <2>3. x + y = n + m - 1
    BY <1>1, <2>1
  <2>q. QED
    BY <2>1, <2>2, <2>3, Zenon
<1> HIDE DEF c
<1>7. /\ d \in Seq(Marks) /\ Len(d) = n + m /\ \A j \in 1..(n + m - 1) : d[j] = c[j]
      /\ d[n + m] = q[m]
  <2>1. PICK k : k = n + m - 1
    OBVIOUS
  <2>2. Len(c) = k /\ k + 1 = n + m
    BY <1>1, <1>6, <2>1
  <2>3. /\ d \in Seq(Marks) /\ Len(d) = k + 1 /\ \A j \in 1..k : d[j] = c[j]
        /\ d[k + 1] = q[m]
    BY <1>2, <1>6, <2>2, OneMoreIs, SMTT(30)
  <2>q. QED
    BY <2>1, <2>2, <2>3, Zenon
<1> HIDE DEF d
<1>8. /\ r \in Seq(Marks) /\ Len(r) = n + m /\ \A j \in 1..n : r[j] = p[j]
      /\ \A j \in 1..m : r[n + j] = q[j]
  BY <1>1 DEF m, n
<1> HIDE DEF r
<1>9. ASSUME NEW j \in 1..(n + m) PROVE d[j] = r[j]
  <2>1. CASE j \in 1..n
    <3>1. j \in 1..(n + m - 1) /\ j \in 1..(n + 2) /\ j \in 1..(n + 1)
      BY <1>1, <2>1
    <3>q. QED
      BY <1>4, <1>5, <1>6, <1>7, <1>8, <2>1, <3>1
  <2>2. CASE j = n + 1
    <3>1. j \in 1..(n + m - 1) /\ j \in 1..(n + 2) /\ j \in 1..(n + 1) /\ 1 \in 1..m
      BY <1>1, <2>2
    <3>2. d[j] = q[1] /\ r[n + 1] = q[1]
      BY <1>4, <1>5, <1>6, <1>7, <1>8, <2>2, <3>1
    <3>q. QED
      BY <2>2, <3>2
  <2>3. CASE j = n + 2
    <3>1. j \in 1..(n + m - 1) /\ j \in 1..(n + 2) /\ 2 \in 1..m
      BY <1>1, <2>3
    <3>2. d[j] = q[2] /\ r[n + 2] = q[2]
      BY <1>5, <1>6, <1>7, <1>8, <2>3, <3>1
    <3>q. QED
      BY <2>3, <3>2
  <2>4. CASE j > n + 2 /\ j < n + m
    <3> DEFINE i == j - (n + 2)
    <3>1. i \in 1..(m - 3) /\ j = (n + 2) + i /\ 2 + i \in 1..m /\ j = n + (2 + i) /\ j \in 1..(n + m - 1)
      BY <1>1, <2>4
    <3> HIDE DEF i
    <3>2. d[j] = c[j] /\ c[(n + 2) + i] = mid[i] /\ mid[i] = q[2 + i] /\ r[n + (2 + i)] = q[2 + i]
      BY <1>3, <1>6, <1>7, <1>8, <3>1
    <3>q. QED
      BY <3>1, <3>2
  <2>5. CASE j = n + m
    <3>1. m \in 1..m
      BY <1>1
    <3>q. QED
      BY <1>7, <1>8, <2>5, <3>1
  <2>6. j \in 1..n \/ j = n + 1 \/ j = n + 2 \/ (j > n + 2 /\ j < n + m) \/ j = n + m
    BY <1>1
  <2>q. QED
    BY <2>1, <2>2, <2>3, <2>4, <2>5, <2>6
<1>10. d = r
  BY <1>7, <1>8, <1>9
<1>q. QED
  BY <1>2, <1>3, <1>10 DEF a, b, c, d, r, m, mid

LEMMA TitleKeeps == ASSUME DrawSizes, TrailInv, Title PROVE TrailInv'
<1> DEFINE titles == drawn.titles
           at == drawn.at
           s == Skipped(titles, drawn.room)
           p == Upto(titles)[at - 1]
           q == Piece(titles, at)
           mid == SubSeq(q, 3, Len(q) - 1)
           c == PutChar(drawn, q[1])
           d == PutChar(c, q[2])
           e == PutText(d, mid)
           g == PutChar(e, q[Len(q)])
<1>1. /\ drawn = [f \in TrailFields |-> drawn[f]] /\ drawn.what = "trail"
      /\ titles \in Seq(Nat) /\ drawn.room \in Int /\ at \in 1..(Len(titles) + 1)
      /\ Drawn(drawn, s, p)
  BY DEF TrailInv
<1>2. at \in 1..Len(titles) /\ at - 1 \in 0..Len(titles) /\ at + 1 \in 1..(Len(titles) + 1) /\ (at + 1) - 1 = at
  <2>1. at <= Len(titles)
    BY DEF Title
  <2>q. QED
    BY <1>1, <2>1
<1>3. s \in Nat
  BY <1>1, SkippedIs
<1>4. p \in Seq(Marks) /\ Upto(titles)[at] = p \o q
  BY <1>1, <1>2, UptoIs
<1>5. q \in Seq(Marks) /\ Len(q) >= 3
  <2>1. q \in Seq(Marks) /\ Len(q) = titles[at] + 3 /\ titles[at] \in Nat
    BY <1>1, <1>2, PieceIs
  <2>q. QED
    BY <2>1
<1>6. drawn' = [g EXCEPT !.at = g.at + 1]
  BY Zenon DEF Title
<1> HIDE DEF s, p, q, titles, at
<1>7. /\ mid \in Seq(Marks) /\ q[1] \in Marks /\ q[2] \in Marks /\ q[Len(q)] \in Marks
      /\ (((p \o <<q[1]>>) \o <<q[2]>>) \o mid) \o <<q[Len(q)]>> = p \o q
  BY <1>4, <1>5, PieceParts
<1>8. drawn.skip \in Nat
  <2>1. drawn.skip = s - Cut(s, p) /\ Len(p) \in Nat
    BY <1>1, <1>4 DEF Drawn
  <2>q. QED
    BY <1>3, <2>1 DEF Cut
<1> DEFINE pc == p \o <<q[1]>>
           pd == pc \o <<q[2]>>
           pe == pd \o mid
           pg == pe \o <<q[Len(q)]>>
<1> HIDE DEF mid
<1>9. pc \in Seq(Marks) /\ pd \in Seq(Marks) /\ pe \in Seq(Marks)
  <2>1. pc \in Seq(Marks)
    BY <1>4, <1>7
  <2> HIDE DEF pc
  <2>2. pd \in Seq(Marks)
    BY <1>7, <2>1
  <2> HIDE DEF pd
  <2>3. pe \in Seq(Marks)
    BY <1>7, <2>2
  <2>q. QED
    BY <2>1, <2>2, <2>3
<1>10. /\ Drawn(c, s, pc) /\ c.skip \in Nat /\ c = [f \in TrailFields |-> c[f]]
       /\ \A f \in TrailFields \ {"out", "skip"} : c[f] = drawn[f]
  <2>1. PICK m \in Marks : m = q[1]
    BY <1>7
  <2>2. /\ Drawn(PutChar(drawn, m), s, p \o <<m>>) /\ PutChar(drawn, m).skip \in Nat
        /\ PutChar(drawn, m) = [f \in TrailFields |-> PutChar(drawn, m)[f]]
        /\ \A f \in TrailFields \ {"out", "skip"} : PutChar(drawn, m)[f] = drawn[f]
    BY <1>1, <1>3, <1>4, <1>8, CharPrinted
  <2>q. QED
    BY <2>1, <2>2, Zenon
<1> HIDE DEF c, pc
<1>11. /\ Drawn(d, s, pd) /\ d.skip \in Nat /\ d = [f \in TrailFields |-> d[f]]
       /\ \A f \in TrailFields \ {"out", "skip"} : d[f] = c[f]
  <2>1. PICK m \in Marks : m = q[2]
    BY <1>7
  <2>2. /\ Drawn(PutChar(c, m), s, pc \o <<m>>) /\ PutChar(c, m).skip \in Nat
        /\ PutChar(c, m) = [f \in TrailFields |-> PutChar(c, m)[f]]
        /\ \A f \in TrailFields \ {"out", "skip"} : PutChar(c, m)[f] = c[f]
    BY <1>3, <1>9, <1>10, CharPrinted
  <2>q. QED
    BY <2>1, <2>2, Zenon
<1> HIDE DEF d, pd
<1>12. /\ Drawn(e, s, pe) /\ e.skip \in Nat /\ e = [f \in TrailFields |-> e[f]]
       /\ \A f \in TrailFields \ {"out", "skip"} : e[f] = d[f]
  <2>1. PICK m \in Seq(Marks) : m = mid
    BY <1>7
  <2>2. pd \in Seq(Marks) /\ Drawn(d, s, pd) /\ d.skip \in Nat /\ d = [f \in TrailFields |-> d[f]]
    BY <1>9, <1>11, Zenon
  <2>3. /\ Drawn(PutText(d, m), s, pd \o m) /\ PutText(d, m).skip \in Nat
        /\ PutText(d, m) = [f \in TrailFields |-> PutText(d, m)[f]]
        /\ \A f \in TrailFields \ {"out", "skip"} : PutText(d, m)[f] = d[f]
    BY <1>3, <2>2, TextPrinted
  <2>q. QED
    BY <2>1, <2>3, Zenon DEF e, pe
<1> HIDE DEF e, pe
<1>13. /\ Drawn(g, s, pg) /\ g = [f \in TrailFields |-> g[f]]
       /\ \A f \in TrailFields \ {"out", "skip"} : g[f] = e[f]
  <2>1. PICK m \in Marks : m = q[Len(q)]
    BY <1>7
  <2>2. pe \in Seq(Marks) /\ Drawn(e, s, pe) /\ e.skip \in Nat /\ e = [f \in TrailFields |-> e[f]]
    BY <1>9, <1>12, Zenon
  <2>3. /\ Drawn(PutChar(e, m), s, pe \o <<m>>)
        /\ PutChar(e, m) = [f \in TrailFields |-> PutChar(e, m)[f]]
        /\ \A f \in TrailFields \ {"out", "skip"} : PutChar(e, m)[f] = e[f]
    BY <1>3, <2>2, CharPrinted
  <2>q. QED
    BY <2>1, <2>3, Zenon DEF g, pg
<1> HIDE DEF g
<1>14. pg = Upto(titles)[at]
  BY <1>4, <1>7 DEF pe, pd, pc
<1>15. g.what = "trail" /\ g.titles = titles /\ g.room = drawn.room /\ g.at = at
  <2>1. \A f \in TrailFields \ {"out", "skip"} : g[f] = drawn[f]
    BY <1>10, <1>11, <1>12, <1>13, Zenon
  <2>2. {"what", "titles", "room", "at"} \subseteq TrailFields \ {"out", "skip"}
    BY DEF TrailFields
  <2>q. QED
    BY <1>1, <2>1, <2>2 DEF titles, at
<1> HIDE DEF pg
<1>16. /\ drawn' = [f \in TrailFields |-> drawn'[f]] /\ drawn'.what = "trail" /\ drawn'.titles = titles
       /\ drawn'.room = drawn.room /\ drawn'.at = at + 1 /\ drawn'.skip = g.skip /\ drawn'.out = g.out
  BY <1>6, <1>13, <1>15 DEF TrailFields
<1>17. Drawn(drawn', s, Upto(titles)[at])
  BY <1>13, <1>14, <1>16, Zenon DEF Drawn
<1>18. s = Skipped(titles, drawn.room)
  BY DEF s
<1>q. QED
  BY <1>1, <1>2, <1>16, <1>17, <1>18, Zenon DEF TrailInv

-----------------------------------------------------------------------------
(* Either, and what is seen of it.                                         *)
DrawInv == TrailInv \/ WrapInv

LEMMA DrawStarts == ASSUME DrawSizes, DrawInit PROVE DrawInv
BY TrailStarts, WrapStarts DEF DrawInit, DrawInv

LEMMA DrawStepKeeps == ASSUME DrawSizes, DrawInv, [DrawNext]_drawn PROVE DrawInv'
<1>1. CASE Title
  <2>1. drawn.what = "trail"
    BY <1>1 DEF Title
  <2>2. TrailInv
    BY <2>1 DEF DrawInv, WrapInv
  <2>q. QED
    BY <1>1, <2>2, TitleKeeps DEF DrawInv
<1>2. CASE Word
  <2>1. drawn.what = "prompt"
    BY <1>2 DEF Word
  <2>2. WrapInv
    BY <2>1 DEF DrawInv, TrailInv
  <2>q. QED
    BY <1>2, <2>2, WordKeeps DEF DrawInv
<1>3. CASE UNCHANGED drawn
  BY <1>3 DEF DrawInv, TrailInv, WrapInv, Drawn, Skipped, Apart, Behindhand, Cell, EndCell
<1>q. QED
  BY <1>1, <1>2, <1>3 DEF DrawNext

LEMMA InvApart == ASSUME DrawInv PROVE WordsApart
<1> SUFFICES ASSUME drawn.what = "prompt" PROVE WordsApart
  BY DEF WordsApart
<1>1. WrapInv
  BY DEF DrawInv, TrailInv
<1>2. drawn.placed \in Seq(Placed) /\ Apart(drawn)
  BY <1>1 DEF WrapInv
<1>3. DOMAIN drawn.placed = 1..Len(drawn.placed)
  BY <1>2
<1>q. QED
  BY <1>2, <1>3, Zenon DEF WordsApart, Apart, Cell, EndCell

LEMMA InvEnds == ASSUME DrawSizes, DrawInv PROVE TrailEnds
<1> SUFFICES ASSUME drawn.what = "trail", drawn.at > Len(drawn.titles) PROVE TrailEnds
  BY DEF TrailEnds
<1> DEFINE all  == All(drawn.titles)
           len  == Len(all)
           space == drawn.room
           room == IF len <= space THEN len ELSE IF space > Ellipsis THEN space - Ellipsis ELSE 0
           s == Skipped(drawn.titles, drawn.room)
           out == drawn.out
<1>1. /\ drawn.titles \in Seq(Nat) /\ space \in Int /\ drawn.at \in 1..(Len(drawn.titles) + 1)
      /\ Drawn(drawn, s, Upto(drawn.titles)[drawn.at - 1])
  BY DEF DrawInv, TrailInv, WrapInv
<1>2. drawn.at - 1 = Len(drawn.titles) /\ Len(drawn.titles) \in 0..Len(drawn.titles)
  BY <1>1
<1>3. all = Upto(drawn.titles)[drawn.at - 1] /\ all \in Seq(Marks)
  BY <1>1, <1>2, UptoIs
<1>4. s = IF len > space THEN len - (space - Ellipsis) ELSE 0
  BY DEF Skipped
<1>5. Drawn(drawn, s, all)
  BY <1>1, <1>3
<1>6. TrailEnds <=> out = SubSeq(all, len - room + 1, len)
  BY DEF TrailEnds
<1>7. len \in Nat /\ Ellipsis \in Nat
  BY <1>3 DEF DrawSizes
<1> HIDE DEF all, s, space
<1> DEFINE cut == Cut(s, all)
<1>8. cut = IF s <= len THEN s ELSE len
  BY DEF Cut
<1>9. out \in Seq(Marks) /\ Len(out) = len - cut /\ \A j \in 1..Len(out) : out[j] = all[cut + j]
  BY <1>5 DEF Drawn
<1> HIDE DEF cut, out, len
<1>10. cut \in Nat /\ cut <= len /\ room = len - cut
  BY <1>1, <1>4, <1>7, <1>8
<1> HIDE DEF room
<1>11. len - room + 1 = cut + 1 /\ len - room = cut
  BY <1>7, <1>10
<1> DEFINE end == SubSeq(all, cut + 1, len)
<1>12. /\ end \in Seq(Marks) /\ Len(end) = len - cut
       /\ \A j \in 1..(len - cut) : end[j] = all[cut + j]
  BY <1>3, <1>7, <1>10, PartIs DEF len
<1> HIDE DEF end
<1>13. out = end
  BY <1>9, <1>12
<1>q. QED
  BY <1>6, <1>11, <1>13 DEF end

(* The trail above a dialog ends with its own title, as much of it as there *)
(* is room for, and the words of a prompt stand apart, whole where they    *)
(* fit, for any titles, prompts and widths (util.c:254-304, 382-441).       *)
THEOREM TextLaidOut == DrawSizes => (DrawSpec => [](WordsApart /\ TrailEnds))
<1> SUFFICES ASSUME DrawSizes PROVE DrawSpec => [](WordsApart /\ TrailEnds)
  OBVIOUS
<1>1. DrawInv => WordsApart /\ TrailEnds
  BY InvApart, InvEnds
<1>2. DrawInit => DrawInv
  BY DrawStarts
<1>3. DrawInv /\ [DrawNext]_drawn => DrawInv'
  BY DrawStepKeeps
<1>q. QED
  BY <1>1, <1>2, <1>3, PTL DEF DrawSpec

-----------------------------------------------------------------------------
(* The dialogs together.                                                   *)

(* What the five boxes and the layout show is what their variables mean,   *)
(* for lists, texts, titles, prompts and windows of every size: the value  *)
(* that is marked, the field and its cursor, the button, the page and its  *)
(* keys, the words of a prompt and the end of the trail.                   *)
THEOREM DialogsShow ==
  ListSizes /\ InputSizes /\ PagerSizes /\ DrawSizes => (BoxesSpec => []TextShown)
<1> SUFFICES ASSUME ListSizes, InputSizes, PagerSizes, DrawSizes
             PROVE  BoxesSpec => []TextShown
  OBVIOUS
<1>1. List!Spec => []List!ChosenIsShown
  BY ChoiceShows
<1>2. (Input!Spec => []Input!FieldShowsText) /\ (Input!Spec => []Input!ActiveIsLit)
  BY FieldShows, ButtonLit
<1>3. (Pager!Spec => []Pager!PageFound) /\ (Pager!Spec => []Pager!KeysJump)
  BY PagesFound, KeysLeadOn
<1>4. DrawSpec => [](WordsApart /\ TrailEnds)
  BY TextLaidOut
<1>5. /\ List!ChosenIsShown /\ Input!FieldShowsText /\ Input!ActiveIsLit
      /\ Pager!PageFound /\ Pager!KeysJump /\ WordsApart /\ TrailEnds
      => TextShown
  BY DEF TextShown
<1>q. QED
  BY <1>1, <1>2, <1>3, <1>4, <1>5, PTL DEF BoxesSpec

(* A menu that is opened again, a page scrolled sideways and the results   *)
(* after a jump are where they were, for lists, texts and windows of every *)
(* size (mconf.c:440-455, 641-677; menubox.c:193-280; textbox.c:212-273).   *)
THEOREM DialogsComeBack == PagerSizes => (BoxesSpec => ReopensInPlace)
<1> SUFFICES ASSUME PagerSizes PROVE BoxesSpec => ReopensInPlace
  OBVIOUS
<1>1. MenuSpec => MenuReopens
  BY MenuComesBack
<1>2. Pager!Spec => Pager!PageKept
  BY PagesKept
<1>q. QED
  BY <1>1, <1>2 DEF BoxesSpec, ReopensInPlace
=============================================================================
