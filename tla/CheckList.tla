----------------------------- MODULE CheckList ------------------------------
(***************************************************************************)
(* dialog_checklist() of lxdialog/checklist.c: the values of a choice, one *)
(* of which is marked, in a window of fixed height.                        *)
(***************************************************************************)
EXTENDS Integers, FiniteSetsExt

CONSTANTS Values,      \* bound: the most values
          ListHeight,  \* list_height: rows of the window
          Initial      \* the first letter of each value's text

VARIABLE list   \* the variables of the call; `rows' is the window

None == -1
Blank == <<None, FALSE>>

(* max_choice *)
Shown(b) == Min({ListHeight, b.n})

(* print_item(); where there are no items, the empty item_nil is printed. *)
PrintItem(b, item, row, lit) ==
  [b EXCEPT !.rows = [r \in DOMAIN @ |-> IF r = row /\ item < b.n THEN <<item, lit>> ELSE @[r]]]

WScrl(b, d) ==
  [b EXCEPT !.rows = [r \in DOMAIN @ |-> IF r + d \in DOMAIN @ THEN @[r + d] ELSE Blank]]

(* print_arrows(): whether the frame says that there is more above and below. *)
PrintArrows(b) ==
  [b EXCEPT !.arrows = <<b.scroll > 0, ListHeight < b.n /\ b.scroll + b.choice < b.n - 1>>]

(* From do_resize on: an item below the window comes last in it. *)
Layout(b) ==
  LET scroll == IF b.choice >= ListHeight THEN b.choice - ListHeight + 1 ELSE b.scroll
      choice == IF b.choice >= ListHeight THEN ListHeight - 1 ELSE b.choice
  IN  PrintArrows([b EXCEPT
        !.scroll = scroll, !.choice = choice,
        !.rows = [r \in 0..(ListHeight - 1) |->
                    IF r < Shown(b) THEN <<scroll + r, r = choice>> ELSE Blank]])

(* The highlight moves to a row of the window. *)
Highlight(b, row) ==
  IF row = b.choice THEN b
  ELSE PrintItem([PrintItem(b, b.scroll + b.choice, b.choice, FALSE) EXCEPT !.choice = row],
                 b.scroll + row, row, TRUE)

Up(b) ==
  IF b.choice # 0 THEN Highlight(b, b.choice - 1)
  ELSE IF b.scroll = 0 THEN b
  ELSE LET dark == PrintItem(b, b.scroll, 0, FALSE)
       IN  PrintArrows(PrintItem(WScrl([dark EXCEPT !.scroll = @ - 1], -1), b.scroll - 1, 0, TRUE))

Down(b) ==
  IF b.choice # Shown(b) - 1 THEN Highlight(b, b.choice + 1)
  ELSE IF b.scroll + b.choice >= b.n - 1 THEN b
  ELSE LET dark == PrintItem(b, b.scroll + Shown(b) - 1, Shown(b) - 1, FALSE)
       IN  PrintArrows(PrintItem(WScrl([dark EXCEPT !.scroll = @ + 1], 1),
                                 b.scroll + Shown(b), Shown(b) - 1, TRUE))

(* The first row whose text starts with the key. *)
Starting(key) == {i \in 0..(Shown(list) - 1) : Initial[list.scroll + i] = key}

-----------------------------------------------------------------------------
(* Bound: without any items the highlight moves down without end. *)
Move(key) ==
  /\ list.open
  /\ \/ key = "up" /\ list' = Up(list)
     \/ key = "down" /\ list.choice < ListHeight /\ list' = Down(list)
     \/ Starting(key) # {} /\ list' = Highlight(list, Min(Starting(key)))

Button ==
  /\ list.open
  /\ list' = [list EXCEPT !.button = (@ + 1) % 2]

(* `h' is the Help button; the item on the highlight is the one marked. *)
Return(key) ==
  /\ list.open /\ Starting(key) = {}
  /\ list' = [list EXCEPT
       !.open = FALSE, !.button = IF key = "h" THEN 1 ELSE @,
       !.marked = IF list.n = 0 THEN {} ELSE {list.scroll + list.choice},
       !.res = IF key = "h" \/ list.button = 1 THEN "help" ELSE "select"]

(* `x', two ESC keys, or a terminal that has become too small. *)
Leave(key) ==
  /\ list.open /\ Starting(key) = {}
  /\ list' = [list EXCEPT !.open = FALSE, !.res = "esc"]

Resize == list.open /\ list' = Layout(list)

(* conf_choice() calls with the visible values: `active' is the value the  *)
(* choice had or the one the user asked help about, `x' the current one.   *)
Open(n, active, x) ==
  /\ ~list.open
  /\ list.res = "help" => n = list.n /\ (list.marked # {} => active \in list.marked)
  /\ active < n /\ x < n
  /\ list' = Layout([list EXCEPT
       !.open = TRUE, !.n = n, !.scroll = 0, !.button = 0, !.res = "none",
       !.marked = {active} \ {None},
       !.choice = IF active # None THEN active ELSE IF x # None THEN x ELSE 0])

Init ==
  list = [open |-> FALSE, n |-> 0, scroll |-> 0, choice |-> 0, button |-> 0, rows |-> <<>>,
          arrows |-> <<FALSE, FALSE>>, res |-> "esc", marked |-> {}]

Next ==
  \/ \E key \in {"up", "down"} \cup {Initial[i] : i \in DOMAIN Initial} : Move(key)
  \/ Button
  \/ \E key \in {"h", "s", "space", "enter"} : Return(key)
  \/ \E key \in {"x", "esc", "small"} : Leave(key)
  \/ Resize
  \/ \E n \in 0..Values, active \in None..(Values - 1), x \in None..(Values - 1) : Open(n, active, x)

Spec == Init /\ [][Next]_list

-----------------------------------------------------------------------------
(* The window shows the part of the list the variables say with one item   *)
(* highlighted, its frame tells of every value above or below it, and a    *)
(* call that returns marks that item and no other: the value conf_choice() *)
(* sets is the one the user saw highlighted.                               *)
ChosenIsShown ==
  /\ list.open /\ list.n # 0 =>
       /\ list.choice < Shown(list) /\ list.scroll + Shown(list) <= list.n
       /\ list.arrows[1] <=> list.scroll > 0
       /\ list.scroll + Shown(list) < list.n => list.arrows[2]
       /\ \A r \in 0..(ListHeight - 1) :
            list.rows[r] = IF r < Shown(list) THEN <<list.scroll + r, r = list.choice>> ELSE Blank
  /\ list.res \in {"select", "help"} =>
       {list.rows[r][1] : r \in {q \in DOMAIN list.rows : list.rows[q][2]}} = list.marked
=============================================================================
