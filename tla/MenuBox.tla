------------------------------ MODULE MenuBox -------------------------------
(***************************************************************************)
(* dialog_menu() of lxdialog/menubox.c: a list of items in a window that   *)
(* shows some of them.  Keys move the highlight and scroll the window line *)
(* by line; only the rows that change are printed again.                   *)
(***************************************************************************)
EXTENDS Integers, Sequences, FiniteSetsExt

CONSTANTS Items,      \* bound: the longest list
          Heights,    \* rows the list window can have
          ItemText,   \* ItemText[i]: the text of an item, its characters in lower case
          Alpha       \* the characters that are letters

ASSUME MenuAssumption == Items \in Nat /\ Heights \subseteq Nat \ {0}

VARIABLE menu   \* the variables of the call; `rows' is the window, and `stale' records
                \* that it was drawn from a first_item that is not `scroll'

None == -1
Blank == <<None, FALSE>>

(* The list of items (lxdialog/util.c) says of each whether it is selected. *)
(* item_reset() and, n times, item_make() *)
ItemMake(n) == [i \in 0..(n - 1) |-> FALSE]
(* item_set() and item_set_selected(1); an empty list has item_nil for it. *)
ItemSelect(items, n) == [i \in DOMAIN items |-> items[i] \/ i = n]
(* item_activate_selected() *)
ItemActivated(items) ==
  LET selected == {i \in DOMAIN items : items[i]} IN IF selected = {} THEN None ELSE Min(selected)

(* first_alpha(): the first letter outside of brackets that is no command, *)
(* or else the first character.                                            *)
FirstAlpha(text) ==
  LET in_paren[i \in 0..Len(text)] ==
        IF i = 0 THEN 0
        ELSE IF text[i] \in {"<", "[", "("} THEN in_paren[i - 1] + 1
        ELSE IF text[i] \in {">", "]", ")"} THEN Max({in_paren[i - 1] - 1, 0})
        ELSE in_paren[i - 1]
      found == {i \in DOMAIN text : in_paren[i] = 0 /\ text[i] \in Alpha \ {"y", "n", "m", "h"}}
  IN  IF found = {} THEN 1 ELSE Min(found)
Letter == [i \in DOMAIN ItemText |-> ItemText[i][FirstAlpha(ItemText[i])]]

(* max_choice: the rows that show an item. *)
MaxChoice(b) == Min({b.h, b.n})

(* print_item(): the item's text, highlighted or not, in a row. *)
PrintItem(b, item, row, lit) == [b EXCEPT !.rows[row] = <<item, lit>>]

(* do_scroll(): every row moves up by d, and the rows that come in are blank. *)
DoScroll(b, d) ==
  [b EXCEPT !.scroll = @ + d,
            !.rows = [r \in DOMAIN @ |-> IF r + d \in DOMAIN @ THEN @[r + d] ELSE Blank]]

(* print_arrows(): whether the frame says that there is more above and below. *)
PrintArrows(b) == [b EXCEPT !.arrows = <<b.scroll > 0, b.h < b.n /\ b.scroll + b.h < b.n>>]

(* From do_resize on: the highlight goes to the selected item, the window  *)
(* to the saved position if that shows the item, to the top if that does,  *)
(* and around the item otherwise.                                          *)
Layout(b) ==
  LET max    == MaxChoice(b)
      choice == IF b.sel # None THEN b.sel ELSE b.choice
      saved  == /\ b.s_scroll <= choice /\ b.s_scroll + max > choice
                /\ b.s_scroll >= 0 /\ b.s_scroll + max <= b.n
      below  == ~saved /\ choice >= max
      middle == IF choice >= b.n - max \div 2 THEN b.n - max ELSE choice - max \div 2
      scroll == IF saved THEN b.s_scroll ELSE IF below THEN middle ELSE 0
      first  == IF saved \/ below THEN scroll ELSE b.first_item
  IN  PrintArrows([b EXCEPT
        !.first_item = first, !.scroll = scroll, !.choice = choice - scroll,
        !.stale = (first # scroll),
        !.rows = [r \in 0..(b.h - 1) |->
                    IF r < max THEN <<first + r, r = choice - scroll>> ELSE Blank]])

-----------------------------------------------------------------------------
(* Keys that move the highlight.                                           *)

Up(b) ==
  IF b.choice < 2 /\ b.scroll # 0
  THEN PrintItem(DoScroll(b, -1), b.scroll - 1, 0, FALSE)
  ELSE [b EXCEPT !.choice = Max({@ - 1, 0})]

ScrollUp(b) == PrintItem(DoScroll(b, 1), b.scroll + MaxChoice(b), MaxChoice(b) - 1, FALSE)

(* Mutant: the window scrolls once the highlight is on its last row. *)
DownAtEnd(b) ==
  IF b.choice > MaxChoice(b) - 2 /\ b.scroll + MaxChoice(b) <= b.n
  THEN ScrollUp(b)
  ELSE [b EXCEPT !.choice = Min({@ + 1, MaxChoice(b) - 1})]
Down(b) ==
  IF b.choice > MaxChoice(b) - 3 /\ b.scroll + MaxChoice(b) < b.n
  THEN ScrollUp(b)
  ELSE [b EXCEPT !.choice = Min({@ + 1, MaxChoice(b) - 1})]

(* A page: line by line, as many as the window shows. *)
PageLine(b, key) ==
  IF key = "pgup"
  THEN IF b.scroll > 0
       THEN PrintItem(DoScroll(b, -1), b.scroll - 1, 0, FALSE)
       ELSE [b EXCEPT !.choice = Max({@ - 1, 0})]
  ELSE IF b.scroll + MaxChoice(b) < b.n
       THEN ScrollUp(b)
       ELSE [b EXCEPT !.choice = Min({@ + 1, MaxChoice(b) - 1})]

Page(b, key) ==
  LET line[i \in 0..MaxChoice(b)] == IF i = 0 THEN b ELSE PageLine(line[i - 1], key)
  IN  line[MaxChoice(b)]

(* The row a letter leads to: the next that starts with it, or the first.  *)
Starting(b, key) == {i \in 0..(MaxChoice(b) - 1) : Letter[b.scroll + i] = key}
Hit(b, key) ==
  LET later == {i \in Starting(b, key) : i > b.choice}
  IN  IF key \in {"y", "n", "m", "h"} \/ Starting(b, key) = {} THEN MaxChoice(b)
      ELSE IF later # {} THEN Min(later) ELSE Min(Starting(b, key))

Moved(b, key) ==
  CASE key = "up" -> Up(b)
    [] key = "down" -> Down(b)
    [] key \in {"pgup", "pgdn"} -> Page(b, key)
    [] OTHER -> [b EXCEPT !.choice = Hit(b, key)]

Move(key) ==
  /\ menu.open /\ menu.n # 0
  /\ key \in {"up", "down", "pgup", "pgdn"} \/ Hit(menu, key) < MaxChoice(menu)
  /\ LET moved == Moved(PrintItem(menu, menu.scroll + menu.choice, menu.choice, FALSE), key)
     IN  menu' = PrintArrows(PrintItem(moved, moved.scroll + moved.choice, moved.choice, TRUE))

-----------------------------------------------------------------------------
(* The other keys; a letter is one of them only where no item starts with it. *)

(* Left, right and TAB: Select, Exit, Help, Save, Load. *)
Button(d) ==
  /\ menu.open
  /\ menu' = [menu EXCEPT !.button = (@ + d) % 5]

Taken(key) == menu.n # 0 /\ Hit(menu, key) < MaxChoice(menu)

Commands == {"s", "y", "n", "m", "h", "z", "space", "enter"}

Closed ==
  [open |-> FALSE, n |-> 0, h |-> 0, sel |-> None, s_scroll |-> 0, first_item |-> 0,
   scroll |-> 0, choice |-> 0, button |-> 0, rows |-> <<>>, arrows |-> <<FALSE, FALSE>>, stale |-> FALSE, res |-> "break",
   items |-> ItemMake(0)]

(* Mutant: the position is saved relative to the highlight. *)
ReturnedChoice(b) ==
  [b EXCEPT !.open = FALSE, !.s_scroll = b.choice, !.res = "done",
            !.items = ItemSelect(@, b.scroll + b.choice)]
(* The scroll position is saved and the item marked. *)
Returned(b) ==
  [b EXCEPT !.open = FALSE, !.s_scroll = b.scroll, !.res = "done",
            !.items = ItemSelect(@, b.scroll + b.choice)]

(* A command; the Exit button leaves the menu. *)
Command(key) ==
  /\ menu.open /\ ~Taken(key)
  /\ menu' = IF key = "enter" /\ menu.button = 1 THEN Closed ELSE Returned(menu)

(* `e', two ESC keys, or a terminal that has become too small: conf()      *)
(* leaves the menu as well.                                                *)
Leave(key) ==
  /\ menu.open /\ (key = "e" => ~Taken(key))
  /\ menu' = Closed

Resize(h) ==
  /\ menu.open
  /\ menu' = Layout([menu EXCEPT !.h = h])

(* conf() calls with a list it has just built.  In the same menu the saved *)
(* position and the item are those of the last call, and the list may have *)
(* changed under them.                                                     *)
OpenMenu(n, h, sel) ==
  /\ ~menu.open /\ sel < n
  /\ menu' = Layout([menu EXCEPT
       !.open = TRUE, !.n = n, !.h = h, !.sel = sel,
       !.first_item = 0, !.choice = 0, !.button = 0, !.res = "none", !.items = ItemMake(n)])

MenuInit == menu = Closed

MenuNext ==
  \/ \E key \in {"up", "down", "pgup", "pgdn"} \cup {Letter[i] : i \in DOMAIN Letter} : Move(key)
  \/ \E d \in {-1, 1} : Button(d)
  \/ \E key \in Commands : Command(key)
  \/ \E key \in {"e", "esc", "small"} : Leave(key)
  \/ \E h \in Heights : Resize(h)
  \/ \E n \in 0..Items, h \in Heights, sel \in None..(Items - 1) :
       OpenMenu(n, h, sel)

MenuSpec == MenuInit /\ [][MenuNext]_menu

-----------------------------------------------------------------------------
Faithful ==
  /\ menu.n # 0 => menu.choice < MaxChoice(menu)
  /\ menu.scroll + MaxChoice(menu) <= menu.n
  /\ menu.arrows = <<menu.scroll # 0, menu.scroll + MaxChoice(menu) # menu.n>>
  /\ \A r \in 0..(menu.h - 1) :
       menu.rows[r] = IF r < MaxChoice(menu) THEN <<menu.scroll + r, r = menu.choice>> ELSE Blank

(* What the incremental printing leaves on the screen is the part of the   *)
(* list the variables say, every item of it exists, the frame tells of all *)
(* the others, and the one item that is highlighted is the one a command   *)
(* would return.  Only a resize that drops the saved position breaks this: *)
(* first_item keeps its old value (253-271).                               *)
RowsShowItems == menu.open /\ ~menu.stale => Faithful

(* A menu that is built again as it was, with the item that was left       *)
(* selected, comes up as it was left (247-266).                            *)
MenuReopens ==
  [][~menu.open /\ menu'.open /\ menu.res = "done"
       /\ <<menu'.n, menu'.h, menu'.s_scroll, menu'.sel>> = <<menu.n, menu.h, menu.s_scroll, ItemActivated(menu.items)>>
     => <<menu'.scroll, menu'.choice>> = <<menu.scroll, menu.choice>>]_menu
=============================================================================
