------------------------------ MODULE InputBox ------------------------------
(***************************************************************************)
(* dialog_inputbox() of lxdialog/inputbox.c: a line of text edited in a    *)
(* field that shows a part of it, and two buttons below; and dialog_yesno()*)
(* of yesno.c, which has the buttons only.                                 *)
(***************************************************************************)
EXTENDS Integers, Sequences, FiniteSetsExt

CONSTANTS Char,      \* characters a user may type
          Width,     \* box_width: cells of the field
          MaxLen     \* MAX_LEN: the longest text

VARIABLE input   \* the variables of the call.  `cells' is the field on the screen, `lit'
                 \* the button drawn as active, `cursor' the cell the cursor is in,
                 \* `resized' whether do_resize was passed again since the last button key

Field == -1
Space == "_"

(* The text from show_x on, and a blank after its end. *)
Draw(b) ==
  [b EXCEPT !.cells = [i \in 0..(Width - 1) |->
     CASE b.show_x + i < Len(b.instr) -> b.instr[b.show_x + i + 1]
       [] b.show_x + i = Len(b.instr) -> Space
       [] OTHER -> @[i]]]

(* print_buttons(); the cursor goes with them. *)
Buttons(b, lit) == [b EXCEPT !.lit = lit, !.cursor = Field]
Cursor(b) == [b EXCEPT !.cursor = b.input_x]

(* From do_resize on: an empty field, then the end of the text. *)
Layout(b) ==
  LET len   == Len(b.instr)
      show  == IF len >= Width THEN len - Width + 1 ELSE 0
      blank == [i \in 0..(Width - 1) |-> Space]
  IN  Cursor(Draw([Buttons(b, 0) EXCEPT
        !.pos = len, !.show_x = show, !.input_x = len - show, !.cells = blank]))

-----------------------------------------------------------------------------
(* Keys in the input field.                                                *)

InField == input.open /\ input.kind = "input" /\ input.button = Field

Type(c) ==
  /\ InField /\ Len(input.instr) < MaxLen
  /\ input' = Cursor(Draw([input EXCEPT
       !.instr = SubSeq(@, 1, input.pos) \o <<c>> \o SubSeq(@, input.pos + 1, Len(@)),
       !.pos = @ + 1,
       !.show_x = IF input.input_x = Width - 1 THEN @ + 1 ELSE @,
       !.input_x = IF @ = Width - 1 THEN @ ELSE @ + 1]))

Backspace ==
  /\ InField /\ input.pos # 0
  /\ input' = Cursor(Draw([input EXCEPT
       !.instr = SubSeq(@, 1, input.pos - 1) \o SubSeq(@, input.pos + 1, Len(@)),
       !.pos = @ - 1,
       !.show_x = IF input.input_x = 0 THEN @ - 1 ELSE @,
       !.input_x = IF @ = 0 THEN @ ELSE @ - 1]))

Left ==
  /\ InField /\ input.pos > 0
  /\ input' = Cursor(IF input.input_x > 0
                     THEN [input EXCEPT !.pos = @ - 1, !.input_x = @ - 1]
                     ELSE Draw([input EXCEPT !.pos = @ - 1, !.show_x = @ - 1]))

Right ==
  /\ InField /\ input.pos < Len(input.instr)
  /\ input' = Cursor(IF input.input_x < Width - 1
                     THEN [input EXCEPT !.pos = @ + 1, !.input_x = @ + 1]
                     ELSE Draw([input EXCEPT !.pos = @ + 1, !.show_x = @ + 1]))

-----------------------------------------------------------------------------
(* The buttons: field, Ok and Help in turn, or Yes and No.                 *)

Turn(d) == IF input.kind = "input" THEN ((input.button + 1 + d) % 3) - 1 ELSE (input.button + d) % 2

Switch(d) ==
  /\ input.open
  /\ LET b == [Buttons(input, Max({0, Turn(d)})) EXCEPT !.button = Turn(d), !.resized = FALSE]
     IN  input' = IF b.button = Field THEN Cursor(b) ELSE b

Close(res) == [input EXCEPT !.open = FALSE, !.res = res]

(* Enter: Ok while the field is active. *)
Return == input.open /\ input' = Close(Max({0, input.button}))

(* `o' and `h' off the field, or `y' and `n'. *)
Shortcut(res) == input.open /\ ~InField /\ input' = Close(res)

(* `x' off the field, two ESC keys, or a terminal that has become too small. *)
Leave == input.open /\ input' = Close("esc")

Resize == input.open /\ input' = Layout([input EXCEPT !.resized = TRUE])

Open(kind, init) ==
  /\ ~input.open
  /\ input' = Layout([input EXCEPT !.open = TRUE, !.kind = kind, !.instr = init, !.resized = FALSE,
                                   !.button = IF kind = "input" THEN Field ELSE 0])

Init ==
  input = [open |-> FALSE, kind |-> "input", instr |-> <<>>, pos |-> 0, show_x |-> 0,
           input_x |-> 0, cells |-> <<>>, button |-> 0, lit |-> 0, cursor |-> 0,
           resized |-> FALSE, res |-> 0]

Next ==
  \/ \E c \in Char : Type(c)
  \/ Backspace \/ Left \/ Right
  \/ \E d \in {-1, 1} : Switch(d)
  \/ Return \/ Leave \/ Resize
  \/ \E res \in {0, 1} : Shortcut(res)
  \/ \E init \in UNION {[1..n -> Char] : n \in {0, 1, MaxLen}} : Open("input", init)
  \/ Open("yesno", <<>>)

Spec == Init /\ [][Next]_input

-----------------------------------------------------------------------------
(* The field shows the text from show_x on and nothing else, with the      *)
(* cursor on the character that the next key will come before, whatever    *)
(* was typed, deleted and scrolled past.                                   *)
FieldShowsText ==
  input.open /\ input.kind = "input" =>
    /\ Len(input.instr) <= MaxLen
    /\ input.pos \in 0..Len(input.instr)
    /\ input.pos = input.show_x + input.input_x
    /\ InField => input.cursor = input.input_x /\ input.cursor \in 0..(Width - 1)
    /\ \A i \in 0..(Width - 1) :
         input.cells[i] = IF input.show_x + i < Len(input.instr)
                          THEN input.instr[input.show_x + i + 1] ELSE Space

(* Enter activates the button that is drawn as active, unless the terminal *)
(* was resized: do_resize draws the first one and keeps `button'.          *)
ActiveIsLit == input.open /\ ~input.resized => input.lit = Max({0, input.button})
=============================================================================
