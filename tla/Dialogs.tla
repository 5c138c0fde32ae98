------------------------------ MODULE Dialogs -------------------------------
(***************************************************************************)
(* The dialogs of menuconfig (scripts/config/lxdialog/): its boxes, and    *)
(* the text that util.c lays out around them: the trail of titles          *)
(* dialog_clear() puts above, cut on the left where it is too long, and    *)
(* the prompts print_autowrap() breaks into lines.  A box has its own      *)
(* variable; nothing is shared.                                            *)
(***************************************************************************)
EXTENDS MenuBox

CONSTANTS Values, ListHeight, Initial   \* of dialog_checklist()
VARIABLE list
List == INSTANCE CheckList

CONSTANTS Char, Width, MaxLen           \* of dialog_inputbox()
VARIABLE input
Input == INSTANCE InputBox

CONSTANTS Contents, BoxHeights, Borders, MaxScroll, JumpNb   \* of dialog_textbox()
VARIABLE pager
Pager == INSTANCE TextBox WITH Texts <- Contents, text <- pager

CONSTANTS
  Columns,    \* columns of the screen that the trail has: columns - 2
  Trails,     \* sequences of the lengths of titles
  Ellipsis,   \* the length of "[...] "
  Widths,     \* the width a prompt is broken to; the dialog is wider by Border
  Indent,     \* the column a line begins in
  Border,
  Prompts     \* sequences of words [len, sep]; sep is what follows a word

VARIABLE drawn  \* a trail or a prompt on its way to the screen

-----------------------------------------------------------------------------
(* The trail: for each title an arrow, a space, its characters, a space.   *)
(* A character is the title's number and its place.                        *)
Piece(titles, k) == [j \in 1..(titles[k] + 3) |-> <<k, j>>]

All(titles) ==
  LET upto[k \in 0..Len(titles)] == IF k = 0 THEN <<>> ELSE upto[k - 1] \o Piece(titles, k)
  IN  upto[Len(titles)]

TrailInit ==
  \E titles \in Trails, room \in Columns :
    LET len == Len(All(titles))
    IN  drawn = [what |-> "trail", titles |-> titles, room |-> room, at |-> 1, out |-> <<>>,
                 skip |-> IF len > room THEN len - (room - Ellipsis) ELSE 0]

(* One character, unless it is skipped. *)
PutChar(d, c) == IF d.skip = 0 THEN [d EXCEPT !.out = Append(@, c)] ELSE [d EXCEPT !.skip = @ - 1]

(* The characters of a title, from the first that is not skipped. *)
PutText(d, piece) ==
  IF d.skip < Len(piece)
  THEN [d EXCEPT !.out = @ \o SubSeq(piece, d.skip + 1, Len(piece)), !.skip = 0]
  ELSE [d EXCEPT !.skip = @ - Len(piece)]

Title ==
  /\ drawn.what = "trail" /\ drawn.at <= Len(drawn.titles)
  /\ LET piece == Piece(drawn.titles, drawn.at)
         lead  == PutChar(PutChar(drawn, piece[1]), piece[2])
         text  == PutText(lead, SubSeq(piece, 3, Len(piece) - 1))
     IN  drawn' = [PutChar(text, piece[Len(piece)]) EXCEPT !.at = @ + 1]

-----------------------------------------------------------------------------
(* A prompt longer than a line; shorter ones are centred, in one piece.    *)
(* at is the next word, x and y where the cursor is, placed the words      *)
(* printed: [y, x, len].                                                   *)
Gap == [space |-> 1, double |-> 2, newline |-> 1, end |-> 0]
PromptLen(prompt) == MapThenSumSet(LAMBDA k : prompt[k].len + Gap[prompt[k].sep], DOMAIN prompt)

WrapInit ==
  \E prompt \in Prompts, width \in Widths :
    /\ PromptLen(prompt) > width - 2 * Indent
    /\ drawn = [what |-> "prompt", words |-> prompt, width |-> width, at |-> 1, x |-> Indent, y |-> 0,
                newl |-> TRUE, placed |-> <<>>]

(* waddstr(), and where getyx() finds the cursor: a word that reaches the  *)
(* border of the dialog goes on below.                                     *)
AfterWord(y, x, len, win) == [y |-> y + (x + len) \div win, x |-> (x + len) % win]

(* The word does not fit; or it begins a sentence, is short, and what      *)
(* follows does not fit beside it.                                         *)
Breaks(d, word) ==
  LET room == d.width - d.x
      next == IF word.sep = "double" THEN 0 ELSE d.words[d.at + 1].len
  IN  \/ word.len > room
      \/ d.newl /\ word.len < 4 /\ word.sep # "end" /\ word.len + 1 + next > room

Word ==
  /\ drawn.what = "prompt" /\ drawn.at <= Len(drawn.words)
  /\ LET word  == drawn.words[drawn.at]
         wraps == Breaks(drawn, word)
         y     == IF wraps THEN drawn.y + 1 ELSE drawn.y
         x     == IF wraps THEN Indent ELSE drawn.x
         end   == AfterWord(y, x, word.len, drawn.width + Border)
         put   == [drawn EXCEPT !.at = @ + 1, !.placed = Append(@, [y |-> y, x |-> x, len |-> word.len]),
                                !.newl = word.sep = "double"]
     IN  drawn' = IF word.sep = "newline" THEN [put EXCEPT !.y = end.y + 1, !.x = Indent]
                  ELSE [put EXCEPT !.y = end.y, !.x = end.x + (IF word.sep = "double" THEN 2 ELSE 1)]

DrawInit == TrailInit \/ WrapInit
DrawNext == Title \/ Word
DrawSpec == DrawInit /\ [][DrawNext]_drawn

-----------------------------------------------------------------------------
\* The trail fits above the dialog and ends with the title of the dialog: what
\* is drawn of it is its end, all of it where there is room (util.c:268-303).
TrailEnds ==
  drawn.what = "trail" /\ drawn.at > Len(drawn.titles) =>
    LET all  == All(drawn.titles)
        room == IF Len(all) <= drawn.room THEN Len(all)
                ELSE IF drawn.room > Ellipsis THEN drawn.room - Ellipsis ELSE 0
    IN  drawn.out = SubSeq(all, Len(all) - room + 1, Len(all))

\* The words of a prompt stand apart and in order, and one that fits into a line
\* is neither broken nor printed over the margin (util.c:399-440).
WordsApart ==
  drawn.what = "prompt" =>
    LET win == drawn.width + Border
        Start(p) == p.y * win + p.x
    IN  \A k \in DOMAIN drawn.placed :
          LET p == drawn.placed[k]
          IN  /\ p.len <= drawn.width - Indent => p.x + p.len <= drawn.width
              /\ k > 1 => Start(p) > Start(drawn.placed[k - 1]) + drawn.placed[k - 1].len

-----------------------------------------------------------------------------
(* All of them, each with its own steps.                                   *)
BoxesSpec == MenuSpec /\ List!Spec /\ Input!Spec /\ Pager!Spec /\ DrawSpec

(* conf() finds a menu it opens again as it was left; scrolling sideways   *)
(* and coming back from a jump show the same page of dialog_textbox().     *)
ReopensInPlace == MenuReopens /\ Pager!PageKept

(* dialog_checklist() marks the value the user saw highlighted; the field  *)
(* of dialog_inputbox() shows the text, with the cursor in it, and Enter   *)
(* activates the button drawn as active; dialog_textbox() finds the page   *)
(* it has printed by going back, and the keys update_text() shows jump to  *)
(* the results they are shown at; print_autowrap() keeps words whole and   *)
(* apart; what is drawn of the titles ends with the dialog's own.          *)
TextShown ==
  /\ List!ChosenIsShown /\ Input!FieldShowsText /\ Input!ActiveIsLit
  /\ Pager!PageFound /\ Pager!KeysJump
  /\ WordsApart /\ TrailEnds
=============================================================================
