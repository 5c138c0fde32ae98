------------------------------ MODULE TextBox -------------------------------
(***************************************************************************)
(* dialog_textbox() of lxdialog/textbox.c: a pager over a text kept as one *)
(* string, whose only position is the start of what was not yet printed;   *)
(* and the search results of mconf.c shown in it, where update_text()      *)
(* labels the entries on the page with the keys that jump to them.         *)
(***************************************************************************)
EXTENDS Integers, Sequences, FiniteSetsExt

CONSTANTS Texts,     \* the texts: sequences of characters, TRUE for a newline
          BoxHeights,\* boxh: lines on a page
          Borders,   \* height - boxh: what the box adds around the page
          MaxScroll, \* MAX_LEN: the limit of hscroll
          JumpNb     \* JUMP_NB: keys for search results

VARIABLE text   \* the variables of the call.  `top' is where the printed page starts, and
                \* `label' what update_text() has written into each line of the text

EndOf(b) == Len(b.buf)
Newline(b, i) == b.buf[i + 1]
LineStarts(b) == {0} \cup {i \in 1..EndOf(b) : Newline(b, i - 1)}

(* get_line() *)
GetLine(b) ==
  LET ends == {i \in b.page..(EndOf(b) - 1) : Newline(b, i)}
  IN  IF ends = {} THEN [b EXCEPT !.end_reached = TRUE, !.page = EndOf(b)]
      ELSE [b EXCEPT !.end_reached = FALSE, !.page = Min(ends) + 1]

GetLines(b, n) ==
  LET line[i \in 0..n] == IF i = 0 THEN b ELSE GetLine(line[i - 1])
  IN  line[n]

(* One round of the loop of back_lines(); at the start of the text it ends. *)
BackLine(b) ==
  LET before == {i \in 0..(b.page - 2) : Newline(b, i)}
  IN  IF b.begin_reached THEN b
      ELSE IF b.page = EndOf(b) /\ b.end_reached THEN [b EXCEPT !.end_reached = FALSE]
      ELSE IF before = {} THEN [b EXCEPT !.begin_reached = TRUE, !.page = 0]
      ELSE [b EXCEPT !.page = Max(before) + 1]

BackLines(b, n) ==
  LET back[i \in 0..n] ==
        IF i = 0 THEN [b EXCEPT !.begin_reached = FALSE] ELSE BackLine(back[i - 1])
  IN  back[n]

-----------------------------------------------------------------------------
(* Search results.                                                         *)

(* '0' + index % JUMP_NB + 1; every line is an entry. *)
Key(b, i) == (Cardinality({j \in LineStarts(b) : j < i}) % JumpNb) + 1

(* update_text(): the first JUMP_NB entries of the page get keys. *)
UpdateText(b, end) ==
  LET page  == {i \in LineStarts(b) : b.page <= i /\ i < end}
      first == {i \in page : Cardinality({j \in page : j < i}) < JumpNb}
  IN  [b EXCEPT
        !.label = [i \in DOMAIN @ |-> IF i \notin page THEN @[i]
                                      ELSE IF i \in first THEN Key(b, i) ELSE 0],
        !.targets = {<<Key(b, i), i>> : i \in first}]

(* What update_text() is given: the page that starts as many lines before  *)
(* the end of this one as there are rows.                                  *)
Updated(b) ==
  LET below == GetLines(b, b.boxh)
  IN  IF b.search THEN UpdateText(BackLines(below, b.boxh), below.page) ELSE b

(* Mutant: the empty line after the last newline does not count. *)
PageLengthText(b) ==
  LET reached == {i \in 1..b.boxh : GetLines(b, i).end_reached}
  IN  IF reached = {} THEN b.boxh ELSE Min(reached) - 1
(* page_length: the rows up to the one that reached the end. *)
PageLength(b) ==
  LET reached == {i \in 1..b.boxh : GetLines(b, i).end_reached}
  IN  IF reached = {} THEN b.boxh ELSE Min(reached)

(* print_page() *)
PrintPage(b) ==
  LET c == Updated(b)
  IN  [GetLines(c, c.boxh) EXCEPT !.page_length = PageLength(c), !.top = c.page]

-----------------------------------------------------------------------------
(* Keys.                                                                   *)

Reprint(b) == text' = PrintPage(b)

Home ==
  /\ text.open /\ ~text.begin_reached
  /\ Reprint([text EXCEPT !.begin_reached = TRUE, !.page = 0])

End ==
  /\ text.open
  /\ Reprint(BackLines([text EXCEPT !.end_reached = TRUE, !.page = EndOf(text)], text.boxh))

(* Up, or page up. *)
Back(n) ==
  /\ text.open /\ ~text.begin_reached
  /\ Reprint(BackLines(text, text.page_length + n))

LineDown ==
  /\ text.open /\ ~text.end_reached
  /\ Reprint(BackLines(text, text.page_length - 1))

PageDown ==
  /\ text.open /\ ~text.end_reached
  /\ Reprint([text EXCEPT !.begin_reached = FALSE])

(* Left, `0' and right print the same page again. *)
Sideways(to) ==
  /\ text.open /\ to \in 0..MaxScroll /\ to # text.hscroll
  /\ Reprint(BackLines([text EXCEPT !.hscroll = to], text.page_length))

Resize(boxh, border) ==
  /\ text.open
  /\ Reprint([BackLines(text, text.boxh + border) EXCEPT !.boxh = boxh])

(* The variables of a call outlive it only in a search. *)
Closed ==
  [open |-> FALSE, buf |-> <<TRUE>>, boxh |-> 1, page |-> 0, begin_reached |-> TRUE,
   end_reached |-> FALSE, page_length |-> 0, top |-> 0, hscroll |-> 0, vscroll |-> 0,
   search |-> FALSE, label |-> [i \in {0, 1} |-> 0], targets |-> {}, res |-> 0]

Exit == text.open /\ text' = Closed

(* *_vscroll: how many lines come before the page. *)
LinesAbove(b) ==
  LET c == BackLines(b, b.page_length)
  IN  Cardinality({i \in 0..(c.page - 1) : Newline(c, i)})

(* A key of `keys': search_conf() shows the entry it is for. *)
Jump(key) ==
  /\ text.open /\ \E i \in LineStarts(text) : <<key, i>> \in text.targets
  /\ text' = [BackLines(text, text.page_length) EXCEPT
                !.open = FALSE, !.res = key, !.vscroll = LinesAbove(text)]

Enter(b, lines) ==
  GetLines([b EXCEPT !.open = TRUE, !.page = 0, !.begin_reached = (lines = 0),
                     !.end_reached = FALSE, !.res = 0, !.targets = {},
                     !.label = [i \in LineStarts(b) |-> 0]], lines)

Open(buf, boxh, search) ==
  /\ text = Closed
  /\ Reprint(Enter([Closed EXCEPT !.buf = buf, !.boxh = boxh, !.search = search], 0))

(* After a jump the box is opened again where it was. *)
Reopen ==
  /\ ~text.open /\ text.res # 0
  /\ Reprint(Enter(text, text.vscroll))

Init == text = Closed

Next ==
  \/ Home \/ End \/ LineDown \/ PageDown \/ Exit \/ Reopen
  \/ text.open /\ \E n \in {1, text.boxh} : Back(n)
  \/ \E to \in {0, text.hscroll - 1, text.hscroll + 1} : Sideways(to)
  \/ \E boxh \in BoxHeights, border \in Borders : Resize(boxh, border)
  \/ \E key \in 1..JumpNb : Jump(key)
  \/ \E buf \in Texts, boxh \in BoxHeights, search \in BOOLEAN :
       Open(buf, boxh, search)

Spec == Init /\ [][Next]_text

-----------------------------------------------------------------------------
(* Lines on the page, as the user counts them. *)
Lines(b) == {i \in LineStarts(b) : b.top <= i}

Paged ==
  /\ text.top \in LineStarts(text)
  /\ BackLines(text, text.page_length).page = text.top
  /\ text.begin_reached => text.top = 0
  /\ text.end_reached <=> Cardinality(Lines(text)) <= text.boxh

(* Nothing but `page' says where the printed page is: going back by        *)
(* page_length finds its start again, the text can be moved up exactly     *)
(* when there is something above, and down exactly when there is something *)
(* below.  All of this takes a text that ends with a newline.              *)
PageFound == text.open /\ text.buf[Len(text.buf)] => Paged

(* Scrolling sideways prints the same page again, and the results of a    *)
(* search come up on the page they were left on for a jump.                *)
PageKept ==
  [][/\ text.buf[Len(text.buf)]
     /\ \/ text.open /\ text'.open /\ text'.hscroll # text.hscroll
        \/ ~text.open /\ text'.open /\ text.res # 0
     => text'.top = text.top]_text

(* A key shown on the page jumps to the line it is shown in and to no other. *)
KeysJump ==
  text.open /\ text.search =>
    \A i \in DOMAIN text.label :
      i \in text.top..(text.page - 1) /\ text.label[i] # 0 =>
        \A j \in LineStarts(text) : <<text.label[i], j>> \in text.targets <=> i = j
=============================================================================
