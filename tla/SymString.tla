----------------------------- MODULE SymString ------------------------------
(***************************************************************************)
(* Int, hex and string symbols (scripts/config/symbol.c and confdata.c):   *)
(* answers, ranges whose bounds are symbols, and what .config keeps.       *)
(*                                                                         *)
(* The text of a number is its value and its form: "plain" digits, "hex"   *)
(* with 0x in front, "empty", or "bad" when it is no number.  A string is  *)
(* a sequence of characters.  Every front end has the values of all        *)
(* symbols on show before it asks for one.                                 *)
(***************************************************************************)
EXTENDS Integers, Sequences, SequencesExt

CONSTANTS
  Setting,   \* the symbols
  Kind,      \* Kind[s]: "int", "hex" or "string"
  Option,    \* options that ranges and prompts depend on
  Shown,     \* Shown[s]: the options the prompt of s depends on
  Ranges,    \* Ranges[s]: a sequence of [if, lo, hi]: the options, and the bounds
  Default,   \* Default[s]: <<>> or the symbol the default is taken from
  Literal,   \* Literal[l]: the text of the constant symbol l
  Typed,     \* Typed[s]: texts to type for s
  Files,     \* files that were there: [text, on], text[s] a set of at most one text
  Orders,    \* orders of the symbol table
  MaxSteps   \* bound: steps of a session

VARIABLES vals

Quote == "quote"
Back == "backslash"
Text(form, n) == [form |-> form, n |-> n]
Empty(s) == IF Kind[s] = "string" THEN Text("text", <<>>) ELSE Text("empty", 0)

(* def holds the symbols with SYMBOL_DEF_USER, user what def[S_DEF_USER]   *)
(* has for them and for the others.  The rest is history: back are those   *)
(* conf_read() put back to their default, kept an answer that cleared      *)
(* nothing, both since values were last cleared; asked are the answers     *)
(* since a file was read, last the values in the file, fresh says that it  *)
(* was just read.                                                          *)
Blank == [s \in Setting |-> {}]
Init ==
  \E f \in Files :
    vals = [def |-> {}, user |-> Blank, curr |-> [s \in Setting |-> Empty(s)], valid |-> {}, on |-> {},
            file |-> f.text, onFile |-> f.on, changed |-> FALSE, open |-> FALSE, steps |-> 0,
            back |-> {}, kept |-> {}, asked |-> Blank, last |-> Blank, fresh |-> FALSE]

(* What the next step starts from. *)
Now == [vals EXCEPT !.steps = @ + 1, !.fresh = FALSE]

-----------------------------------------------------------------------------
(* Values.                                                                 *)
Clear(v) == [v EXCEPT !.valid = {}, !.changed = TRUE, !.back = {}, !.kept = {}]
Curr(v, b) == IF b \in DOMAIN Literal THEN Literal[b] ELSE v.curr[b]
Visible(v, s) == Shown[s] \subseteq v.on

(* sym_get_range_prop(): the first range whose condition holds. *)
RangeOf(v, s) ==
  LET holds == SelectSeq(Ranges[s], LAMBDA r : r.if \subseteq v.on)
  IN  IF holds = <<>> THEN <<>> ELSE <<Head(holds)>>

Number(s, n) == Text(IF Kind[s] = "hex" THEN "hex" ELSE "plain", n)

(* sym_validate_range(): the lower bound when below, the upper above. *)
Clamped(s, t, lo, hi) ==
  IF t.n < lo THEN Number(s, lo) ELSE IF t.n <= hi THEN t ELSE Number(s, hi)

(* sym_calc_value() of a symbol, and with it of its default and bounds. *)
RECURSIVE Calc(_, _)
Calc(v, s) ==
  IF s \in DOMAIN Literal \cup v.valid THEN v
  ELSE LET begun  == [v EXCEPT !.valid = @ \cup {s}]
           byUser == Visible(v, s) /\ s \in v.def
           ds     == IF byUser THEN <<>> ELSE Default[s]
           with   == IF ds = <<>> THEN begun ELSE Calc(begun, ds[1])
           raw    == CASE byUser -> (CHOOSE t \in v.user[s] : TRUE)
                       [] ds # <<>> -> Curr(with, ds[1])
                       [] OTHER -> Empty(s)
           range  == RangeOf(v, s)
           bounds == IF range = <<>> THEN with
                     ELSE Calc(Calc(with, range[1].lo), range[1].hi)
       IN  [bounds EXCEPT !.curr[s] =
              IF range = <<>> THEN raw
              ELSE Clamped(s, raw, Curr(bounds, range[1].lo).n, Curr(bounds, range[1].hi).n)]
CalcAll(v, order) == FoldLeft(Calc, v, order)
AnyOrder == CHOOSE o \in Orders : TRUE

(* sym_string_valid() *)
Valid(s, t) ==
  CASE Kind[s] = "int" -> t.form = "plain"
    [] Kind[s] = "hex" -> t.form \in {"plain", "hex"}
    [] OTHER -> t.form = "text"

(* sym_string_within_range(), the bounds being calculated *)
WithinRange(v, s, t) ==
  /\ Valid(s, t)
  /\ \A k \in DOMAIN RangeOf(v, s) :
       LET r == RangeOf(v, s)[k] IN Curr(v, r.lo).n <= t.n /\ t.n <= Curr(v, r.hi).n

-----------------------------------------------------------------------------
(* Answers.                                                                *)

(* What is stored: a hex number gets its 0x. *)
Stored(s, t) == IF Kind[s] = "hex" THEN Text("hex", t.n) ELSE t

(* sym_set_string_value(), which takes texts for hidden symbols too (all   *)
(* options are on show if the user likes); the text it had already clears  *)
(* nothing, unless it is a hex number typed without 0x.                    *)
SetString(s, t) ==
  LET v    == CalcAll(Now, AnyOrder)
      same == t \in v.user[s] /\ ~(Kind[s] = "hex" /\ t.form # "hex")
      set  == [v EXCEPT !.def = @ \cup {s}, !.user[s] = {Stored(s, t)}, !.asked[s] = {Stored(s, t)}]
  IN  vals' = IF ~WithinRange(v, s, t) THEN v
              ELSE IF ~same THEN Clear(set)
              ELSE [set EXCEPT !.kept = IF s \in v.def THEN @ ELSE @ \cup {s}]

(* sym_set_tristate_value() of an option the others depend on *)
Switch(o) ==
  vals' = [Clear(Now) EXCEPT !.on = IF o \in @ THEN @ \ {o} ELSE @ \cup {o}]

-----------------------------------------------------------------------------
(* .config                                                                 *)

(* sym_escape_string_value(), and what conf_set_sym_val() makes of it: the *)
(* characters up to the quote, a character after a backslash as it is.     *)
EscapedQuotes(cs) ==
  FlattenSeq([k \in DOMAIN cs |-> IF cs[k] = Quote THEN <<Back, cs[k]>> ELSE <<cs[k]>>]) \o <<Quote>>
Escaped(cs) ==
  FlattenSeq([k \in DOMAIN cs |-> IF cs[k] \in {Quote, Back} THEN <<Back, cs[k]>> ELSE <<cs[k]>>]) \o <<Quote>>

RECURSIVE Unescaped(_)
Unescaped(cs) ==
  IF cs = <<>> THEN Text("bad", <<>>)
  ELSE IF cs[1] = Quote THEN Text("text", <<>>)
  ELSE IF cs[1] = Back /\ Len(cs) = 1 THEN Text("bad", <<>>)
  ELSE LET at == IF cs[1] = Back THEN 2 ELSE 1
           rest == Unescaped(SubSeq(cs, at + 1, Len(cs)))
       IN  [rest EXCEPT !.n = <<cs[at]>> \o @]

Line(s, t) == IF Kind[s] = "string" THEN Text("line", Escaped(t.n)) ELSE t
Parsed(s, t) == IF Kind[s] = "string" THEN Unescaped(t.n) ELSE t

(* SYMBOL_WRITE as sym_calc_value() sets it *)
Written(v, s) == Visible(v, s) \/ Default[s] # <<>>

(* The values that are saved, where none is left from before (history). *)
Settled(v) == IF v.back \cup v.kept = {} THEN [s \in Setting |-> {v.curr[s]}] ELSE Blank

(* conf_write(): calculated anew unless something has changed. *)
Save ==
  LET v == CalcAll(IF vals.changed THEN Now ELSE Clear(Now), AnyOrder)
  IN  vals' = [v EXCEPT !.changed = FALSE, !.onFile = v.on,
                        !.last = Settled(v),
                        !.file = [s \in Setting |-> IF Written(v, s) THEN {Line(s, v.curr[s])} ELSE {}]]

(* sym_get_string_default(): the range does not matter. *)
StringDefault(v, s) == IF Default[s] = <<>> THEN Empty(s) ELSE Curr(v, Default[s][1])

(* conf_write_defconfig(): what can be changed and is not the default. *)
Defconfig(v, s) == Visible(v, s) /\ v.curr[s] # StringDefault(v, s)
SaveDefconfig ==
  LET v == CalcAll(Clear(Now), AnyOrder)
  IN  vals' = [v EXCEPT !.onFile = v.on, !.last = Settled(v),
                        !.file = [s \in Setting |-> IF Defconfig(v, s) THEN {Line(s, v.curr[s])} ELSE {}]]

(* The second loop of conf_read(). *)
PutBack(v, s) ==
  IF s \notin v.def THEN v
  ELSE LET seen  == IF ~Visible(v, s) /\ ~v.changed THEN [v EXCEPT !.def = @ \ {s}] ELSE v
           range == RangeOf(v, s)
           calc  == IF range = <<>> THEN seen ELSE Calc(Calc(seen, range[1].lo), range[1].hi)
       IN  IF WithinRange(calc, s, CHOOSE t \in v.user[s] : TRUE) THEN calc
           ELSE [calc EXCEPT !.def = @ \ {s}, !.valid = @ \ {s}, !.changed = TRUE, !.back = @ \cup {s}]

(* conf_read(): a line whose value is none for its symbol is passed over; *)
(* the first loop compares what was read with what comes of it.            *)
Load(order) ==
  LET given(s) == {Parsed(s, t) : t \in vals.file[s]}
      good(s)  == {t \in given(s) : Valid(s, t)}
      read     == [Now EXCEPT !.valid = {}, !.back = {}, !.kept = {}, !.asked = Blank,
                              !.on = vals.onFile, !.open = TRUE,
                              !.user = [s \in Setting |-> good(s)],
                              !.def = {s \in Setting : good(s) # {}}]
      calc     == CalcAll(read, order)
      agrees(s) == IF s \in calc.def /\ Written(calc, s) THEN calc.curr[s] \in calc.user[s]
                   ELSE s \notin calc.def /\ ~Written(calc, s)
      unsaved  == \E s \in Setting : ~agrees(s)
      warnings == \E s \in Setting : given(s) # good(s)
  IN  vals' = [FoldLeft(PutBack, [calc EXCEPT !.changed = unsaved], order)
                 EXCEPT !.changed = @ \/ warnings, !.fresh = vals.last # Blank]

Next ==
  /\ vals.steps < MaxSteps
  /\ \/ vals.open /\ \E s \in Setting : \E t \in Typed[s] : SetString(s, t)
     \/ vals.open /\ \E o \in Option : Switch(o)
     \/ vals.open /\ Save
     \/ vals.open /\ SaveDefconfig
     \/ \E o \in Orders : Load(o)

-----------------------------------------------------------------------------
Bounds(v, s) == UNION {{r.lo, r.hi} : r \in Range(RangeOf(v, s))}

\* Every number is within its range, whatever becomes of the symbols that bound
\* it.  One with a bound that conf_read() has just put back to its default
\* (confdata.c:463) is so only once something has cleared the values: what is valid
\* stays valid there, and may be saved.
ValuesInRange ==
  \A v \in {CalcAll(vals, AnyOrder)} : \A s \in Setting :
    LET w == IF Bounds(v, s) \cap v.back = {} THEN v ELSE CalcAll(Clear(v), AnyOrder)
    IN  \A k \in DOMAIN RangeOf(w, s) :
          Curr(w, RangeOf(w, s)[k].lo).n <= w.curr[s].n /\ w.curr[s].n <= Curr(w, RangeOf(w, s)[k].hi).n

(* The prompt of s is there and its range, as it is now, has room for t. *)
Admits(v, s, t) == Visible(v, s) /\ WithinRange(v, s, t)

\* A text that was typed and accepted, for a hidden symbol or a visible one, is the
\* value whenever the prompt is there and the range admits it, however both came and
\* went since; and what was saved is read back as it was, quotes, backslashes, 0x and
\* clamped numbers included.  An answer equal to the text of a symbol conf_read() had
\* put back to its default, or found hidden, clears no value (symbol.c:680): it is
\* the value only once something else has cleared them.
ValuesKept ==
  \A v \in {CalcAll(vals, AnyOrder)} : \A s \in Setting :
    /\ \A t \in v.asked[s] : Admits(v, s, t) =>
         (IF s \in v.kept THEN CalcAll(Clear(v), AnyOrder) ELSE v).curr[s] = t
    /\ v.fresh => v.curr[s] \in v.last[s]
=============================================================================
