---------------------------- MODULE MCMenuconfig ----------------------------
(***************************************************************************)
(* The parts of the configuration programs on small instances: the boxes   *)
(* of menuconfig and what is written into them, the session around them,   *)
(* the values that are typed, the files that a configuration is saved      *)
(* through, and those made from it.  None shares a variable with another,  *)
(* and a behaviour is of one of them.                                      *)
(***************************************************************************)
EXTENDS Dialogs, Mconf, ConfFile, AutoConf

VARIABLES part,   \* which of them
          vals    \* numbers and strings

fileVars == vars

(* `a' is the letter of two items, `s' and `x' also commands, `e' leaves. *)
Letters == [i \in 0..4 |-> <<"a", "s", "b", "a", "x">>[i + 1]]
Texts ==
  [i \in 0..4 |-> <<<<"[", "b", "]", "a">>, <<"<", "m", ">", "n", "s">>, <<"b", "y">>,
                    <<"-", "(", "s", ")", "a">>, <<"e">>>>[i + 1]]
(* All texts of up to six characters. *)
ShortTexts == UNION {[1..n -> BOOLEAN] : n \in 1..6}
(* Trails of up to three titles; prompts of two or three words. *)
ShortTrails == UNION {[1..n -> 1..3] : n \in 1..3}
LongWord == {[len |-> n, sep |-> s] : n \in {1, 2, 4, 7}, s \in {"space", "double", "newline"}}
ShortPrompts ==
  {Append(ws, [len |-> n, sep |-> "end"]) : ws \in UNION {[1..k -> LongWord] : k \in 1..2}, n \in {1, 3, 6}}
(* N is at most HI while WIDE is on.  The files are those of another       *)
(* version of the Config.in files: with HI above its range, N above its    *)
(* range, and strings that end early.                                      *)
Digits(form, n) == [form |-> form, n |-> n]
Numbers == INSTANCE SymString
  WITH Setting <- {"HI", "N", "S"}, Kind <- [HI |-> "int", N |-> "hex", S |-> "string"],
       Option <- {"WIDE", "SHOW"}, Shown <- [HI |-> {}, N |-> {"SHOW"}, S |-> {}],
       Ranges <- [HI |-> <<[if |-> {}, lo |-> "1", hi |-> "3"]>>,
                  N |-> <<[if |-> {"WIDE"}, lo |-> "1", hi |-> "HI"], [if |-> {}, lo |-> "0", hi |-> "1"]>>,
                  S |-> <<>>],
       Default <- [HI |-> <<"2">>, N |-> <<"HI">>, S |-> <<>>],
       Literal <- [l \in {"0", "1", "2", "3"} |->
                     Digits("plain", CHOOSE n \in 0..3 : <<"0", "1", "2", "3">>[n + 1] = l)],
       Typed <- [HI |-> {Digits("plain", 1), Digits("plain", 3), Digits("plain", 4), Digits("bad", 0)},
                 N |-> {Digits("plain", 2), Digits("hex", 3), Digits("hex", 0), Digits("hex", 2)},
                 S |-> {Digits("text", <<"quote">>), Digits("text", <<"backslash">>)}],
       Files <- {[text |-> [HI |-> {Digits("plain", 4)}, N |-> {Digits("hex", 3)}, S |-> {}], on |-> {"WIDE", "SHOW"}],
                 [text |-> [HI |-> {}, N |-> {Digits("hex", 2)}, S |-> {Digits("line", <<"backslash">>)}], on |-> {}],
                 [text |-> [HI |-> {}, N |-> {}, S |-> {Digits("line", <<"backslash", "quote", "quote">>)}],
                  on |-> {"SHOW"}]},
       Orders <- {<<"HI", "N", "S">>, <<"S", "N", "HI">>}, MaxSteps <- 5

(* Where a part is not the one at work, its variables have one value. *)
Off == "off"
MCInit ==
  /\ part \in {"menu", "list", "input", "text", "layout", "session", "values", "file", "auto"}
  /\ MenuInit /\ List!Init /\ Input!Init /\ Pager!Init
  /\ IF part = "layout" THEN DrawInit ELSE drawn = [what |-> Off]
  /\ IF part = "values" THEN Numbers!Init ELSE vals = Off
  /\ SessionInit /\ (part # "session" => conf.file = [n \in Name |-> NoFile])
  /\ Init /\ (part # "file" => config = Missing /\ arg = [w \in Writer |-> CHOOSE c \in Config : TRUE]
                                /\ ~full /\ ~overwrite)
  /\ AutoInit /\ (part # "auto" => dotconfig = auto)

boxVars == <<menu, list, input, pager, drawn>>
MCNext ==
  /\ UNCHANGED part
  /\ \/ part = "menu" /\ MenuNext /\ UNCHANGED <<list, input, pager, drawn, conf, vals, fileVars, autoVars>>
     \/ part = "list" /\ List!Next /\ UNCHANGED <<menu, input, pager, drawn, conf, vals, fileVars, autoVars>>
     \/ part = "input" /\ Input!Next /\ UNCHANGED <<menu, list, pager, drawn, conf, vals, fileVars, autoVars>>
     \/ part = "text" /\ Pager!Next /\ UNCHANGED <<menu, list, input, drawn, conf, vals, fileVars, autoVars>>
     \/ part = "layout" /\ DrawNext /\ UNCHANGED <<menu, list, input, pager, conf, vals, fileVars, autoVars>>
     \/ part = "session" /\ SessionNext /\ UNCHANGED <<boxVars, vals, fileVars, autoVars>>
     \/ part = "values" /\ Numbers!Next /\ UNCHANGED <<boxVars, conf, fileVars, autoVars>>
     \/ part = "file" /\ Next /\ UNCHANGED <<boxVars, conf, vals, autoVars>>
     \/ part = "auto" /\ AutoNext /\ UNCHANGED <<boxVars, conf, vals, fileVars>>

MCSpec == MCInit /\ [][MCNext]_<<part, boxVars, conf, vals, fileVars, autoVars>>

-----------------------------------------------------------------------------
(* An answer is taken, what is saved is read back, and numbers stay in     *)
(* their ranges when the bounds move.                                      *)
ValuesKept == part = "values" => Numbers!ValuesKept /\ Numbers!ValuesInRange
=============================================================================
