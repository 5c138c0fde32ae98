------------------------------ MODULE ConfWalk ------------------------------
(***************************************************************************)
(* The questions of `conf' with --oldconfig, --silentoldconfig and, first  *)
(* about everything, --oldaskconfig (conf.c).                              *)
(* check_conf() looks through the tree for a symbol without a value, and   *)
(* conf() asks about all of them in its menu; answers may bring up others  *)
(* that were passed already, and the search is repeated until a round      *)
(* finds none.                                                             *)
(***************************************************************************)
EXTENDS MenuTree

CONSTANT Starts   \* states of the symbols to begin with

VARIABLE walk   \* u: the symbols; mode: input_mode; root: rootEntry;
                \* again: conf_cnt # 0; stack: the calls, [fn, e, next child, 0 at the start]

Top == walk.stack[Len(walk.stack)]
Frame(fn, e, i) == [fn |-> fn, e |-> e, i |-> i]
At(fn, start) == walk.stack # <<>> /\ Top.fn = fn /\ ((Top.i = 0) <=> start)

(* The call on top gives way to these, the last one first. *)
Instead(s, frames) == SubSeq(s, 1, Len(s) - 1) \o frames

New(e) ==
  /\ HasSym(e) /\ e \notin walk.u.has
  /\ Changeable(walk.u, e) \/ (Kind[e] = "choice" /\ e \in walk.u.on)

(* check_conf() *)
Check ==
  /\ At("check", TRUE)
  /\ LET e == Top.e
         u == Marked(walk.u, e)
         m == ParentMenu(e)
     IN  walk' =
           IF e \notin walk.u.seen
           THEN [walk EXCEPT !.u = u, !.stack = Instead(@, <<>>)]
           ELSE IF New(e)
           THEN [walk EXCEPT !.u = u, !.again = TRUE, !.root = m,
                             !.stack = Instead(@, <<Frame("check", e, 1), Frame("conf", m, 0)>>)]
           ELSE [walk EXCEPT !.u = u, !.stack = Instead(@, <<Frame("check", e, 1)>>)]

(* The loops over the children in check_conf() and conf(). *)
Child(fn) ==
  /\ At(fn, FALSE)
  /\ LET e == Top.e
     IN  walk' = [walk EXCEPT !.stack =
           IF Top.i > Len(Kids[e]) THEN Instead(@, <<>>)
           ELSE Instead(@, <<Frame(fn, e, Top.i + 1), Frame(fn, Kids[e][Top.i], 0)>>)]

(* conf(): a menu below the one at hand is only checked, unless all of it  *)
(* is to be asked about.                                                   *)
Skips(e) ==
  \/ e \notin walk.u.seen
  \/ IsMenu(e) /\ walk.mode = "silentoldconfig" /\ walk.root # e

(* conf_askvalue() reads an answer. *)
Asks(e) == Changeable(walk.u, e) /\ (walk.mode = "oldaskconfig" \/ e \notin walk.u.has)

ConfSkip ==
  /\ At("conf", TRUE) /\ Skips(Top.e)
  /\ walk' = [walk EXCEPT
       !.u = Marked(@, Top.e),
       !.stack = Instead(@, IF Top.e \in walk.u.seen THEN <<Frame("check", Top.e, 0)>> ELSE <<>>)]

ConfPass ==
  /\ At("conf", TRUE) /\ ~Skips(Top.e) /\ Kind[Top.e] # "choice"
  /\ HasSym(Top.e) => ~Asks(Top.e)
  /\ walk' = [walk EXCEPT !.u = Marked(@, Top.e), !.stack = Instead(@, <<Frame("conf", Top.e, 1)>>)]

(* conf_sym() and conf_string(), until the answer is one they take. *)
Answer(y) ==
  /\ At("conf", TRUE) /\ ~Skips(Top.e) /\ HasSym(Top.e) /\ Kind[Top.e] # "choice" /\ Asks(Top.e)
  /\ walk' = [walk EXCEPT !.u = Set(Marked(@, Top.e), Top.e, y),
                          !.stack = Instead(@, <<Frame("conf", Top.e, 1)>>)]

(* conf_choice(): the only value, the one it has, or an answer. *)
Choose(v) ==
  LET c    == Top.e
      seen == {w \in Children(c) : w \in walk.u.seen /\ Kind[w] = "value"}
  IN  /\ At("conf", TRUE) /\ ~Skips(c) /\ Kind[c] = "choice"
      /\ IF c \in walk.u.on
         THEN /\ v \in IF c \in walk.u.has /\ walk.mode # "oldaskconfig" THEN seen \cap walk.u.on ELSE seen
              /\ walk' = [walk EXCEPT !.u = SetChoice(@, c, v), !.stack = Instead(@, <<Frame("conf", v, 1)>>)]
         ELSE walk' = [walk EXCEPT !.stack = Instead(@, <<>>)]

(* Mutant: one round is enough. *)
OneRound ==
  /\ walk.stack = <<>> /\ walk.root # "done"
  /\ walk' = [walk EXCEPT !.root = "done"]
(* main(): the next round, or the end. *)
Round ==
  /\ walk.stack = <<>> /\ walk.root # "done"
  /\ walk' = IF walk.again \/ walk.mode = "oldaskconfig"
             THEN [walk EXCEPT !.again = FALSE, !.stack = <<Frame("check", Root, 0)>>,
                               !.mode = IF @ = "oldaskconfig" THEN "silentoldconfig" ELSE @]
             ELSE [walk EXCEPT !.root = "done"]

Init ==
  \E start \in Starts, mode \in {"oldconfig", "silentoldconfig", "oldaskconfig"} :
    walk = [u |-> Calc(start), mode |-> mode, root |-> Root, again |-> FALSE,
            stack |-> <<Frame(IF mode = "oldaskconfig" THEN "conf" ELSE "check", Root, 0)>>]

Next ==
  \/ Check \/ ConfSkip \/ ConfPass \/ Round
  \/ Child("check") \/ Child("conf")
  \/ \E y \in BOOLEAN : Answer(y)
  \/ \E v \in Entry : Choose(v)

(* The user answers every question. *)
Spec == Init /\ [][Next]_walk /\ WF_walk(Next)

-----------------------------------------------------------------------------
(* The rounds (conf.c:659) come to an end, and then every symbol whose     *)
(* question can be reached has a value, whatever the answers have brought  *)
(* up and hidden again: nothing of the configuration is decided by a       *)
(* default the user was not asked about.                                   *)
AllAsked == <>(walk.root = "done" /\ \A e \in Reached(walk.u) : ~New(e))
=============================================================================
