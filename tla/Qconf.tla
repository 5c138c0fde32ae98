------------------------------- MODULE Qconf --------------------------------
(***************************************************************************)
(* The lists of xconfig (qconf.cc): the tree of options, the tree of menus *)
(* beside it and the results of a search.  An item is made when its entry  *)
(* is to be listed and deleted when it is not, and its text is set again   *)
(* when the entry has changed: a list is built anew only for another root. *)
(***************************************************************************)
EXTENDS MenuTree

CONSTANTS Saved,      \* .config, as conf_read() leaves the symbols
          Files,      \* the configurations that can be loaded
          Names,      \* the symbols with a name, in the order of strcmp()
          Patterns,   \* <<match, exact>>: the symbols a pattern matches, in part and whole
          MaxSteps    \* bound: what the user does

VARIABLE qconf   \* u: the symbols; dirty: the entries with MENU_CHANGED;
                 \* moved: the choices with SYMBOL_CHANGED; n: the steps made;
                 \* config, menu, search: the lists, [mode, opt, root, items]

Views == <<"search", "config", "menu">>   \* in the order of viewList

(* Items are nested: [menu, vis, shows, kids]; the item ".." has no entry. *)
Back == [menu |-> "up", vis |-> TRUE, shows |-> "back", kids |-> <<>>]

(* fixup_rootmenu(): the menus that the tree of menus shows, and the top   *)
(* of the tree down to the first menus.                                    *)
MenuRoot ==
  LET top[e \in Entry] == e = Root \/ (~IsMenu(e) /\ top[Parent(e)])
      flag[e \in Entry] == top[e] \/ (IsMenu(e) /\ flag[Parent(e)])
  IN  {e \in Entry : flag[e]}

Value(u, e) == IF Kind[e] = "string" THEN Visible(u, e) /\ e \in u.has \cap u.val ELSE e \in u.on

(* ConfigItem::updateMenu(): the prompt of a menu or a comment, or the     *)
(* value of a symbol, none where it cannot be changed, and "(NEW)".        *)
Text(u, l, e, vis) ==
  IF ~HasSym(e) \/ (IsMenu(e) /\ l.mode \in {"single", "symbol"} /\ l.root # e)
  THEN [val |-> "prompt", new |-> FALSE]
  ELSE [val |-> IF Kind[e] # "string" /\ ~Changeable(u, e) /\ l.opt = "normal" THEN "blank"
                ELSE IF Value(u, e) THEN "Y" ELSE "N",
        new |-> e \notin u.has /\ vis]

NewItem(u, l, e, vis) == [menu |-> e, vis |-> vis, shows |-> Text(u, l, e, vis), kids |-> <<>>]

(* menuSkip() and the tests before it in updateMenuList(). *)
Listed(u, l, e) ==
  /\ l.mode = "menu" => e \in MenuRoot
  /\ l.mode = "symbol" => e \notin MenuRoot
  /\ CASE l.opt = "normal" -> e \in u.seen
       [] l.opt = "prompt" -> e \notin Promptless
       [] l.opt = "all" -> TRUE

(* ConfigItem::testUpdateMenu(); UpdateList() sees to changed entries.     *)
Tested(u, l, item, vis, all) ==
  [item EXCEPT !.vis = vis, !.shows = IF all THEN Text(u, l, item.menu, vis) ELSE @]

Put(s, i, x) == SubSeq(s, 1, i - 1) \o <<x>> \o SubSeq(s, i, Len(s))

(* Mutant: the item of an entry that is hidden now stays. *)
DroppedNot(s, i) == s
Dropped(s, i) == SubSeq(s, 1, i - 1) \o SubSeq(s, i + 1, Len(s))

RECURSIVE Sync(_, _, _, _, _), SyncFrom(_, _, _, _, _, _, _)

(* updateMenuList(): the children of e from the i-th on; last is the place *)
(* of the last item that is done.                                          *)
SyncFrom(u, l, all, items, e, i, last) ==
  IF i > Len(Kids[e]) THEN items
  ELSE LET k     == Kids[e][i]
           at    == last + 1
           there == at <= Len(items) /\ items[at].menu = k
           item  == IF there THEN Tested(u, l, items[at], k \in u.seen, all)
                    ELSE NewItem(u, l, k, k \in u.seen)
           deep  == l.mode \in {"full", "menu"} \/ ~IsMenu(k)
           done  == [item EXCEPT !.kids = IF deep THEN Sync(u, l, all, @, k) ELSE <<>>]
       IN  IF Listed(u, l, k)
           THEN SyncFrom(u, l, all, IF there THEN [items EXCEPT ![at] = done] ELSE Put(items, at, done),
                         e, i + 1, at)
           ELSE SyncFrom(u, l, all, IF there THEN Dropped(items, at) ELSE items, e, i + 1, last)

Sync(u, l, all, items, e) ==
  SyncFrom(u, l, all, items, e, 1, IF items # <<>> /\ items[1].menu = "up" THEN 1 ELSE 0)

(* ConfigList::updateList(): the items of the list. *)
Updated(u, l, all) ==
  LET back == l.root # Root /\ (l.mode = "single" \/ (l.mode = "symbol" /\ Parent(l.root) # Root))
      head == HasSym(l.root) /\ (l.mode = "single" \/ (l.mode = "symbol" /\ l.root \notin MenuRoot))
      old  == IF back /\ l.items = <<>> THEN <<Back>> ELSE l.items
      at   == IF back THEN 2 ELSE 1
      item == IF at <= Len(old) THEN Tested(u, l, old[at], TRUE, all) ELSE NewItem(u, l, l.root, TRUE)
      line == [item EXCEPT !.kids = Sync(u, l, all, @, l.root)]
  IN  IF l.mode = "list"
      THEN [i \in DOMAIN l.items |-> Tested(u, l, l.items[i], l.items[i].menu \in u.seen, all)]
      ELSE IF l.root = "none" THEN <<>>
      ELSE IF head THEN SubSeq(old, 1, at - 1) \o <<line>> \o SubSeq(old, at + 1, Len(old))
      ELSE Sync(u, l, all, old, l.root)

RECURSIVE Entries(_), Refreshed(_, _, _, _)
Entries(items) == UNION {{items[i].menu} \cup Entries(items[i].kids) : i \in DOMAIN items}

(* The items of the entries S get their text again. *)
Refreshed(u, l, items, S) ==
  [i \in DOMAIN items |->
     [items[i] EXCEPT !.shows = IF items[i].menu \in S THEN Text(u, l, items[i].menu, items[i].vis) ELSE @,
                      !.kids = Refreshed(u, l, @, S)]]

(* The entries whose menu_is_visible() an update of the list calls. *)
Asked(l, items) ==
  LET in == Entries(items)
      deep(e) == l.mode \in {"full", "menu"} \/ ~IsMenu(e) \/ e = l.root
  IN  IF l.mode = "list" THEN in
      ELSE UNION {Children(e) : e \in {f \in (in \ {"up"}) \cup ({l.root} \ {"none"}) : deep(f)}}

(* One list is updated.  A changed entry that it meets is set again in all *)
(* of the lists, and counts as unchanged from then on.                     *)
UpdateList(q, name, all) ==
  LET Done(items) ==
        LET met   == Entries(q[name].items) \cap Entries(items) \cap q.dirty
            u     == [q.u EXCEPT !.has = @ \cup UNION {Marks(q.u, e) : e \in Asked(q[name], items)}]
            At(n) == [q[n] EXCEPT !.items = Refreshed(u, q[n], IF n = name THEN items ELSE @, met)]
        IN  [q EXCEPT !.u = u, !.dirty = @ \ met,
                      !.config = At("config"), !.menu = At("menu"), !.search = At("search")]
  IN  CHOOSE r \in {Done(items) : items \in {Updated(q.u, q[name], all)}} : TRUE

(* ConfigView::updateList() and updateListAll(). *)
UpdateViews(q, all) ==
  CHOOSE c \in {UpdateList(b, "menu", all) :
    b \in {UpdateList(a, "config", all) : a \in {UpdateList(q, "search", all)}}} : TRUE

Step(q) == qconf.n < MaxSteps /\ \E r \in {q} : r # qconf /\ qconf' = [r EXCEPT !.n = @ + 1]

(* sym_set_changed(): for the entries e whose state the calculation has    *)
(* changed, and the values of a choice that has ever changed.              *)
Changed(q, w, more) ==
  LET State(u, e) == <<Value(u, e), Visible(u, e), u.dep[e] \subseteq u.on, Changeable(u, e)>>
      differ == {e \in Entry : HasSym(e) /\ State(q.u, e) # State(w, e)}
      moved  == q.moved \cup {c \in differ : Kind[c] = "choice"}
  IN  [q EXCEPT !.u = w, !.moved = moved,
         !.dirty = @ \cup differ \cup more \cup UNION {{v \in Children(c) : Kind[v] = "value"} : c \in moved}]

(* sym_set_tristate_value(): what the symbol is already is always allowed. *)
Allowed(u, e, y) ==
  \/ y = (e \in u.on)
  \/ Changeable(u, e) /\ (Kind[e] = "value" => y)
Assign(q, e, y) ==
  LET w == IF Kind[e] = "value" /\ y THEN SetChoice(q.u, Parent(e), e) ELSE Set(q.u, e, y)
  IN  Changed(q, w, {e} \ q.u.has)

(* The items that the user can get at: menuView is hidden but for the split view. *)
InMenuView == IF qconf.config.mode = "symbol" THEN Entries(qconf.menu.items) ELSE {}
Showing == Entries(qconf.config.items) \cup InMenuView \cup Entries(qconf.search.items)
Tristate(e) == e \in Showing /\ HasSym(e) /\ Kind[e] # "string"

(* setValue() *)
SetValue(e, y) ==
  /\ Tristate(e) /\ Allowed(qconf.u, e, y)
  /\ Step(UpdateViews(Assign(qconf, e, y), FALSE))

(* changeValue(): sym_toggle_tristate_value() tries the other value, then  *)
(* the one it has; only another value updates the lists.                   *)
ChangeValue(e) ==
  LET y == e \notin qconf.u.on
  IN  /\ Tristate(e)
      /\ Step(IF Allowed(qconf.u, e, y) THEN UpdateViews(Assign(qconf, e, y), FALSE)
                  ELSE Assign(qconf, e, ~y))

(* ConfigLineEdit::keyPressEvent(): a text that is not taken changes       *)
(* nothing; one for a hidden symbol may be taken.                          *)
LineEdit(e, y) ==
  /\ e \in Showing /\ HasSym(e) /\ Kind[e] = "string"
  /\ \E q \in {qconf, Assign(qconf, e, y)} : Step(UpdateViews(q, FALSE))

(* setRootMenu() *)
SetRoot(q, name, e) ==
  IF e \notin Entry \/ q[name].root = e \/ ~IsMenu(e) THEN q
  ELSE UpdateList([q EXCEPT ![name].root = e, ![name].items = <<>>], name, TRUE)

(* changeMenu(), for a menu that is chosen in one of the lists. *)
ChangeMenu(e) ==
  /\ IsMenu(e)
  /\ \/ e \in InMenuView
     \/ e \in Entries(qconf.config.items) /\ qconf.config.mode # "full"
  /\ Step(SetRoot(qconf, "config", e))

(* goBack() *)
GoBack ==
  /\ qconf.config.root # Root
  /\ Step(SetRoot(qconf, "config", ParentMenu(Parent(qconf.config.root))))

(* setOptionMode(), of configView and then of menuView. *)
SetOptionMode(opt) ==
  Step(UpdateList([UpdateList([qconf EXCEPT !.config.opt = opt], "config", TRUE)
                         EXCEPT !.menu.opt = opt], "menu", TRUE))

(* showSingleView(), showSplitView() and showFullView(); setRootMenu(0)    *)
(* leaves the tree of menus as it is.                                      *)
ShowView(q, mode) ==
  LET r == [q EXCEPT !.config.mode = mode]
      s == IF r.config.root = Root THEN UpdateList(r, "config", TRUE) ELSE SetRoot(r, "config", Root)
  IN  IF mode = "symbol" THEN SetRoot([s EXCEPT !.menu.mode = "menu"], "menu", Root) ELSE s
Show(mode) == qconf.config.mode # mode /\ Step(ShowView(qconf, mode))

(* sym_re_search(): the names that match whole come first (sym_rel_comp()), *)
(* both parts in the order of strcmp(); a pattern may be no expression.    *)
ReSearch(match, exact) ==
  SelectSeq(Names, LAMBDA s : s \in exact) \o SelectSeq(Names, LAMBDA s : s \in match \ exact)

(* search(): the results are the prompts of the symbols that match. *)
Search(match, exact) ==
  LET list == SelectSeq(ReSearch(match, exact), LAMBDA s : s \notin Promptless)
  IN  Step([qconf EXCEPT !.search.items =
        [i \in DOMAIN list |-> NewItem(qconf.u, qconf.search, list[i], list[i] \in qconf.u.seen)]])

(* setMenuLink(): the menu that the list of options is to show for e. *)
LinkRoot(q, e) ==
  CASE q.config.mode = "single" -> ParentMenu(e)
    [] q.config.mode = "symbol" -> IF e \in MenuRoot THEN e ELSE ParentMenu(Parent(e))
    [] OTHER -> q.config.root
SetMenuLink(e) ==
  /\ e # Root
  /\ Listed(qconf.u, [qconf.config EXCEPT !.mode = "full"], e)
  /\ Step(SetRoot(qconf, "config", LinkRoot(qconf, e)))

(* loadConfig() *)
LoadConfig(file) ==
  Step(UpdateViews(Changed(qconf, Calc(file), {}), TRUE))

(* main() and ConfigMainWindow::ConfigMainWindow(). *)
Init ==
  LET none == [u |-> Calc([Saved EXCEPT !.has = {}]), dirty |-> {}, moved |-> {}, n |-> 0,
               config |-> [mode |-> "single", opt |-> "normal", root |-> "none", items |-> <<>>],
               menu   |-> [mode |-> "single", opt |-> "normal", root |-> "none", items |-> <<>>],
               search |-> [mode |-> "list", opt |-> "normal", root |-> "none", items |-> <<>>]]
  IN  qconf = ShowView(Changed(none, Calc(Saved), {}), "symbol")

Next ==
  \/ \E e \in Entry : \/ \E y \in BOOLEAN : SetValue(e, y) \/ LineEdit(e, y)
                      \/ ChangeValue(e) \/ ChangeMenu(e) \/ SetMenuLink(e)
  \/ \E opt \in {"normal", "prompt", "all"} : SetOptionMode(opt)
  \/ \E mode \in {"single", "symbol", "full"} : Show(mode)
  \/ \E p \in Patterns : Search(p[1], p[2])
  \/ \E file \in Files : LoadConfig(file)
  \/ GoBack

-----------------------------------------------------------------------------
RECURSIVE Same(_, _, _)
Same(items, built, opt) ==
  /\ Len(items) = Len(built)
  /\ \A i \in DOMAIN items :
       /\ items[i].menu = built[i].menu /\ Same(items[i].kids, built[i].kids, opt)
       /\ items[i].menu # "up" =>
            /\ items[i].shows.val = built[i].shows.val
            /\ opt = "normal" /\ built[i].shows.new => items[i].shows.new

(* The incremental updates (qconf.cc:578-706) leave each tree as if it had *)
(* been built anew: the entries that are to be listed, in order and at     *)
(* their places, with the values they have now; and every option without a *)
(* value is marked as new where hidden ones are not listed.                *)
ListsCurrent ==
  \A l \in {qconf.config, qconf.menu} :
    Same(l.items, Updated(qconf.u, [l EXCEPT !.items = <<>>], TRUE), l.opt)

(* menuconfig, with its menus folded or not, and both views of xconfig     *)
(* lead to the same entries, the ones that can be seen with everything     *)
(* above them; and what menuconfig shows with show_all_options has a       *)
(* prompt in xconfig.                                                      *)
FrontEndsAgree ==
  LET Full(opt) == Entries(Updated(qconf.u, [mode |-> "full", opt |-> opt, root |-> Root, items |-> <<>>], TRUE))
      plain == {e \in Entry : Kind[e] = "menu"}
  IN  /\ \A open \in {{}, plain} : Opened(qconf.u, Root, FALSE, open) = Reached(qconf.u)
      /\ {Root} \cup Full("normal") = Reached(qconf.u)
      /\ Opened(qconf.u, Root, TRUE, {}) \subseteq {Root} \cup Full("prompt")

(* The key at a search result (mconf.c:446-451) opens a menu in which the  *)
(* entry is found, or the choice that it is a value of; for a hidden entry *)
(* it is the nearest entry above that can be seen.                         *)
JumpsLand ==
  \A e \in Entry : \A t \in JumpTarget(qconf.u, e) :
    LET list == Elements(BuildConf(qconf.u, Parent(t), Parent(t), FALSE, {}))
    IN  t \in list \/ (Kind[t] = "value" /\ Parent(t) \in list)

(* A link (qconf.cc:1565-1615) to an option that can be seen leads to a    *)
(* list that has it, or shows the menu itself, in every view.              *)
LinksLand ==
  \A e \in Reached(qconf.u) \ {Root} :
    LET q == SetRoot(qconf, "config", LinkRoot(qconf, e))
    IN  e \in Entries(q.config.items) \cup InMenuView \cup {q.config.root}
=============================================================================
