------------------------------- MODULE MCConf -------------------------------
(* Small menus for ConfSession, as menu_finalize() leaves them.            *)
EXTENDS Defconfig, KconfigExpr

And(a, b) == <<"and", a, b>>
Or(a, b) == <<"or", a, b>>

Used == {Prompt[s] : s \in Sym} \cup {DirDep[s] : s \in Sym} \cup {RevDep[s] : s \in Sym}
  \cup UNION {{Defaults[s][i].cond : i \in DOMAIN Defaults[s]} : s \in Sym}
  \cup UNION {{Defaults[s][i].val : i \in DOMAIN Defaults[s]} : s \in Sym \ Choices}

\* Packages: LIB needs BASE, APP selects LIB and is a module by default.  The bool
\* choice SSL of APP prefers FAST, which needs LIB=y.
PkgSym == {"BASE", "LIB", "APP", "SSL", "NONE", "FAST"}
PkgType == [s \in PkgSym |-> IF s \in {"LIB", "APP"} THEN "tri" ELSE "bool"]
PkgPos == [BASE |-> 1, LIB |-> 2, APP |-> 3, SSL |-> 4, NONE |-> 5, FAST |-> 6]
PkgPrompt == [BASE |-> Y, LIB |-> S("BASE"), APP |-> Y, SSL |-> S("APP"), NONE |-> S("SSL"),
              FAST |-> And(S("SSL"), Eq("LIB", "y"))]
PkgDir == [s \in PkgSym |-> IF s = "LIB" THEN S("BASE") ELSE Y]
PkgRev == [s \in PkgSym |->
  CASE s = "LIB" -> S("APP") [] s = "SSL" -> And(S("APP"), M) [] OTHER -> N]
PkgDefaults == [s \in PkgSym |->
  CASE s = "BASE" -> <<[val |-> Y, cond |-> Y]>>
    [] s = "APP" -> <<[val |-> M, cond |-> S("BASE")]>>
    [] s = "SSL" -> <<[val |-> "FAST", cond |-> S("APP")]>>
    [] OTHER -> <<>>]
PkgChoices == {"SSL"}
PkgChoiceOf == [v \in {"NONE", "FAST"} |-> "SSL"]
NoChoiceOf == [s \in {} |-> s]
PkgFiles == {[s \in PkgSym \ PkgChoices |-> NoLine],
             [BASE |-> no, LIB |-> yes, APP |-> mod, NONE |-> yes, FAST |-> yes]}

\* A tristate choice DRV, asked about only with HW.  Its values may be modules;
\* TWO is seen as far as HW is, and preferred, and has an entry OPT below it.  The
\* bool choice BUS needs OPT.
DrvSym == {"HW", "DRV", "ONE", "TWO", "OPT", "BUS", "PCI"}
DrvType == [s \in DrvSym |-> IF s \in {"BUS", "PCI"} THEN "bool" ELSE "tri"]
DrvPos == [HW |-> 1, DRV |-> 2, ONE |-> 3, TWO |-> 4, OPT |-> 5, BUS |-> 6, PCI |-> 7]
DrvPrompt == [HW |-> Y, DRV |-> Ne("HW", "n"), ONE |-> S("DRV"), TWO |-> And(S("DRV"), S("HW")),
              OPT |-> And(S("DRV"), S("TWO")), BUS |-> S("OPT"), PCI |-> S("BUS")]
DrvDir == [s \in DrvSym |->
  CASE s = "OPT" -> And(S("DRV"), S("TWO")) [] s = "BUS" -> S("OPT") [] OTHER -> Y]
DrvRev == [s \in DrvSym |->
  CASE s = "DRV" -> And(Ne("HW", "n"), M) [] s = "BUS" -> And(S("OPT"), M) [] OTHER -> N]
DrvDefaults == [s \in DrvSym |->
  IF s = "DRV" THEN <<[val |-> "TWO", cond |-> Ne("HW", "n")]>> ELSE <<>>]
DrvChoices == {"DRV", "BUS"}
DrvChoiceOf == [v \in {"ONE", "TWO", "PCI"} |-> IF v = "PCI" THEN "BUS" ELSE "DRV"]
DrvFile(hw, one, two, opt, pci) ==
  [HW |-> hw, ONE |-> one, TWO |-> two, OPT |-> opt, PCI |-> pci]
DrvFiles == {DrvFile(NoLine, NoLine, NoLine, NoLine, NoLine),
             DrvFile(yes, yes, yes, NoLine, NoLine),
             DrvFile(yes, yes, mod, yes, NoLine),
             DrvFile(mod, yes, mod, yes, NoLine)}

\* TOOL is on by default, but asked about only as far as DBG allows.
AskSym == {"DBG", "TOOL"}
AskType == [s \in AskSym |-> "tri"]
AskPos == [DBG |-> 1, TOOL |-> 2]
AskPrompt == [DBG |-> Y, TOOL |-> S("DBG")]
AskDir == [s \in AskSym |-> Y]
AskRev == [s \in AskSym |-> N]
AskDefaults == [DBG |-> <<>>, TOOL |-> <<[val |-> Y, cond |-> Y]>>]
AskFiles == {[s \in AskSym |-> NoLine]}

\* The two other menus are plain ones.
ASSUME PlainMenus ==
  \/ Sym = AskSym /\ ~DefaultsShown
  \/ Sym = PkgSym /\ DefaultsShown /\ ValuesShown /\ BoolChoices
  \/ Sym = DrvSym /\ DefaultsShown /\ ValuesShown /\ ~BoolChoices /\ ~ValuesOnly
=============================================================================
