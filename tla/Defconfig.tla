----------------------------- MODULE Defconfig ------------------------------
(***************************************************************************)
(* conf --savedefconfig and conf --defconfig=FILE around the other runs of *)
(* the tools: conf_write_defconfig() (confdata.c) keeps the lines that     *)
(* cannot be got from the defaults, and a later run starts from them.      *)
(***************************************************************************)
EXTENDS ConfSession

VARIABLES
  phase,  \* "full", "minimize" while the minimal file is made, "saved", "again" once it is read
  mini,   \* the minimal file
  full    \* history: what conf_write() would have written in its place

defVars == <<phase, mini, full>>
NoFile == [s \in Sym \ Choices |-> NoLine]

DefInit == Init /\ phase = "full" /\ mini = NoFile /\ full = NoFile

-----------------------------------------------------------------------------
\* sym_is_changable().
Changable(s) == visible[s] > revDep[s]

\* sym_get_string_default(): with the selects, but not with unmet dependencies.
StringDefault(s) ==
  LET tri == EXPR_OR(DefaultVal(s, curr), revDep[s])
  IN  IF tri = mod /\ (Type[s] = "bool" \/ (Modules = no /\ s \notin ChoiceVals)) THEN yes ELSE tri

\* Mutant: whichever value the choice would take.
ImpliedByChoiceAny(s) == s \in ChoiceVals /\ Type[s] = "bool" /\ curr[s] = yes

\* A bool value that its choice takes anyway; no choice is optional.
ImpliedByChoice(s) ==
  /\ s \in ChoiceVals /\ Type[s] = "bool" /\ curr[s] = yes
  /\ s = ChoiceDefault(ChoiceOf[s], {v \in Values(ChoiceOf[s]) : visible[v] # no}, curr)

\* The lines of conf_write_defconfig().
Minimal ==
  [s \in Sym \ Choices |->
     IF /\ s \in write /\ Changable(s)
        /\ Output[s] # StringDefault(s)
        /\ ~ImpliedByChoice(s)
     THEN Output[s] ELSE NoLine]

\* conf --savedefconfig has read .config: all is computed afresh ...
MinimizeBegin ==
  /\ phase = "full" /\ mode = "idle" /\ ops = 0
  /\ ClearAllValid
  /\ mode' = "write" /\ phase' = "minimize"
  /\ UNCHANGED <<curr, sel, visible, dirDep, revDep, hasUser, user, userSel, write, early>>
  /\ UNCHANGED <<session, config, bytool, tmp, asked, ops, mini, full>>

\* ... and written; the process ends.
MinimizeEnd ==
  /\ phase = "minimize" /\ valid = Sym
  /\ mini' = Minimal /\ full' = Output /\ phase' = "saved"
  /\ Restart
  /\ mode' = "start" /\ asked' = NoAnswer /\ ops' = 0
  /\ UNCHANGED <<session, config, bytool, tmp>>

\* conf --defconfig=FILE reads the minimal file where it would read .config.
ReadDefconfig ==
  /\ phase = "saved"
  /\ config' = mini /\ bytool' = FALSE /\ phase' = "again"
  /\ UNCHANGED <<symVars, mode, session, tmp, asked, ops, mini, full>>

\* The other steps: only computations while the minimal file is made, and then
\* what conf --defconfig does until it ends.
Others ==
  /\ phase # "saved" /\ Next
  /\ phase = "minimize" => mode' = "write"
  /\ phase = "again" =>
       /\ session' = "defconfig"
       /\ mode = "new" => UNCHANGED <<user, hasUser>>
  /\ phase' = IF phase = "again" /\ mode' = "start" THEN "full" ELSE phase
  /\ IF phase' = phase THEN UNCHANGED <<mini, full>> ELSE mini' = NoFile /\ full' = NoFile

DefNext == Others \/ MinimizeBegin \/ MinimizeEnd \/ ReadDefconfig

DefSpec == DefInit /\ [][DefNext]_<<vars, defVars>>

-----------------------------------------------------------------------------
\* "All values that has default values are skipped as this is redundant"
\* (confdata.c:669): what conf --defconfig makes of the minimal file is the
\* configuration the file was made of.
DefconfigKeeps == phase = "again" /\ mode = "done" => config = full
=============================================================================
