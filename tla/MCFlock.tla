------------------------------ MODULE MCFlock ------------------------------
(* Small instances of Flock: the command lines each run uses.              *)
EXTENDS Flock

Line(type, nb, wait, close, mode) ==
  [type |-> type, nb |-> nb, wait |-> wait, close |-> close, mode |-> mode]

\* `locked' of rules.mk is the first; the others cover every option.
AllOpts ==
  {Line("EX", FALSE, "none", FALSE, "cmd"),
   Line("EX", FALSE, "pos", TRUE, "cmd"),
   Line("SH", TRUE, "none", FALSE, "cmd"),
   Line("EX", FALSE, "zero", FALSE, "fd"),
   Line("SH", FALSE, "none", FALSE, "fd"),
   Line("UN", FALSE, "none", FALSE, "fd")}

WaitOpts ==
  {Line("EX", FALSE, "none", FALSE, "cmd"),
   Line("EX", FALSE, "pos", FALSE, "cmd")}

FdOpts ==
  WaitOpts \cup
  {Line("SH", FALSE, "none", FALSE, "fd"),
   Line("EX", TRUE, "none", FALSE, "fd")}

=============================================================================
