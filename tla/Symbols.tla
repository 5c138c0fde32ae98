------------------------------ MODULE Symbols ------------------------------
(* Tristate values, and what expressions know of the symbols (expr.h).     *)
EXTENDS Integers

CONSTANTS
  Sym,      \* all symbols, choices included
  Type,     \* Type[s]: "bool" or "tri"
  Modules   \* modules_val, the value of the MODULES symbol

no  == 0
mod == 1
yes == 2
Tristate == {no, mod, yes}

EXPR_AND(a, b) == IF a < b THEN a ELSE b
EXPR_OR(a, b)  == IF a > b THEN a ELSE b
EXPR_NOT(a)    == 2 - a

=============================================================================
