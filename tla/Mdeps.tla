------------------------------- MODULE Mdeps --------------------------------
(***************************************************************************)
(* The load order of kernel modules (scripts/mdeps.pl), from which image.mk*)
(* writes /etc/modules.autoload: modules without dependencies first, then  *)
(* passes over the others until none is left.                              *)
(***************************************************************************)
EXTENDS Integers, Sequences, FiniteSets

CONSTANTS Mod,      \* kernel modules
          Matches   \* <<d, m>>: grep(/d/) finds the name d in the name m, as it does in d

VARIABLES deps,      \* modules.dep: the modules on the right of each colon
          resolved,  \* @resolved
          modules,   \* @modules, of length $count
          i          \* index of the for loop, from 1

vars == <<deps, resolved, modules, i>>

In(m, q) == \E k \in DOMAIN q : q[k] = m

(* Orders in which the lines of some modules may come in modules.dep. *)
Lines(S) == {q \in [1..Cardinality(S) -> S] : \A m \in S : In(m, q)}

(* depmod(8) refuses cycles: among any modules there is one that needs none*)
(* of the others.                                                          *)
Acyclic(d) == \A S \in (SUBSET Mod) \ {{}} : \E m \in S : d[m] \cap S = {}

Init ==
  /\ deps \in {d \in [Mod -> SUBSET Mod] : Acyclic(d)}
  /\ resolved \in Lines({m \in Mod : deps[m] = {}})
  /\ modules \in Lines({m \in Mod : deps[m] # {}})
  /\ i = 1

(* Mutant: one dependency that is resolved is enough. *)
ReadyAny(m) == \E d \in deps[m] : \E k \in DOMAIN resolved : <<d, resolved[k]>> \in Matches
Ready(m) == \A d \in deps[m] : \E k \in DOMAIN resolved : <<d, resolved[k]>> \in Matches

Without(q, k) == SubSeq(q, 1, k - 1) \o SubSeq(q, k + 1, Len(q))

Resolve ==
  /\ i <= Len(modules) /\ Ready(modules[i])
  /\ resolved' = Append(resolved, modules[i])
  /\ modules' = Without(modules, i)
  /\ UNCHANGED <<deps, i>>

Skip ==
  /\ i <= Len(modules) /\ ~Ready(modules[i])
  /\ i' = i + 1
  /\ UNCHANGED <<deps, resolved, modules>>

NextPass ==
  /\ i > Len(modules) /\ modules # <<>>
  /\ i' = 1
  /\ UNCHANGED <<deps, resolved, modules>>

Next == Resolve \/ Skip \/ NextPass
Spec == Init /\ [][Next]_vars

-----------------------------------------------------------------------------
(* The passes (mdeps.pl:78) end with every module in the order, after all  *)
(* the modules it depends on when no name is found inside another one      *)
(* (mdeps.pl:88): loading in this order succeeds.                          *)
Ordered ==
  /\ modules = <<>> /\ \A m \in Mod : In(m, resolved)
  /\ \A k \in DOMAIN resolved : \A d \in deps[resolved[k]] : \E l \in 1..(k - 1) : resolved[l] = d
=============================================================================
