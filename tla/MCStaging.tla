----------------------------- MODULE MCStaging ------------------------------
(***************************************************************************)
(* Two packages that install into the same directory; in other behaviours, *)
(* one package whose files, settings and unpacked sources change while it  *)
(* is built again and again.                                               *)
(***************************************************************************)
EXTENDS Staging, Stamps

VARIABLES part

(* The part that is not at work stays in one of its initial states; which  *)
(* settings come first does not matter.                                    *)
MCInit ==
  /\ part \in {"staging", "stamps"} /\ Init /\ StampInit
  /\ dev.conf = CHOOSE c \in Config : TRUE
  /\ part = "staging" => Listing = Src

MCNext ==
  \/ part = "staging" /\ Next /\ UNCHANGED <<part, stampVars>>
  \/ part = "stamps" /\ StampNext /\ UNCHANGED <<part, vars>>

MCSpec == MCInit /\ [][MCNext]_<<part, vars, stampVars>>

(* p has a library, its link, and a header that only one of its versions   *)
(* installs; q has one library.                                            *)
TwoFile == {"p.so.1", "p.so", "p.h", "q.so"}
TwoOwner == [f \in TwoFile |-> IF f = "q.so" THEN "q" ELSE "p"]
TwoDirOf == [f \in TwoFile |-> IF f = "p.h" THEN "include" ELSE "lib"]
TwoTarget == [f \in {"p.so"} |-> "p.so.1"]
TwoBuilds == [x \in {"p", "q"} |->
  IF x = "p" THEN {{"p.so.1", "p.so"}, {"p.h"}} ELSE {{"q.so"}}]
=============================================================================
