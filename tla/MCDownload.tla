----------------------------- MODULE MCDownload -----------------------------
(* Instances of Download: the mirrors a job goes through. *)
EXTENDS Download

(* Two web mirrors behind four local caches: no directory, one instance,   *)
(* two instances, none.                                                    *)
MixedMirrors == <<"nodir", "one", "two", "empty", "web1", "web2">>
MixedCopies == [m \in {"nodir", "one", "two", "empty"} |->
  CASE m = "nodir" -> NoDir [] m = "one" -> 1 [] m = "two" -> 2 [] m = "empty" -> 0]

WebMirrors == <<"web1", "web2">>
NoCopies == [m \in {} |-> 0]
=============================================================================
