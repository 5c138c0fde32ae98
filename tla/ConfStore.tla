----------------------------- MODULE ConfStore ------------------------------
(***************************************************************************)
(* What saving a configuration promises: a saved configuration is replaced *)
(* at one moment between the call and the return, by the whole of what was *)
(* to be saved; success means it was, an error that it was not, and a      *)
(* process may be killed at any time.  Only where it is risky, on a full   *)
(* disk or with KCONFIG_OVERWRITECONFIG, may a broken one be left.         *)
(***************************************************************************)
CONSTANTS Writer,   \* processes
          Config,   \* configurations
          Missing,  \* there is none
          Broken    \* less than a configuration

VARIABLES saved,  \* the configuration a user has
          call,   \* call[w]: "none", "called" or "stored"
          arg,    \* arg[w]: what w is to save
          ret,    \* ret[w]: what the last call of w returned
          risky

storeVars == <<saved, call, arg, ret, risky>>

Init ==
  /\ saved \in Config \cup {Missing}
  /\ call = [w \in Writer |-> "none"]
  /\ arg \in [Writer -> Config]
  /\ ret = [w \in Writer |-> "none"]
  /\ risky \in BOOLEAN

Call(w, v) ==
  /\ call[w] = "none"
  /\ call' = [call EXCEPT ![w] = "called"]
  /\ arg' = [arg EXCEPT ![w] = v]
  /\ ret' = [ret EXCEPT ![w] = "none"]
  /\ UNCHANGED <<saved, risky>>

Damage(w) ==
  /\ call[w] = "called" /\ risky
  /\ saved' = Broken
  /\ UNCHANGED <<call, arg, ret, risky>>

Store(w) ==
  /\ call[w] = "called"
  /\ saved' = arg[w] \/ (risky /\ saved' = Broken)
  /\ call' = [call EXCEPT ![w] = "stored"]
  /\ UNCHANGED <<arg, ret, risky>>

Return(w, r) ==
  /\ \/ r = "ok" /\ call[w] = "stored"
     \/ r = "error" /\ call[w] = "called"
     \/ r = "none" /\ call[w] # "none"
  /\ call' = [call EXCEPT ![w] = "none"]
  /\ ret' = [ret EXCEPT ![w] = r]
  /\ UNCHANGED <<saved, arg, risky>>

Next ==
  \E w \in Writer :
    \/ \E v \in Config : Call(w, v)
    \/ Damage(w) \/ Store(w)
    \/ \E r \in {"ok", "error", "none"} : Return(w, r)

Spec == Init /\ [][Next]_storeVars
=============================================================================
