------------------------------ MODULE ConfFile ------------------------------
(***************************************************************************)
(* The files conf_write() of confdata.c goes through: the configuration is *)
(* printed to a file of the process's own, the old one renamed to          *)
(* .config.old, and the new one renamed to .config; or, with               *)
(* KCONFIG_OVERWRITECONFIG, .config is printed over.                       *)
(***************************************************************************)
CONSTANTS Writer,   \* configuration tools at work
          Config,   \* configurations
          Missing,  \* there is no such file
          Broken    \* an empty or cut off file

ASSUME FileAssumption == Missing \notin Config /\ Broken \notin Config /\ Missing # Broken

VARIABLES config,    \* .config
          old,       \* .config.old
          tmp,       \* tmp[w]: .tmpconfig.<pid> of w
          pc,        \* pc[w]: where w is in conf_write()
          arg,       \* arg[w]: the configuration in the memory of w
          ret,       \* ret[w]: what conf_write() returned
          full,      \* the disk is full
          overwrite  \* KCONFIG_OVERWRITECONFIG is set

vars == <<config, old, tmp, pc, arg, ret, full, overwrite>>

File == Config \cup {Missing, Broken}
Places == {"none", "open", "print", "backup", "publish", "done"}

Types ==
  /\ config \in File /\ old \in File
  /\ tmp \in [Writer -> File] /\ pc \in [Writer -> Places]
  /\ arg \in [Writer -> Config] /\ ret \in [Writer -> {"none", "ok", "error"}]
  /\ full \in BOOLEAN /\ overwrite \in BOOLEAN

Init ==
  /\ config \in Config \cup {Missing} /\ old = Missing
  /\ tmp = [w \in Writer |-> Missing] /\ pc = [w \in Writer |-> "none"]
  /\ arg \in [Writer -> Config] /\ ret = [w \in Writer |-> "none"]
  /\ full \in BOOLEAN /\ overwrite \in BOOLEAN

Goto(w, place) == pc' = [pc EXCEPT ![w] = place]
Exit(w, r) == Goto(w, "none") /\ ret' = [ret EXCEPT ![w] = r]

Call(w, v) ==
  /\ pc[w] = "none" /\ Goto(w, "open")
  /\ arg' = [arg EXCEPT ![w] = v]
  /\ ret' = [ret EXCEPT ![w] = "none"]
  /\ UNCHANGED <<config, old, tmp, full, overwrite>>

(* fopen(); no directory, or no permission. *)
OpenFails(w) ==
  /\ pc[w] = "open" /\ Exit(w, "error")
  /\ UNCHANGED <<config, old, tmp, arg, full, overwrite>>

Open(w) ==
  /\ pc[w] = "open" /\ Goto(w, "print")
  /\ IF overwrite THEN config' = Broken /\ UNCHANGED tmp
                  ELSE tmp' = [tmp EXCEPT ![w] = Broken] /\ UNCHANGED config
  /\ UNCHANGED <<old, arg, ret, full, overwrite>>

(* Every line, and fclose(), whose result is not looked at. *)
PrintLines(w) ==
  /\ pc[w] = "print"
  /\ \E data \in {arg[w]} \cup (IF full THEN {Broken} ELSE {}) :
       IF overwrite THEN config' = data /\ UNCHANGED tmp
                    ELSE tmp' = [tmp EXCEPT ![w] = data] /\ UNCHANGED config
  /\ Goto(w, IF overwrite THEN "done" ELSE "backup")
  /\ UNCHANGED <<old, arg, ret, full, overwrite>>

(* Mutant: the old configuration is removed. *)
BackupRemoves(w) ==
  /\ pc[w] = "backup" /\ Goto(w, "publish")
  /\ config' = Missing
  /\ UNCHANGED <<old, tmp, arg, ret, full, overwrite>>
(* rename() to .config.old: nothing happens if there is no .config. *)
Backup(w) ==
  /\ pc[w] = "backup" /\ Goto(w, "publish")
  /\ old' = IF config = Missing THEN old ELSE config
  /\ config' = Missing
  /\ UNCHANGED <<tmp, arg, ret, full, overwrite>>

Publish(w) ==
  /\ pc[w] = "publish" /\ Goto(w, "done")
  /\ config' = tmp[w]
  /\ tmp' = [tmp EXCEPT ![w] = Missing]
  /\ UNCHANGED <<old, arg, ret, full, overwrite>>

PublishFails(w) ==
  /\ pc[w] = "publish" /\ Exit(w, "error")
  /\ UNCHANGED <<config, old, tmp, arg, full, overwrite>>

Return(w) ==
  /\ pc[w] = "done" /\ Exit(w, "ok")
  /\ UNCHANGED <<config, old, tmp, arg, full, overwrite>>

(* The process is killed; a temporary file stays behind. *)
Kill(w) ==
  /\ pc[w] # "none" /\ Exit(w, "none")
  /\ UNCHANGED <<config, old, tmp, arg, full, overwrite>>

Next ==
  \E w \in Writer :
    \/ \E v \in Config : Call(w, v)
    \/ OpenFails(w) \/ Open(w) \/ PrintLines(w) \/ Backup(w)
    \/ Publish(w) \/ PublishFails(w) \/ Return(w) \/ Kill(w)

Spec == Init /\ [][Next]_vars

-----------------------------------------------------------------------------
(* What a user has is .config, or .config.old where there is none: between *)
(* the two renames, and after a tool that died there or failed in the      *)
(* second.                                                                 *)
Had == IF config # Missing THEN config ELSE old

CallOf(w) ==
  IF pc[w] = "none" THEN "none" ELSE IF pc[w] = "done" THEN "stored" ELSE "called"

Store == INSTANCE ConfStore
  WITH saved <- Had, call <- [w \in Writer |-> CallOf(w)], risky <- full \/ overwrite

(* Any number of tools saving, failing and dying at once do to .config and *)
(* .config.old together what ConfStore says: the configuration a user has  *)
(* is replaced in one step and is always whole (744-842).                  *)
SavesAtOnce == Store!Spec
=============================================================================
