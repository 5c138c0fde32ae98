---------------------------- MODULE FlockProofs ----------------------------
(* Proofs about Flock for every set of processes, command lines and bound. *)
EXTENDS Flock, TLAPS

\* What the state of p's process, child and shell says about p's description.
Owned(p) ==
  /\ pc[p] \in {"cancel", "fork", "wait"}
       => "self" \in refs[p] /\ lock[p] = opt[p].type
  /\ pc[p] \notin Alive => "self" \notin refs[p]
  /\ pc[p] \in {"open", "reopen", "fork", "wait"} => opt[p].mode = "cmd"
  /\ pc[p] \in Alive /\ opt[p].mode = "cmd" => "shell" \notin refs[p]
  /\ "cmd" \in refs[p] =>
       /\ pc[p] \in {"wait", "killed"}
       /\ cmd[p] \in {"forked", "running"}
       /\ lock[p] = opt[p].type
       /\ cmd[p] = "running" => ~opt[p].close
       /\ "shell" \notin refs[p]
  /\ cmd[p] = "forked" => "cmd" \in refs[p]
  /\ cmd[p] = "running" /\ ~opt[p].close => "cmd" \in refs[p]
  /\ cmd[p] \in {"forked", "running"} => pc[p] \notin (Alive \ {"wait"}) \cup {"exited"}
  /\ "shell" \in refs[p] /\ pc[p] = "exited" /\ status[p] = 0
       => lock[p] = opt[p].type
  /\ pc[p] = "exited" /\ opt[p].mode = "cmd" /\ status[p] = 0
       => cmd[p] = "done" /\ ret[p] = 0
  /\ opt[p].close /\ cmd[p] = "running" /\ pc[p] \notin Alive => lock[p] = "UN"

\* No lock coexists with another description's exclusive lock.
LocksAgree == \A p, q \in Procs : p # q /\ lock[p] = "EX" => lock[q] = "UN"

\* The inductive invariant: mutual exclusion alone is not inductive, because
\* it does not say which description the lock a user relies on belongs to.
IInv == TypeOK /\ LocksAgree /\ \A p \in Procs : Owned(p)

USE DEF Alive, Option, Goto, Failures, NotLocked, EX_DATAERR, EX_NOINPUT,
        EX_UNAVAILABLE, EX_OSERR, EX_CANTCREAT

\* Initially nothing is open, locked or running.
LEMMA InitIInv == Init => IInv
  BY OptsAssumption, RunsAssumption DEF Init, IInv, TypeOK, LocksAgree, Owned

\* exit(s) keeps the invariant when no child is left behind and an s of 0 is
\* deserved: the lock is held for the shell, or the command ended with 0.
LEMMA ExitIInv ==
  ASSUME IInv, NEW p \in Procs, NEW s \in CmdStatus \cup Failures \cup {0},
         pc[p] \in Alive, cmd[p] \notin {"forked", "running"},
         s = 0 /\ opt[p].mode = "cmd" => cmd[p] = "done" /\ ret[p] = 0,
         s = 0 /\ "shell" \in refs[p] => lock[p] = opt[p].type,
         Exit(p, s), UNCHANGED <<opt, rdwr, expired, cmd, ret, runs>>
  PROVE  IInv'
<1> USE DEF IInv, Exit, Release
<1>1. TypeOK'
  BY DEF TypeOK
<1>2. LocksAgree'
  BY DEF TypeOK, LocksAgree
<1>3. ASSUME NEW q \in Procs PROVE Owned(q)'
  <2>1. CASE q = p
    <3>1. "cmd" \notin refs[p]
      BY DEF Owned
    <3>2. /\ pc'[p] = "exited" /\ cmd'[p] = cmd[p] /\ ret'[p] = ret[p]
          /\ status'[p] = s /\ opt'[p] = opt[p]
          /\ refs'[p] = refs[p] \ {"self"}
          /\ "shell" \in refs[p] => lock'[p] = lock[p]
      BY DEF TypeOK
    <3>3. QED
      BY <2>1, <3>1, <3>2 DEF Owned
  <2>2. CASE q # p
    BY <2>2 DEF TypeOK, Owned
  <2>3. QED
    BY <2>1, <2>2
<1>4. QED
  BY <1>1, <1>2, <1>3

\* Every step of one place keeps the invariant.
LEMMA StepIInv ==
  ASSUME IInv, NEW p \in Procs,
         \/ ShellOpen(p) \/ ShellClose(p) \/ Kill(p) \/ Alarm(p) \/ CmdEnds(p)
         \/ \E o \in Opts : Invoke(p, o)
         \/ FlockStep(p)
  PROVE  IInv'
<1> USE OptsAssumption, RunsAssumption, StatusAssumption
    DEF IInv, TypeOK, LocksAgree, Owned
<1>1. CASE ShellOpen(p)
  BY <1>1 DEF ShellOpen
<1>2. CASE ShellClose(p)
  BY <1>2 DEF ShellClose, Release
<1>3. CASE Kill(p)
  <2>1. TypeOK' /\ LocksAgree'
    BY <1>3 DEF Kill, Release
  <2>2. Owned(p)'
    <3>1. /\ pc'[p] = "killed" /\ refs'[p] = refs[p] \ {"self"}
          /\ lock'[p] = IF refs[p] \subseteq {"self"} THEN "UN" ELSE lock[p]
          /\ opt'[p] = opt[p] /\ cmd'[p] = cmd[p]
      BY <1>3 DEF Kill, Release
    <3>2. QED
      BY <3>1, <1>3 DEF Kill
  <2>3. ASSUME NEW q \in Procs \ {p} PROVE Owned(q)'
    BY <1>3 DEF Kill, Release
  <2>4. QED
    BY <2>1, <2>2, <2>3
<1>4. CASE Alarm(p)
  BY <1>4 DEF Alarm
<1>5. CASE CmdEnds(p)
  BY <1>5 DEF CmdEnds, Release
<1>6. CASE \E o \in Opts : Invoke(p, o)
  BY <1>6, SMTT(30) DEF Invoke
<1>7. CASE FlockStep(p)
  <2>1. CASE Open(p)
    BY <2>1 DEF Open
  <2>2. CASE OpenFails(p)
    BY <2>2, ExitIInv DEF OpenFails
  <2>3. CASE Arm(p)
    BY <2>3 DEF Arm
  <2>4. CASE FlockSucceeds(p)
    BY <2>4 DEF FlockSucceeds, Lockable, Compatible
  <2>5. CASE FlockBlocks(p)
    BY <2>5 DEF FlockBlocks
  <2>6. CASE FlockWouldBlock(p)
    BY <2>6 DEF FlockWouldBlock
  <2>7. CASE FlockInterrupted(p)
    <3>1. CASE expired[p]
      <4>1. Exit(p, NotLocked) /\ UNCHANGED <<opt, rdwr, expired, cmd, ret, runs>>
        BY <2>7, <3>1 DEF FlockInterrupted
      <4>2. pc[p] \in Alive /\ cmd[p] \notin {"forked", "running"}
        BY <2>7 DEF FlockInterrupted
      <4>3. QED
        BY <4>1, <4>2, ExitIInv
    <3>2. CASE ~expired[p]
      <4>1. /\ pc[p] = "eintr" /\ pc' = [pc EXCEPT ![p] = "call"]
            /\ UNCHANGED <<opt, lock, refs, rdwr, timer, expired, cmd, ret,
                           status, runs>>
        BY <2>7, <3>2 DEF FlockInterrupted
      <4>2. QED
        BY <4>1
    <3>3. QED
      BY <3>1, <3>2
  <2>8. CASE FlockReopens(p)
    BY <2>8 DEF FlockReopens
  <2>9. CASE FlockFails(p)
    BY <2>9, ExitIInv DEF FlockFails
  <2>10. CASE Cancel(p)
    <3>1. CASE opt[p].mode = "cmd"
      <4>1. /\ pc[p] = "cancel" /\ pc' = [pc EXCEPT ![p] = "fork"]
            /\ timer' = [timer EXCEPT ![p] = FALSE]
            /\ UNCHANGED <<opt, lock, refs, rdwr, expired, cmd, ret, status,
                           runs>>
        BY <2>10, <3>1 DEF Cancel
      <4>2. QED
        BY <3>1, <4>1
    <3>2. CASE opt[p].mode = "fd"
      <4>1. Exit(p, 0) /\ UNCHANGED <<opt, rdwr, expired, cmd, ret, runs>>
        BY <2>10, <3>2 DEF Cancel
      <4>2. /\ pc[p] \in Alive /\ cmd[p] \notin {"forked", "running"}
            /\ lock[p] = opt[p].type
        BY <2>10 DEF Cancel
      <4>3. QED
        BY <3>2, <4>1, <4>2, ExitIInv
    <3>3. QED
      BY <2>10, <3>1, <3>2 DEF Cancel
  <2>11. CASE Fork(p)
    BY <2>11 DEF Fork
  <2>12. CASE ForkFails(p)
    BY <2>12, ExitIInv DEF ForkFails
  <2>13. CASE ChildExec(p)
    <3>1. CASE opt[p].close
      <4>1. /\ cmd[p] = "forked" /\ cmd' = [cmd EXCEPT ![p] = "running"]
            /\ refs' = [refs EXCEPT ![p] = @ \ {"cmd"}]
            /\ lock' = [lock EXCEPT ![p] = IF refs[p] \subseteq {"cmd"}
                                           THEN "UN" ELSE @]
            /\ UNCHANGED <<opt, pc, rdwr, timer, expired, ret, status, runs>>
        BY <2>13, <3>1 DEF ChildExec, Release
      <4>2. TypeOK'
        BY <4>1 DEF TypeOK
      <4>3. LocksAgree'
        BY <4>1 DEF LocksAgree
      <4>4. Owned(p)'
        <5>1. /\ pc'[p] = pc[p] /\ refs'[p] = refs[p] \ {"cmd"}
              /\ lock'[p] = IF refs[p] \subseteq {"cmd"} THEN "UN" ELSE lock[p]
              /\ opt'[p] = opt[p] /\ cmd'[p] = "running"
          BY <4>1
        <5>2. QED
          BY <5>1, <3>1, <4>1
      <4>5. ASSUME NEW q \in Procs \ {p} PROVE Owned(q)'
        BY <4>1
      <4>6. QED
        BY <4>2, <4>3, <4>4, <4>5
    <3>2. CASE ~opt[p].close
      BY <2>13, <3>2 DEF ChildExec
    <3>3. QED
      BY <3>1, <3>2
  <2>14. CASE ChildExecFails(p)
    BY <2>14 DEF ChildExecFails, Release
  <2>15. CASE Wait(p)
    <3>1. /\ pc[p] \in Alive /\ cmd[p] = "done" /\ Exit(p, ret[p])
          /\ UNCHANGED <<opt, rdwr, expired, cmd, ret, runs>>
      BY <2>15 DEF Wait
    <3>2. ret[p] \in CmdStatus \cup Failures \cup {0}
      BY <3>1
    <3>3. ret[p] = 0 /\ "shell" \in refs[p] => lock[p] = opt[p].type
      BY <2>15 DEF Wait
    <3> HIDE DEF IInv, TypeOK, LocksAgree, Owned
    <3>4. QED
      BY <3>1, <3>2, <3>3, ExitIInv
  <2>16. CASE FlockCloses(p)
    <3>1. TypeOK'
      BY <2>16 DEF FlockCloses, Release
    <3>2. LocksAgree'
      BY <2>16 DEF FlockCloses, Release
    <3>3. Owned(p)'
      <4>1. /\ pc'[p] = "reopen" /\ refs'[p] = refs[p] \ {"self"}
            /\ opt'[p] = opt[p] /\ cmd'[p] = cmd[p]
        BY <2>16 DEF FlockCloses, Release
      <4>2. QED
        BY <4>1, <2>16 DEF FlockCloses
    <3>4. ASSUME NEW q \in Procs \ {p} PROVE Owned(q)'
      BY <2>16 DEF FlockCloses, Release
    <3>5. QED
      BY <3>1, <3>2, <3>3, <3>4
  <2>17. QED
    BY <1>7, <2>1, <2>2, <2>3, <2>4, <2>5, <2>6, <2>7, <2>8, <2>9, <2>10,
       <2>11, <2>12, <2>13, <2>14, <2>15, <2>16 DEF FlockStep
<1>8. QED
  BY <1>1, <1>2, <1>3, <1>4, <1>5, <1>6, <1>7

\* The invariant holds in every reachable state.
LEMMA Invariance == Spec => []IInv
<1>1. IInv /\ [Next]_vars => IInv'
  <2> SUFFICES ASSUME IInv, [Next]_vars PROVE IInv'
    OBVIOUS
  <2>1. CASE Next
    BY <2>1, StepIInv DEF Next
  <2>2. CASE UNCHANGED vars
    BY <2>2 DEF IInv, TypeOK, LocksAgree, Owned, vars
  <2>3. QED
    BY <2>1, <2>2
<1>2. QED
  BY InitIInv, <1>1, PTL DEF Spec

\* Every variable keeps its type, for any number of processes.
THEOREM Typing == Spec => []TypeOK
  BY Invariance, PTL DEF IInv

\* Users that rely on the lock at the same time all asked for a shared one.
THEOREM Exclusion == Spec => []MutualExclusion
<1>1. IInv => MutualExclusion
  BY DEF IInv, TypeOK, LocksAgree, Owned, MutualExclusion, Relies
<1>2. QED
  BY Invariance, <1>1, PTL

\* Exit status 0 of `flock file command' means the command ran and gave 0.
THEOREM SuccessIsReal == Spec => []SuccessMeansRan
<1>1. IInv => SuccessMeansRan
  BY DEF IInv, Owned, SuccessMeansRan
<1>2. QED
  BY Invariance, <1>1, PTL

\* With -o no command holds the lock after its flock is gone.
THEOREM CloseWorks == Spec => []CloseFreesLock
<1>1. IInv => CloseFreesLock
  BY DEF IInv, Owned, CloseFreesLock
<1>2. QED
  BY Invariance, <1>1, PTL

=============================================================================
