------------------------------- MODULE Flock -------------------------------
(***************************************************************************)
(* The flock(1) tool the build runs its critical sections under            *)
(* (tools/flock/src/flock.c; the `locked' macro of rules.mk).              *)
(*                                                                         *)
(* One lock file.  Each p \in Procs is a place where flock is invoked again*)
(* and again, either as `flock file command' (mode "cmd") or, from a shell *)
(* that keeps the file open, as `flock fd#' (mode "fd").  The lock belongs *)
(* to the open file description, and the description lives as long as some *)
(* process refers to it: refs[p] is that set of processes, the flock       *)
(* process itself ("self"), its command ("cmd") and the shell ("shell").   *)
(***************************************************************************)
EXTENDS Integers, FiniteSets

CONSTANTS
  Procs,      \* places where flock is invoked
  Opts,       \* the command lines used there
  MaxRuns,    \* bound: invocations per place
  CmdStatus,  \* what a command can end with, as flock reports it
  Nfs         \* TRUE: flock(2) needs a writable descriptor (flock.c:270)

\* A command line: lock type, -n, -w (none, 0, or more), -o and the mode.
Option == [type : {"SH", "EX", "UN"}, nb : BOOLEAN,
           wait : {"none", "zero", "pos"}, close : BOOLEAN,
           mode : {"cmd", "fd"}]

ASSUME OptsAssumption    == Opts \subseteq Option /\ Opts # {}
ASSUME RunsAssumption    == MaxRuns \in Nat
ASSUME StatusAssumption  == CmdStatus \subseteq Int
ASSUME NfsAssumption     == Nfs \in BOOLEAN

\* sysexits(3) codes flock ends with, and the 1 of a lock it did not get.
EX_DATAERR     == 65
EX_NOINPUT     == 66
EX_UNAVAILABLE == 69
EX_OSERR       == 71
EX_CANTCREAT   == 73
NotLocked      == 1
Failures == {NotLocked, EX_DATAERR, EX_NOINPUT, EX_UNAVAILABLE, EX_OSERR,
             EX_CANTCREAT}

VARIABLES
  opt,      \* opt[p]: the command line of p's current or last invocation
  pc,       \* where the flock process is in main()
  lock,     \* the lock p's open file description holds
  refs,     \* the processes that have p's description open
  rdwr,     \* open_flags & O_RDWR
  timer,    \* ITIMER_REAL is running
  expired,  \* timeout_expired
  cmd,      \* the child process
  ret,      \* what waitpid() will say of the child, once it ended
  status,   \* exit status of the last invocation that ended
  runs      \* invocations so far

vars == <<opt, pc, lock, refs, rdwr, timer, expired, cmd, ret, status, runs>>

Alive == {"open", "arm", "call", "reopen", "blocked", "eintr", "cancel", "fork",
          "wait"}

TypeOK ==
  /\ opt \in [Procs -> Option]
  /\ pc \in [Procs -> Alive \cup {"idle", "exited", "killed"}]
  /\ lock \in [Procs -> {"SH", "EX", "UN"}]
  /\ refs \in [Procs -> SUBSET {"self", "cmd", "shell"}]
  /\ rdwr \in [Procs -> BOOLEAN]
  /\ timer \in [Procs -> BOOLEAN]
  /\ expired \in [Procs -> BOOLEAN]
  /\ cmd \in [Procs -> {"none", "forked", "running", "done"}]
  /\ ret \in [Procs -> CmdStatus \cup Failures \cup {0}]
  /\ status \in [Procs -> CmdStatus \cup Failures \cup {0}]
  /\ runs \in [Procs -> 0..MaxRuns]

Init ==
  /\ opt \in [Procs -> Opts]
  /\ pc = [p \in Procs |-> "idle"]
  /\ lock = [p \in Procs |-> "UN"]
  /\ refs = [p \in Procs |-> {}]
  /\ rdwr = [p \in Procs |-> FALSE]
  /\ timer = [p \in Procs |-> FALSE]
  /\ expired = [p \in Procs |-> FALSE]
  /\ cmd = [p \in Procs |-> "none"]
  /\ ret = [p \in Procs |-> 0]
  /\ status = [p \in Procs |-> 0]
  /\ runs = [p \in Procs |-> 0]

-----------------------------------------------------------------------------
(* The kernel's side of flock(2), from how main() uses it.                 *)

\* No other description holds a lock that excludes one of type t.
Compatible(p, t) ==
  \A q \in Procs \ {p} :
    /\ t = "EX" => lock[q] = "UN"
    /\ t = "SH" => lock[q] # "EX"

\* `who' closes p's description; the last close gives up the lock.
Release(p, who) ==
  /\ refs' = [refs EXCEPT ![p] = @ \ {who}]
  /\ lock' = [lock EXCEPT ![p] = IF refs[p] \subseteq {who} THEN "UN" ELSE @]

Goto(p, l) == pc' = [pc EXCEPT ![p] = l]

\* exit(s): the descriptor is closed and the interval timer dies.
Exit(p, s) ==
  /\ Goto(p, "exited")
  /\ status' = [status EXCEPT ![p] = s]
  /\ timer' = [timer EXCEPT ![p] = FALSE]
  /\ Release(p, "self")

-----------------------------------------------------------------------------
(* The surroundings: shells, invocations, kills.                           *)

\* exec 9>file, in a shell that will use `flock 9'.
ShellOpen(p) ==
  /\ pc[p] \notin Alive /\ refs[p] = {} /\ runs[p] < MaxRuns
  /\ refs' = [refs EXCEPT ![p] = {"shell"}]
  /\ Goto(p, "idle")
  /\ UNCHANGED <<opt, lock, rdwr, timer, expired, cmd, ret, status, runs>>

\* The shell closes the descriptor or ends.
ShellClose(p) ==
  /\ "shell" \in refs[p] /\ pc[p] \notin Alive
  /\ Release(p, "shell")
  /\ Goto(p, "idle")
  /\ UNCHANGED <<opt, rdwr, timer, expired, cmd, ret, status, runs>>

\* main() parses its options and the fd# (125-242): an fd# names the shell's
\* description, which the new process inherits.
Invoke(p, o) ==
  /\ pc[p] \notin Alive /\ runs[p] < MaxRuns
  /\ refs[p] = IF o.mode = "fd" THEN {"shell"} ELSE {}
  /\ opt' = [opt EXCEPT ![p] = o]
  /\ Goto(p, IF o.mode = "fd" THEN "arm" ELSE "open")
  /\ refs' = [refs EXCEPT ![p] = IF o.mode = "fd" THEN @ \cup {"self"} ELSE @]
  /\ rdwr' = [rdwr EXCEPT ![p] = FALSE]
  /\ expired' = [expired EXCEPT ![p] = FALSE]
  /\ cmd' = [cmd EXCEPT ![p] = "none"]
  /\ runs' = [runs EXCEPT ![p] = @ + 1]
  /\ UNCHANGED <<lock, timer, ret, status>>

\* SIGKILL or an interrupted build: the flock process goes, its command and
\* the shell stay.
Kill(p) ==
  /\ pc[p] \in Alive
  /\ Goto(p, "killed")
  /\ timer' = [timer EXCEPT ![p] = FALSE]
  /\ Release(p, "self")
  /\ UNCHANGED <<opt, rdwr, expired, cmd, ret, status, runs>>

-----------------------------------------------------------------------------
(* The steps of main().                                                    *)

\* open() of the lock file (209-224).
Open(p) ==
  /\ pc[p] = "open"
  /\ Goto(p, "arm")
  /\ refs' = [refs EXCEPT ![p] = {"self"}]
  /\ UNCHANGED <<opt, lock, rdwr, timer, expired, cmd, ret, status, runs>>

OpenFails(p) ==
  /\ pc[p] = "open"
  /\ \E s \in {EX_OSERR, EX_CANTCREAT, EX_NOINPUT} : Exit(p, s)
  /\ UNCHANGED <<opt, rdwr, expired, cmd, ret, runs>>

\* sigaction() and setitimer() for -w (243-260).
Arm(p) ==
  /\ pc[p] = "arm"
  /\ Goto(p, "call")
  /\ timer' = [timer EXCEPT ![p] = opt[p].wait = "pos"]
  /\ UNCHANGED <<opt, lock, refs, rdwr, expired, cmd, ret, status, runs>>

\* type|block with LOCK_NB set: -n, and -w 0, which "is equivalent to -n".
NonBlocking(p) == opt[p].nb \/ opt[p].wait = "zero"

\* The descriptor flock(2) is given can take a lock of this type.
Lockable(p) ==
  /\ "self" \in refs[p]
  /\ Nfs /\ opt[p].type = "EX" => rdwr[p]

\* flock(2) returns 0: a lock is changed, taken, or with LOCK_UN removed.
FlockSucceeds(p) ==
  /\ pc[p] \in {"call", "blocked"}
  /\ Lockable(p) /\ Compatible(p, opt[p].type)
  /\ lock' = [lock EXCEPT ![p] = opt[p].type]
  /\ Goto(p, "cancel")
  /\ UNCHANGED <<opt, refs, rdwr, timer, expired, cmd, ret, status, runs>>

\* flock(2) blocks.  The kernel first drops a lock of the other type that the
\* description already had.
FlockBlocks(p) ==
  /\ pc[p] = "call"
  /\ Lockable(p) /\ ~Compatible(p, opt[p].type) /\ ~NonBlocking(p)
  /\ lock' = [lock EXCEPT ![p] = "UN"]
  /\ Goto(p, "blocked")
  /\ UNCHANGED <<opt, refs, rdwr, timer, expired, cmd, ret, status, runs>>

\* EWOULDBLOCK: exit(1) (264-265).
FlockWouldBlock(p) ==
  /\ pc[p] = "call"
  /\ Lockable(p) /\ ~Compatible(p, opt[p].type) /\ NonBlocking(p)
  /\ Goto(p, "exited")
  /\ status' = [status EXCEPT ![p] = NotLocked]
  /\ timer' = [timer EXCEPT ![p] = FALSE]
  /\ refs' = [refs EXCEPT ![p] = @ \ {"self"}]
  /\ lock' = [lock EXCEPT ![p] = "UN"]
  /\ UNCHANGED <<opt, rdwr, expired, cmd, ret, runs>>

\* Mutant: the EINTR case forgets to look at timeout_expired.
FlockAlwaysRetries(p) ==
  /\ pc[p] = "eintr" /\ Goto(p, "call")
  /\ UNCHANGED <<opt, lock, refs, rdwr, timer, expired, cmd, ret, status, runs>>

\* EINTR: give up when the alarm went off, otherwise call again (266-269).
FlockInterrupted(p) ==
  /\ pc[p] = "eintr"
  /\ IF expired[p]
     THEN Exit(p, NotLocked)
     ELSE Goto(p, "call") /\ UNCHANGED <<lock, refs, timer, status>>
  /\ UNCHANGED <<opt, rdwr, expired, cmd, ret, runs>>

\* EBADF and a named file that may be written: close it ... (270-279)
FlockCloses(p) ==
  /\ pc[p] = "call"
  /\ ~Lockable(p) /\ ~rdwr[p] /\ opt[p].type # "SH" /\ opt[p].mode = "cmd"
  /\ Goto(p, "reopen")
  /\ Release(p, "self")
  /\ UNCHANGED <<opt, rdwr, timer, expired, cmd, ret, status, runs>>

\* Mutant: the EBADF case leaves open_flags alone.
FlockReopensReadOnly(p) ==
  /\ pc[p] = "reopen"
  /\ Goto(p, "call")
  /\ refs' = [refs EXCEPT ![p] = {"self"}]
  /\ UNCHANGED <<opt, lock, rdwr, timer, expired, cmd, ret, status, runs>>

\* ... and reopen it O_RDWR before the next call (280-283).  When that fails
\* the next call is made with fd -1.
FlockReopens(p) ==
  /\ pc[p] = "reopen"
  /\ Goto(p, "call")
  /\ rdwr' = [rdwr EXCEPT ![p] = TRUE]
  /\ \E fd \in {{"self"}, {}} : refs' = [refs EXCEPT ![p] = fd]
  /\ UNCHANGED <<opt, lock, timer, expired, cmd, ret, status, runs>>

\* EBADF again, access() denied, or another error (284-291).
FlockFails(p) ==
  /\ pc[p] = "call"
  /\ \/ ~Lockable(p) /\ Exit(p, EX_DATAERR)
     \/ Exit(p, EX_OSERR)
  /\ UNCHANGED <<opt, rdwr, expired, cmd, ret, runs>>

\* SIGALRM: timeout_handler runs, and a blocked flock(2) returns EINTR.
Alarm(p) ==
  /\ timer[p]
  /\ timer' = [timer EXCEPT ![p] = FALSE]
  /\ expired' = [expired EXCEPT ![p] = TRUE]
  /\ pc' = [pc EXCEPT ![p] = IF @ = "blocked" THEN "eintr" ELSE @]
  /\ UNCHANGED <<opt, lock, refs, rdwr, cmd, ret, status, runs>>

\* The lock is held: cancel the timer (293-296); `flock fd#' is done (298, 340).
Cancel(p) ==
  /\ pc[p] = "cancel"
  /\ \/ /\ opt[p].mode = "cmd"
        /\ Goto(p, "fork")
        /\ timer' = [timer EXCEPT ![p] = FALSE]
        /\ UNCHANGED <<lock, refs, status>>
     \/ opt[p].mode = "fd" /\ Exit(p, 0)
  /\ UNCHANGED <<opt, rdwr, expired, cmd, ret, runs>>

\* fork(): the child inherits the descriptor (300-315).
Fork(p) ==
  /\ pc[p] = "fork"
  /\ Goto(p, "wait")
  /\ cmd' = [cmd EXCEPT ![p] = "forked"]
  /\ refs' = [refs EXCEPT ![p] = @ \cup {"cmd"}]
  /\ UNCHANGED <<opt, lock, rdwr, timer, expired, ret, status, runs>>

\* Mutant: a failed fork() falls through to `return status'.
ForkFailsSilently(p) ==
  /\ pc[p] = "fork"
  /\ Exit(p, 0)
  /\ UNCHANGED <<opt, rdwr, expired, cmd, ret, runs>>

ForkFails(p) ==
  /\ pc[p] = "fork"
  /\ Exit(p, EX_OSERR)
  /\ UNCHANGED <<opt, rdwr, expired, cmd, ret, runs>>

\* Mutants: the child always, or never, closes the descriptor.
ChildExecCloses(p) ==
  /\ cmd[p] = "forked"
  /\ cmd' = [cmd EXCEPT ![p] = "running"]
  /\ Release(p, "cmd")
  /\ UNCHANGED <<opt, pc, rdwr, timer, expired, ret, status, runs>>

\* The child closes the descriptor for -o and becomes the command (311-315).
ChildExec(p) ==
  /\ cmd[p] = "forked"
  /\ cmd' = [cmd EXCEPT ![p] = "running"]
  /\ IF opt[p].close THEN Release(p, "cmd") ELSE UNCHANGED <<lock, refs>>
  /\ UNCHANGED <<opt, pc, rdwr, timer, expired, ret, status, runs>>

\* execvp() fails: _exit() with the reason (316-318).
ChildExecFails(p) ==
  /\ cmd[p] = "forked"
  /\ cmd' = [cmd EXCEPT ![p] = "done"]
  /\ \E s \in {EX_OSERR, EX_UNAVAILABLE} : ret' = [ret EXCEPT ![p] = s]
  /\ Release(p, "cmd")
  /\ UNCHANGED <<opt, pc, rdwr, timer, expired, status, runs>>

\* The command returns or is killed by a signal.
CmdEnds(p) ==
  /\ cmd[p] = "running"
  /\ cmd' = [cmd EXCEPT ![p] = "done"]
  /\ \E s \in CmdStatus : ret' = [ret EXCEPT ![p] = s]
  /\ Release(p, "cmd")
  /\ UNCHANGED <<opt, pc, rdwr, timer, expired, status, runs>>

\* waitpid() returns the child, whose status is flock's own (319-340).  It does not
\* fail: the child is this process's, and SIGCHLD is SIG_DFL (305).
Wait(p) ==
  /\ pc[p] = "wait" /\ cmd[p] = "done"
  /\ Exit(p, ret[p])
  /\ UNCHANGED <<opt, rdwr, expired, cmd, ret, runs>>

-----------------------------------------------------------------------------
\* What the flock process and its child do by themselves.
FlockStep(p) ==
  \/ Open(p) \/ OpenFails(p) \/ Arm(p)
  \/ FlockSucceeds(p) \/ FlockBlocks(p) \/ FlockWouldBlock(p)
  \/ FlockInterrupted(p) \/ FlockCloses(p) \/ FlockReopens(p) \/ FlockFails(p)
  \/ Cancel(p) \/ Fork(p) \/ ForkFails(p)
  \/ ChildExec(p) \/ ChildExecFails(p) \/ Wait(p)

Next ==
  \E p \in Procs :
    \/ ShellOpen(p) \/ ShellClose(p) \/ Kill(p) \/ Alarm(p) \/ CmdEnds(p)
    \/ \E o \in Opts : Invoke(p, o)
    \/ FlockStep(p)

Spec == Init /\ [][Next]_vars

\* A scheduled process goes on and the kernel delivers its alarm; commands and
\* shells may take forever.
FlockFairness == \A p \in Procs : WF_vars(FlockStep(p)) /\ WF_vars(Alarm(p))
FlockFairSpec == Spec /\ FlockFairness

\* Besides, every command ends and every shell closes its descriptor.
CommandsEnd == \A p \in Procs : WF_vars(CmdEnds(p)) /\ WF_vars(ShellClose(p))

-----------------------------------------------------------------------------
\* p's user relies on having a lock: its command runs with the descriptor open
\* (by itself, or with -o in the waiting flock), or its shell was told 0.
Relies(p) ==
  /\ opt[p].type # "UN"
  /\ \/ cmd[p] = "running" /\ (~opt[p].close \/ pc[p] = "wait")
     \/ "shell" \in refs[p] /\ pc[p] = "exited" /\ status[p] = 0

\* Two users that rely on the lock at once both asked for a shared one: the
\* promise of flock -x (flock.c:71) that `locked' recipes are built on, kept
\* when a flock process is killed, times out, or reopens the file.
MutualExclusion ==
  \A p, q \in Procs :
    p # q /\ Relies(p) /\ Relies(q) => opt[p].type = "SH" /\ opt[q].type = "SH"

\* flock ends with 0 after `file command' only when the command itself ran and
\* ended with 0: no path from a missed lock, a failed fork or exec gives 0, so
\* a `locked' recipe that succeeds has been executed.
SuccessMeansRan ==
  \A p \in Procs :
    pc[p] = "exited" /\ opt[p].mode = "cmd" /\ status[p] = 0
      => cmd[p] = "done" /\ ret[p] = 0

\* With -o, "Close file descriptor before running command" (flock.c:75), the
\* command cannot keep the lock once flock is gone, however flock went.
CloseFreesLock ==
  \A p \in Procs :
    opt[p].close /\ cmd[p] = "running" /\ pc[p] \notin Alive => lock[p] = "UN"

\* Every invocation comes to its end (exit, or killed from outside) when the
\* commands and shells it waits for end: flock itself never hangs.
InvocationsEnd ==
  CommandsEnd => \A p \in Procs : pc[p] \in Alive ~> pc[p] \notin Alive

\* A flock that is blocked with its timer running stops waiting even though no
\* other user ever ends: what -w (flock.c:74) does when the alarm finds the
\* process inside flock(2).
BlockedWaitIsLimited ==
  \A p \in Procs :
    pc[p] = "blocked" /\ timer[p] ~> pc[p] \notin {"call", "reopen", "blocked", "eintr"}

\* The documented promise of -w, "Wait for a limited amount of time"
\* (flock.c:74), for every interleaving of the alarm with the code.
WaitIsLimited ==
  \A p \in Procs :
    pc[p] = "call" /\ opt[p].wait = "pos"
      ~> pc[p] \notin {"call", "reopen", "blocked", "eintr"}

=============================================================================
