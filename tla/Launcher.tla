------------------------------ MODULE Launcher ------------------------------
(***************************************************************************)
(* The container's first process (launch.c): it installs a handler for     *)
(* SIGINT and SIGTERM, changes its root, forks wrapper-core, waits for it  *)
(* and passes its end on as its own exit status.  As process 1 it only     *)
(* gets the signals it handles, and none with SIGKILL from its container.  *)
(***************************************************************************)
EXTENDS Integers

VARIABLES
  lpc,        \* where the launcher is
  childProc,  \* child_proc of the launcher: -1, or the child's pid
  child,      \* the forked process
  status,     \* how the child ended, as wait reports it
  code,       \* exit status of the launcher, -1 until it has one
  asked       \* a stop signal reached the launcher in waitpid

launchVars == <<lpc, childProc, child, status, code, asked>>

Pid == 2
Exited(n) == [how |-> "exited", number |-> n]
Signalled(n) == [how |-> "signalled", number |-> n]
Running == [how |-> "running", number |-> 0]
Ends == [how : {"exited"}, number : 0..255] \cup [how : {"signalled"}, number : 1..64]

LaunchTypeOK ==
  /\ lpc \in {"handlers", "chroot", "fork", "forked", "wait", "waited", "exited"}
  /\ childProc \in {-1, Pid}
  /\ child \in {"none", "forked", "stored", "core", "zombie", "reaped"}
  /\ status \in Ends \cup {Running}
  /\ code \in -1..255
  /\ asked \in BOOLEAN

LaunchInit ==
  /\ lpc = "handlers" /\ childProc = -1
  /\ child = "none" /\ status = Running
  /\ code = -1
  /\ asked = FALSE

LauncherExits(n) == lpc' = "exited" /\ code' = n

\* signal, chdir and chroot: each failure returns 1 with nothing started.
Prepare ==
  /\ \/ lpc = "handlers" /\ lpc' = "chroot" /\ UNCHANGED code
     \/ lpc = "chroot" /\ lpc' = "fork" /\ UNCHANGED code
     \/ lpc \in {"handlers", "chroot"} /\ LauncherExits(1)
  /\ UNCHANGED <<childProc, child, status, asked>>

Fork ==
  /\ lpc = "fork"
  /\ \/ lpc' = "forked" /\ child' = "forked" /\ UNCHANGED code
     \/ LauncherExits(1) /\ UNCHANGED child
  /\ UNCHANGED <<childProc, status, asked>>

\* The pid is kept in a local variable, out of the handler's sight.
StoredPid_Local == -1

StoredPid == Pid

\* fork has returned in the launcher.
StoreChild ==
  /\ lpc = "forked"
  /\ childProc' = StoredPid
  /\ lpc' = "wait"
  /\ UNCHANGED <<child, status, code, asked>>

ChildEnds(how) == child' = "zombie" /\ status' = how

\* fork has returned 0 in the child: its child_proc is -1 before this, 0 after.
ChildStores ==
  /\ child = "forked"
  /\ child' = "stored"
  /\ UNCHANGED <<lpc, childProc, status, code, asked>>

\* execve drops the handlers with the old image; if it fails, 1 is returned.
Exec ==
  /\ child = "stored"
  /\ \/ child' = "core" /\ UNCHANGED status
     \/ ChildEnds(Exited(1))
  /\ UNCHANGED <<lpc, childProc, code, asked>>

Waitpid ==
  /\ lpc = "wait" /\ child = "zombie"
  /\ lpc' = "waited"
  /\ child' = "reaped"
  /\ UNCHANGED <<childProc, status, code, asked>>

\* WIFEXITED and WIFSIGNALED
CodeOf == IF status.how = "exited" THEN status.number ELSE 128 + status.number

ReturnStatus ==
  /\ lpc = "waited"
  /\ LauncherExits(CodeOf)
  /\ UNCHANGED <<childProc, child, status, asked>>

-----------------------------------------------------------------------------
(* Signals *)

Alive == {"forked", "stored", "core"}

\* waitpid fails with EINTR, and the launcher returns 1.
WaitAfterHandler_Interrupted == "exited"

\* signal() asks for SA_RESTART, so waitpid goes on after the handler.
WaitAfterHandler == "wait"

\* handle_shutdown_signal in the launcher: SIGTERM from docker stop, SIGINT
\* from the terminal.  Before the handlers exist process 1 ignores both.
StopSignal ==
  /\ lpc \notin {"handlers", "exited"}
  /\ IF childProc # -1 /\ child \in Alive
     THEN ChildEnds(Signalled(9))
     ELSE UNCHANGED <<child, status>>        \* no child yet, or no such process
  /\ lpc' = IF lpc = "wait" THEN WaitAfterHandler ELSE lpc
  /\ code' = IF lpc' = lpc THEN code ELSE 1
  /\ asked' = (asked \/ lpc = "wait")
  /\ UNCHANGED childProc

\* The terminal's SIGINT also reaches the child.  Up to execve it has the
\* handler: with -1 nothing happens, with 0 it kills its own process group,
\* of which process 1 is immune.
ChildInterrupted ==
  /\ \/ child = "core" /\ ChildEnds(Signalled(2))
     \/ child = "stored" /\ ChildEnds(Signalled(9))
  /\ UNCHANGED <<lpc, childProc, code, asked>>

\* wrapper-core returns or is killed by a signal of its own.
CoreEnds(how) ==
  /\ child = "core"
  /\ ChildEnds(how)
  /\ UNCHANGED <<lpc, childProc, code, asked>>

LauncherStep == Prepare \/ Fork \/ StoreChild \/ Waitpid \/ ReturnStatus

-----------------------------------------------------------------------------

(***************************************************************************)
(* The container stays as long as wrapper-core runs and its exit status    *)
(* is wrapper-core's, whatever signals come in between: main never leaves  *)
(* a child behind, and what ended the child is what docker reports.        *)
(***************************************************************************)
OutlivesCore ==
  lpc = "exited" =>
    \/ child = "none" /\ code = 1
    \/ /\ child = "reaped"
       /\ code = (IF status.how = "signalled" THEN 128 ELSE 0) + status.number

\* A stop signal that finds the launcher in waitpid ends the container.  (One
\* that comes before fork's result is stored kills nothing and is forgotten.)
StopHeard == asked ~> lpc = "exited"
=============================================================================
