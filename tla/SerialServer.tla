---------------------------- MODULE SerialServer ----------------------------
(***************************************************************************)
(* What each service of wrapper-core promises its clients as a server:     *)
(* connections are served one at a time, each once, in the order in which  *)
(* they were completed, and each is given back before the next is taken,   *)
(* until the process ends.                                                 *)
(***************************************************************************)
EXTENDS Integers, Sequences

CONSTANTS Clients, None

VARIABLES
  waiting,   \* completed connections, oldest first
  serving,   \* the one being served, or None
  done,      \* those served and given back
  up         \* the process runs

svars == <<waiting, serving, done, up>>

Waiting(c) == \E i \in 1..Len(waiting) : waiting[i] = c

Init == waiting = <<>> /\ serving = None /\ done = {} /\ up = TRUE

Arrive(c) ==
  /\ up /\ ~Waiting(c) /\ c # serving /\ c \notin done
  /\ waiting' = Append(waiting, c)
  /\ UNCHANGED <<serving, done, up>>

Serve ==
  /\ up /\ serving = None /\ waiting # <<>>
  /\ serving' = Head(waiting)
  /\ waiting' = Tail(waiting)
  /\ UNCHANGED <<done, up>>

Finish ==
  /\ up /\ serving # None
  /\ done' = done \cup {serving}
  /\ serving' = None
  /\ UNCHANGED <<waiting, up>>

Stop == up /\ up' = FALSE /\ UNCHANGED <<waiting, serving, done>>

Next == Serve \/ Finish \/ Stop \/ \E c \in Clients : Arrive(c)

Spec == Init /\ [][Next]_svars
=============================================================================
