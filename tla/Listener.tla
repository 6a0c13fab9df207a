------------------------------ MODULE Listener ------------------------------
(***************************************************************************)
(* One TCP listener of wrapper-core and the single thread that serves it:  *)
(* create_listener_socket, accept_client, set_socket_io_timeout and what   *)
(* read_full / write_full can observe of the peer (server.c).  Each of the *)
(* three services is this module plus its own session.                     *)
(*                                                                         *)
(* A "client" is one connection to the port; it connects at most once.     *)
(* The bytes it sends are chosen when the service reads them, so there is  *)
(* no explicit receive buffer.                                             *)
(*                                                                         *)
(* Here and in the other modules, X_Y is a variant of the definition X     *)
(* with a bug in it, which some property must tell from X.                 *)
(***************************************************************************)
EXTENDS Integers, Sequences

CONSTANTS
  Clients,   \* the connections that may be opened to the port
  Backlog,   \* the second argument of listen(): 5 in the code
  None       \* no connection is being served

ASSUME ListenerAssumption ==
  /\ Backlog \in Nat
  /\ None \notin Clients

VARIABLES
  proc,    \* the process: "up", "failed" (main returned), "killed" (signal)
  peer,    \* the other end of each connection
  queue,   \* connections the kernel has completed and nobody has accepted
  conn,    \* connfd: the connection the thread is serving, or None
  timeo    \* SO_RCVTIMEO and SO_SNDTIMEO of connfd in seconds, 0 for none

netVars == <<proc, peer, queue, conn, timeo>>

(***************************************************************************)
(* "active" peers may send and drain at any moment, however slowly;        *)
(* "silent" ones stay connected and never do either again; "gone" ones     *)
(* closed their end and everything they sent has been read; "released"     *)
(* means the service closed its own end.                                   *)
(***************************************************************************)
PeerStates == {"away", "active", "silent", "gone", "released"}

NetTypeOK ==
  /\ proc \in {"up", "failed", "killed"}
  /\ peer \in [Clients -> PeerStates]
  /\ queue \in Seq(Clients)
  /\ conn \in Clients \cup {None}
  /\ timeo \in Nat

NetInit ==
  /\ proc = "up"
  /\ peer = [c \in Clients |-> "away"]
  /\ queue = <<>>
  /\ conn = None
  /\ timeo = 0

(***************************************************************************)
(* The peers.  The kernel completes a handshake on its own while the       *)
(* accept queue has room (Linux keeps one connection more than the         *)
(* backlog), whether or not a thread is in accept4.                        *)
(***************************************************************************)
Connect(c) ==
  /\ proc = "up" /\ peer[c] = "away" /\ Len(queue) =< Backlog
  /\ peer' = [peer EXCEPT ![c] = "active"]
  /\ queue' = Append(queue, c)
  /\ UNCHANGED <<proc, conn, timeo>>

Hush(c) ==
  /\ proc = "up" /\ peer[c] = "active"
  /\ peer' = [peer EXCEPT ![c] = "silent"]
  /\ UNCHANGED <<proc, queue, conn, timeo>>

Leave(c) ==
  /\ proc = "up" /\ peer[c] \in {"active", "silent"}
  /\ peer' = [peer EXCEPT ![c] = "gone"]
  /\ UNCHANGED <<proc, queue, conn, timeo>>

PeerStep == \E c \in Clients : Connect(c) \/ Hush(c) \/ Leave(c)

-----------------------------------------------------------------------------

IoTimeout_None == 0

\* SOCKET_IO_TIMEOUT_SECONDS, which set_socket_io_timeout sets both ways.  (A
\* setsockopt error is only logged; these two have none on a fresh socket.)
IoTimeout == 30

(***************************************************************************)
(* accept_client followed by set_socket_io_timeout.  The errors accept4    *)
(* retries (should_retry_accept_error) leave the state unchanged.          *)
(***************************************************************************)
AcceptClient ==
  /\ proc = "up" /\ conn = None /\ queue # <<>>
  /\ conn' = Head(queue)
  /\ queue' = Tail(queue)
  /\ timeo' = IoTimeout
  /\ UNCHANGED <<proc, peer>>

\* read() can return data: the peer may still be sending.
CanRead == proc = "up" /\ conn # None /\ peer[conn] = "active"

\* read_full returns 0: end of file or reset, or the receive timeout expired.
ReadCanFail == proc = "up" /\ conn # None /\ (peer[conn] = "gone" \/ timeo > 0)

\* A short write taken for a whole one.
AllWritten_Short(total, size) == total > 0

\* The loop condition of write_full.
AllWritten(total, size) == total = size

\* write() can accept bytes: the send buffer may have room whatever the peer does.
CanWrite == proc = "up" /\ conn # None

\* write_full gives up: the send timeout expired (EAGAIN) or the peer reset.
WriteCanFail == ReadCanFail

\* write() to a peer that closed: EPIPE, and SIGPIPE is never ignored.
WriteCanKill == proc = "up" /\ conn # None /\ peer[conn] = "gone"

\* The session returns without closing its socket.
CloseClient_Leak ==
  /\ proc = "up" /\ conn # None
  /\ conn' = None
  /\ timeo' = 0
  /\ UNCHANGED <<proc, peer, queue>>

\* close(connfd) succeeds.
CloseClient ==
  /\ proc = "up" /\ conn # None
  /\ peer' = [peer EXCEPT ![conn] = "released"]
  /\ conn' = None
  /\ timeo' = 0
  /\ UNCHANGED <<proc, queue>>

\* main returns EXIT_FAILURE: every thread and every socket goes with it.
ProcessFails == proc = "up" /\ proc' = "failed" /\ UNCHANGED <<peer, queue, conn, timeo>>

\* A signal or std::terminate ends the process.
ProcessKilled == proc = "up" /\ proc' = "killed" /\ UNCHANGED <<peer, queue, conn, timeo>>

\* Another thread of the process ends it.
EndedElsewhere == ProcessFails \/ ProcessKilled

-----------------------------------------------------------------------------

Serial == INSTANCE SerialServer WITH
  waiting <- queue, serving <- conn, up <- proc = "up",
  done <- {c \in Clients : peer[c] = "released"}

\* The service is a serial server (SerialServer.tla) whatever its sessions do:
\* no connection is skipped, served twice, overtaken or left open when done.
SerialService == Serial!Spec

Down == proc # "up"

\* Once a served client neither sends nor drains, the thread gets rid of it.
StalledClientReleased ==
  \A c \in Clients :
    (conn = c /\ peer[c] \in {"silent", "gone"}) ~> (peer[c] = "released" \/ Down)

Queued(c) == \E i \in 1..Len(queue) : queue[i] = c
=============================================================================
