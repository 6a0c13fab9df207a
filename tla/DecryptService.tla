--------------------------- MODULE DecryptService ---------------------------
(***************************************************************************)
(* The sample service on the decrypt port (server.c, bridge.cpp): the main *)
(* thread accepts one connection at a time (serve_decrypt), runs its       *)
(* session inside a C++ guard (handle_decrypt_guarded), and asks for a new *)
(* playback lease when the guard caught an exception.                      *)
(*                                                                         *)
(* A session is a sequence of tracks; a track is a header (adam id and key *)
(* URI), for which a key context is obtained, and a sequence of samples    *)
(* ended by a size of 0.  Each sample is read into a fresh buffer,         *)
(* processed in place with the context, written back and freed.  Lengths   *)
(* are counted in units; what a byte of a sample is worth is left out.     *)
(***************************************************************************)
EXTENDS Listener

CONSTANTS
  AdamIds,        \* the ids a header may name
  PreshareId,     \* "0": the id whose context is cached for the process
  KeyUris,        \* the key URIs a header may name
  MaxSampleLen,   \* MAX_DECRYPT_SAMPLE_LEN, in units
  MaxReplies      \* bound of the model: samples of one connection

ASSUME DecryptAssumption ==
  /\ PreshareId \in AdamIds
  /\ MaxSampleLen \in Nat \ {0}
  /\ MaxReplies \in Nat

Tracks == [adam : AdamIds, uri : KeyUris]

ASSUME NoneIsNoTrack == None \notin Tracks

VARIABLES
  pc,          \* where the main thread is
  track,       \* adam and uri of the header in force
  ctx,         \* kd_context, named by the header it was obtained for
  preshared,   \* preshared_context
  buf,         \* length of the malloc'ed sample buffer, 0 when there is none
  replies,     \* what this connection was sent, one record per sample
  lost,        \* sample buffers whose pointer was dropped without free
  leases       \* calls of requestLease made by serve_decrypt

sessionVars == <<track, ctx, preshared, buf, replies, lost, leases>>
vars == <<netVars, pc, sessionVars>>

PCs == {"accept", "header", "context", "size", "sample", "process", "write",
        "lease", "close"}

(***************************************************************************)
(* sent is what write_full has handed to the socket so far; cut says that  *)
(* it gave up before the end.                                              *)
(***************************************************************************)
Replies == [track : Tracks, ctx : Tracks, len : 1..MaxSampleLen,
            sent : 0..MaxSampleLen, cut : BOOLEAN]

TypeOK ==
  /\ NetTypeOK
  /\ pc \in PCs
  /\ track \in Tracks \cup {None}
  /\ ctx \in Tracks \cup {None}
  /\ preshared \in Tracks \cup {None}
  /\ buf \in 0..MaxSampleLen
  /\ replies \in Seq(Replies)
  /\ lost \in Nat
  /\ leases \in Nat

Init ==
  /\ NetInit
  /\ pc = "accept"
  /\ track = None /\ ctx = None /\ preshared = None
  /\ buf = 0
  /\ replies = <<>>
  /\ lost = 0 /\ leases = 0

-----------------------------------------------------------------------------
(* serve_decrypt *)

Accept ==
  /\ pc = "accept"
  /\ AcceptClient
  /\ pc' = "header"
  /\ replies' = <<>>
  /\ UNCHANGED <<track, ctx, preshared, buf, lost, leases>>

\* accept4 failed with an error that is not retried (EMFILE, ENOBUFS, ...).
AcceptFails ==
  /\ pc = "accept"
  /\ ProcessFails
  /\ UNCHANGED <<pc, sessionVars>>

\* The session returned, normally or on an error: its locals are gone.
EndSession(next) ==
  /\ pc' = next
  /\ track' = None /\ ctx' = None

Close ==
  /\ pc = "close"
  /\ CloseClient
  /\ pc' = "accept"
  /\ UNCHANGED sessionVars

\* close() reported an error: serve_decrypt returns EXIT_FAILURE.
CloseFails ==
  /\ pc = "close"
  /\ ProcessFails
  /\ UNCHANGED <<pc, sessionVars>>

\* The guard returned 0.
RequestLease ==
  /\ pc = "lease" /\ proc = "up"
  /\ leases' = leases + 1
  /\ pc' = "close"
  /\ UNCHANGED <<netVars, track, ctx, preshared, buf, replies, lost>>

\* An exception that is not a std::exception, or one thrown by requestLease.
Terminate ==
  /\ pc \in {"context", "process", "lease"}
  /\ ProcessKilled
  /\ UNCHANGED <<pc, sessionVars>>

-----------------------------------------------------------------------------
(* handle_decrypt_session *)

ReadHeader ==
  /\ pc = "header" /\ CanRead
  /\ \/ /\ track' \in Tracks
        /\ pc' = "context"
        /\ UNCHANGED ctx
     \/ EndSession("close")                       \* adam_size = 0
  /\ UNCHANGED <<netVars, preshared, buf, replies, lost, leases>>

\* read_full failed in the header or at a size: nothing is allocated yet.
ReadFails ==
  /\ pc \in {"header", "size"} /\ ReadCanFail
  /\ EndSession("close")
  /\ UNCHANGED <<netVars, preshared, buf, replies, lost, leases>>

PreshareHit_AnyId == preshared # None

PreshareHit == track.adam = PreshareId /\ preshared # None

\* get_kd_context: the cached context, a fresh one, none, or an exception.
GetContext ==
  /\ pc = "context" /\ proc = "up"
  /\ \/ /\ PreshareHit
        /\ ctx' = preshared
        /\ pc' = "size"
        /\ UNCHANGED <<track, preshared>>
     \/ /\ ~PreshareHit
        /\ ctx' = track
        /\ preshared' = IF track.adam = PreshareId THEN track ELSE preshared
        /\ pc' = "size"
        /\ UNCHANGED track
     \/ /\ ~PreshareHit
        /\ EndSession("close")                    \* no key, or no context
        /\ UNCHANGED preshared
     \/ /\ ~PreshareHit
        /\ EndSession("lease")                    \* std::exception
        /\ UNCHANGED preshared
  /\ UNCHANGED <<netVars, buf, replies, lost, leases>>

TooLarge(size) == size > MaxSampleLen

\* MaxReplies bounds the samples of a connection in the model only.
ReadSize ==
  /\ pc = "size" /\ CanRead
  /\ \E size \in 0..(MaxSampleLen + 1) :
       \/ /\ size = 0
          /\ pc' = "header" /\ track' = None /\ ctx' = None
          /\ UNCHANGED buf
       \/ /\ TooLarge(size)
          /\ EndSession("close")
          /\ UNCHANGED buf
       \/ /\ size > 0 /\ ~TooLarge(size)
          /\ Len(replies) < MaxReplies
          /\ \/ /\ buf' = size
                /\ pc' = "sample"
                /\ UNCHANGED <<track, ctx>>
             \/ /\ EndSession("close")            \* malloc returned NULL
                /\ UNCHANGED buf
  /\ UNCHANGED <<netVars, preshared, replies, lost, leases>>

ReadSample ==
  /\ pc = "sample" /\ CanRead
  /\ pc' = "process"
  /\ UNCHANGED <<netVars, sessionVars>>

FreedOnFailure_Leak == buf

\* What free(sample) leaves on the path where the sample never arrived.
FreedOnFailure == 0

ReadSampleFails ==
  /\ pc = "sample" /\ ReadCanFail
  /\ buf' = FreedOnFailure
  /\ EndSession("close")
  /\ UNCHANGED <<netVars, preshared, replies, lost, leases>>

NewReply == [track |-> track, ctx |-> ctx, len |-> buf, sent |-> 0, cut |-> FALSE]

\* The in-place call; an exception unwinds past free(sample).
Process ==
  /\ pc = "process" /\ proc = "up"
  /\ \/ /\ replies' = Append(replies, NewReply)
        /\ pc' = "write"
        /\ UNCHANGED <<track, ctx, buf, lost>>
     \/ /\ EndSession("lease")
        /\ buf' = 0
        /\ lost' = lost + 1
        /\ UNCHANGED replies
  /\ UNCHANGED <<netVars, preshared, leases>>

Last == Len(replies)

\* One write(): any part of what is left; free(sample) after the last one.
WriteSome ==
  /\ pc = "write" /\ CanWrite
  /\ \E k \in 1..(replies[Last].len - replies[Last].sent) :
       /\ replies' = [replies EXCEPT ![Last].sent = @ + k]
       /\ IF AllWritten(replies[Last].sent + k, replies[Last].len)
          THEN buf' = 0 /\ pc' = "size"
          ELSE UNCHANGED <<buf, pc>>
  /\ UNCHANGED <<netVars, track, ctx, preshared, lost, leases>>

\* What free(sample) leaves after write_full, however much it wrote.
FreedAfterWrite == 0

\* write_full breaks out and returns nothing: the session goes on.
WriteGivesUp ==
  /\ pc = "write" /\ WriteCanFail
  /\ replies' = [replies EXCEPT ![Last].cut = TRUE]
  /\ buf' = FreedAfterWrite
  /\ pc' = "size"
  /\ UNCHANGED <<netVars, track, ctx, preshared, lost, leases>>

WriteKilled ==
  /\ pc = "write" /\ WriteCanKill
  /\ ProcessKilled
  /\ UNCHANGED <<pc, sessionVars>>

-----------------------------------------------------------------------------

ServerStep ==
  \/ Accept \/ Close \/ RequestLease
  \/ ReadHeader \/ ReadFails \/ GetContext \/ ReadSize
  \/ ReadSample \/ ReadSampleFails \/ Process
  \/ WriteSome \/ WriteGivesUp

OtherThread == EndedElsewhere /\ UNCHANGED <<pc, sessionVars>>

Fault == AcceptFails \/ CloseFails \/ Terminate \/ WriteKilled \/ OtherThread

Next ==
  \/ ServerStep
  \/ Fault
  \/ PeerStep /\ UNCHANGED <<pc, sessionVars>>

Spec == Init /\ [][Next]_vars

(***************************************************************************)
(* The kernel schedules the thread and its timers expire; nothing is       *)
(* assumed of the peers, and no fault has to happen.                       *)
(***************************************************************************)
FairSpec == Spec /\ WF_vars(ServerStep)

-----------------------------------------------------------------------------
(* What the service promises. *)

ContextServes(c, t) == c.adam = t.adam /\ (c.uri = t.uri \/ t.adam = PreshareId)

\* A sample is processed with the context of the header its connection sent
\* last; only for the preshared id may the context come from another header
\* (of any connection), and then from one with that id.
ReplyMatchesTrack ==
  \A i \in 1..Len(replies) : ContextServes(replies[i].ctx, replies[i].track)

\* The context cached for the preshared id outlives the connection that
\* fetched it and is never replaced: contexts handed out earlier stay valid.
PreshareStable == [][preshared # None => preshared' = preshared]_vars

\* The buffer of a sample is held only between its size and the end of its
\* write, whichever way the session ends; only an exception in the processing
\* call loses one, and for each of those a lease was or is about to be requested.
BuffersAccounted ==
  /\ buf # 0 <=> pc \in {"sample", "process", "write"}
  /\ lost =< leases + (IF pc = "lease" THEN 1 ELSE 0)

\* Replies go out whole and one after the other: a reply is short only while
\* its write is under way, or when write_full gave it up.
RepliesOneByOne ==
  \A i \in 1..Len(replies) :
     replies[i].sent # replies[i].len => replies[i].cut \/ (i = Last /\ pc = "write")

\* README.md:128: the service writes back a result of the same length.  What
\* a client that is still there receives after a reply was cut is not that.
SameLengthReplies ==
  conn # None /\ peer[conn] = "active" =>
    \A i \in 1..Len(replies) :
       (\E j \in (i+1)..Len(replies) : replies[j].sent > 0)
          => replies[i].sent = replies[i].len

\* Every completed connection is served in the end, provided that no client
\* keeps the thread busy for ever.
QueuedClientServed ==
  (\A c \in Clients : []<>(peer[c] # "active"))
    => \A c \in Clients : Queued(c) ~> (conn = c \/ Down)
=============================================================================
