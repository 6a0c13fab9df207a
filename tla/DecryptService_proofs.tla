----------------------- MODULE DecryptService_proofs -----------------------
(***************************************************************************)
(* Proofs about the decrypt service, for any clients, ids, URIs, sample    *)
(* lengths and bounds.                                                     *)
(***************************************************************************)
EXTENDS DecryptService, Listener_proofs

-----------------------------------------------------------------------------
(* The parts of the inductive invariant that the checked ones rest on. *)

\* Between header and end of track there is a header in force, and the context
\* in use serves it; the cached context belongs to the preshared id.
ContextInForce ==
  /\ preshared # None => preshared.adam = PreshareId
  /\ pc \in {"context", "size", "sample", "process", "write"} => track # None
  /\ pc \in {"size", "sample", "process", "write"} =>
       ctx # None /\ ContextServes(ctx, track)

\* While a reply is being written it is the last one.
WritingLast == pc = "write" => replies # <<>>

IInv ==
  /\ TypeOK
  /\ ContextInForce
  /\ WritingLast
  /\ ReplyMatchesTrack
  /\ BuffersAccounted
  /\ RepliesOneByOne

USE DecryptAssumption, NoneIsNoTrack, ListenerAssumption

LEMMA InitIInv == Init => IInv
<1> SUFFICES ASSUME Init PROVE IInv
  OBVIOUS
<1>1. TypeOK
  <2>1. NetTypeOK
    BY DEF Init, NetInit, NetTypeOK, PeerStates
  <2>2. pc \in PCs /\ replies \in Seq(Replies) /\ buf \in 0..MaxSampleLen
    BY DEF Init, PCs
  <2> QED
    BY <2>1, <2>2 DEF Init, TypeOK
<1>2. ContextInForce /\ WritingLast /\ BuffersAccounted
  BY DEF Init, ContextInForce, WritingLast, BuffersAccounted
<1>3. replies = <<>> /\ Len(replies) = 0
  BY DEF Init
<1>4. ReplyMatchesTrack /\ RepliesOneByOne
  BY <1>3 DEF ReplyMatchesTrack, RepliesOneByOne
<1> QED
  BY <1>1, <1>2, <1>4 DEF IInv

\* One write() changes nothing of the last reply but the count of bytes sent.
LEMMA WriteSomeReply ==
  ASSUME IInv, WriteSome
  PROVE  /\ replies' \in Seq(Replies)
         /\ Len(replies') = Len(replies)
         /\ Last \in 1..Len(replies)
         /\ \A i \in 1..Len(replies) :
              /\ replies'[i].track = replies[i].track
              /\ replies'[i].ctx = replies[i].ctx
              /\ replies'[i].len = replies[i].len
              /\ replies'[i].cut = replies[i].cut
              /\ i # Last => replies'[i] = replies[i]
         /\ pc' = "size" => replies'[Last].sent = replies'[Last].len
<1> USE DEF IInv
<1>1. Last \in 1..Len(replies)
  BY DEF WriteSome, TypeOK, WritingLast, Last
<1>2. PICK k \in 1..(replies[Last].len - replies[Last].sent) :
         /\ replies' = [replies EXCEPT ![Last].sent = @ + k]
         /\ IF AllWritten(replies[Last].sent + k, replies[Last].len)
            THEN buf' = 0 /\ pc' = "size"
            ELSE UNCHANGED <<buf, pc>>
  BY DEF WriteSome
<1> DEFINE r == replies[Last]
           e == [r EXCEPT !.sent = @ + k]
<1>3. r \in Replies
  BY <1>1 DEF TypeOK
<1>4. e \in Replies /\ e.track = r.track /\ e.ctx = r.ctx /\ e.len = r.len
      /\ e.cut = r.cut /\ e.sent = r.sent + k
  BY <1>2, <1>3 DEF Replies
<1>5. replies' = [replies EXCEPT ![Last] = e]
  BY <1>2
<1>6. replies \in Seq(Replies)
  BY DEF TypeOK
<1> HIDE DEF e, r
<1>7. /\ replies' \in Seq(Replies)
      /\ Len(replies') = Len(replies)
      /\ \A j \in 1..Len(replies) : replies'[j] = IF j = Last THEN e ELSE replies[j]
  BY <1>1, <1>4, <1>5, <1>6, ReplaceElement
<1>8. pc' = "size" => e.sent = e.len
  BY <1>2, <1>4 DEF AllWritten, WriteSome, r
<1> QED
  BY <1>1, <1>4, <1>7, <1>8 DEF r

\* Giving up marks the last reply as cut and changes nothing else of it.
LEMMA WriteGivesUpReply ==
  ASSUME IInv, WriteGivesUp
  PROVE  /\ replies' \in Seq(Replies)
         /\ Len(replies') = Len(replies)
         /\ Last \in 1..Len(replies)
         /\ \A i \in 1..Len(replies) :
              /\ replies'[i].track = replies[i].track
              /\ replies'[i].ctx = replies[i].ctx
              /\ replies'[i].len = replies[i].len
              /\ i # Last => replies'[i] = replies[i]
         /\ replies'[Last].cut
<1> USE DEF IInv
<1>1. Last \in 1..Len(replies)
  BY DEF WriteGivesUp, TypeOK, WritingLast, Last
<1> DEFINE r == replies[Last]
           e == [r EXCEPT !.cut = TRUE]
<1>3. r \in Replies
  BY <1>1 DEF TypeOK
<1>4. e \in Replies /\ e.track = r.track /\ e.ctx = r.ctx /\ e.len = r.len /\ e.cut
  BY <1>3 DEF Replies
<1>5. replies' = [replies EXCEPT ![Last] = e]
  BY DEF WriteGivesUp
<1>6. replies \in Seq(Replies)
  BY DEF TypeOK
<1> HIDE DEF e, r
<1>7. /\ replies' \in Seq(Replies)
      /\ Len(replies') = Len(replies)
      /\ \A j \in 1..Len(replies) : replies'[j] = IF j = Last THEN e ELSE replies[j]
  BY <1>1, <1>4, <1>5, <1>6, ReplaceElement
<1> QED
  BY <1>1, <1>4, <1>7 DEF r

-----------------------------------------------------------------------------
(* Every step keeps the invariant. *)

LEMMA ListenerStep ==
  ASSUME [Next]_vars
  PROVE  NetStep
BY DEF NetStep, Next, vars, ServerStep, Fault, Accept, AcceptFails, Close, CloseFails,
       RequestLease, Terminate, ReadHeader, ReadFails, GetContext, ReadSize,
       ReadSample, ReadSampleFails, Process, WriteSome, WriteGivesUp, WriteKilled,
       OtherThread, EndedElsewhere

\* A step that leaves the session alone leaves the invariant's session part alone.
LEMMA SessionUnchanged ==
  ASSUME IInv, NetTypeOK', UNCHANGED <<pc, sessionVars>>
  PROVE  IInv'
BY DEF IInv, TypeOK, ContextInForce, WritingLast, ReplyMatchesTrack, BuffersAccounted,
       RepliesOneByOne, Last, sessionVars

\* The steps outside Process and the writes: the replies stay, or a new
\* connection starts with none.
QuietStep ==
  \/ Accept \/ Close \/ RequestLease
  \/ ReadHeader \/ ReadFails \/ GetContext \/ ReadSize
  \/ ReadSample \/ ReadSampleFails

\* After a size: no buffer, or one of 1..MaxSampleLen with the sample to come.
LEMMA ReadSizeBuffer ==
  ASSUME IInv, ReadSize
  PROVE  /\ buf' \in 0..MaxSampleLen
         /\ pc' \in {"header", "close", "sample"}
         /\ buf' # 0 <=> pc' = "sample"
<1>1. buf = 0 /\ pc = "size"
  BY DEF ReadSize, IInv, BuffersAccounted
<1>2. PICK size \in 0..(MaxSampleLen + 1) :
         \/ size = 0 /\ pc' = "header" /\ buf' = buf
         \/ pc' = "close" /\ buf' = buf
         \/ size > 0 /\ ~TooLarge(size) /\ buf' = size /\ pc' = "sample"
  BY DEF ReadSize, EndSession
<1>3. MaxSampleLen \in Nat
  OBVIOUS
<1> QED
  BY <1>1, <1>2, <1>3 DEF TooLarge

LEMMA QuietType ==
  ASSUME IInv, NetTypeOK', QuietStep
  PROVE  TypeOK'
<1> USE DEF IInv, TypeOK, PCs, EndSession
<1>0. <<>> \in Seq(Replies)
  OBVIOUS
<1>1. CASE Accept
  BY <1>0, <1>1 DEF Accept
<1>6. CASE Close
  BY <1>6 DEF Close, sessionVars
<1>7. CASE RequestLease
  BY <1>7 DEF RequestLease, sessionVars
<1>2. CASE ReadHeader \/ ReadFails \/ ReadSample
  BY <1>2 DEF ReadHeader, ReadFails, ReadSample, sessionVars
<1>3. CASE GetContext
  BY <1>3 DEF GetContext, ContextInForce
<1>4. CASE ReadSize
  <2>1. UNCHANGED <<proc, peer, queue, conn, timeo, preshared, replies, lost, leases>>
    BY <1>4 DEF ReadSize, netVars
  <2>2. \/ track' = None /\ ctx' = None
        \/ track' = track /\ ctx' = ctx
    BY <1>4 DEF ReadSize
  <2> QED
    BY <1>4, <2>1, <2>2, ReadSizeBuffer DEF NetTypeOK
<1>5. CASE ReadSampleFails
  BY <1>5 DEF ReadSampleFails, FreedOnFailure
<1> QED
  BY <1>1, <1>2, <1>3, <1>4, <1>5, <1>6, <1>7 DEF QuietStep

LEMMA QuietContext ==
  ASSUME IInv, QuietStep
  PROVE  ContextInForce' /\ WritingLast'
<1> USE DEF IInv, ContextInForce, WritingLast, EndSession, ContextServes
<1>1. CASE Accept \/ Close \/ RequestLease
  BY <1>1 DEF Accept, Close, RequestLease, sessionVars
<1>2. CASE ReadHeader \/ ReadFails \/ ReadSample \/ ReadSampleFails
  BY <1>2 DEF ReadHeader, ReadFails, ReadSample, ReadSampleFails, sessionVars
<1>3. CASE GetContext
  BY <1>3 DEF GetContext, PreshareHit, TypeOK, Tracks
<1>4. CASE ReadSize
  BY <1>4 DEF ReadSize
<1> QED
  BY <1>1, <1>2, <1>3, <1>4 DEF QuietStep

LEMMA QuietBuffers ==
  ASSUME IInv, QuietStep
  PROVE  BuffersAccounted'
<1> USE DEF IInv, BuffersAccounted, TypeOK, EndSession
<1>1. CASE Accept \/ Close
  BY <1>1 DEF Accept, Close, sessionVars
<1>5. CASE RequestLease
  BY <1>5 DEF RequestLease
<1>2. CASE ReadHeader \/ ReadFails
  BY <1>2 DEF ReadHeader, ReadFails
<1>6. CASE ReadSample
  BY <1>6 DEF ReadSample, sessionVars
<1>7. CASE GetContext
  <2>1. UNCHANGED <<buf, lost, leases>> /\ pc = "context" /\ pc' \in {"size", "close", "lease"}
    BY <1>7 DEF GetContext
  <2> QED
    BY <2>1
<1>3. CASE ReadSize
  <2>1. UNCHANGED <<lost, leases>> /\ pc = "size" /\ lost =< leases
    BY <1>3 DEF ReadSize
  <2> QED
    BY <1>3, <2>1, ReadSizeBuffer
<1>4. CASE ReadSampleFails
  BY <1>4 DEF ReadSampleFails, FreedOnFailure
<1> QED
  BY <1>1, <1>2, <1>3, <1>4, <1>5, <1>6, <1>7 DEF QuietStep

LEMMA QuietReplies ==
  ASSUME IInv, QuietStep
  PROVE  ReplyMatchesTrack' /\ RepliesOneByOne'
<1> USE DEF IInv
<1>1. CASE Accept
  <2>1. replies' = <<>> /\ Len(replies') = 0
    BY <1>1 DEF Accept
  <2> QED
    BY <2>1 DEF ReplyMatchesTrack, RepliesOneByOne
<1>2. CASE QuietStep /\ ~Accept
  <2>1. replies' = replies /\ pc # "write"
    BY <1>2 DEF QuietStep, Close, RequestLease, ReadHeader, ReadFails, GetContext,
                ReadSize, ReadSample, ReadSampleFails, sessionVars
  <2> QED
    BY <2>1 DEF ReplyMatchesTrack, RepliesOneByOne
<1> QED
  BY <1>1, <1>2

LEMMA QuietIInv ==
  ASSUME IInv, NetTypeOK', QuietStep
  PROVE  IInv'
BY QuietType, QuietContext, QuietBuffers, QuietReplies DEF IInv

\* A finished reply carries the context in force, and an exception none.
LEMMA ProcessIInv ==
  ASSUME IInv, NetTypeOK', Process
  PROVE  IInv'
<1> USE DEF IInv, Process, EndSession
<1>1. /\ track \in Tracks /\ ctx \in Tracks /\ ContextServes(ctx, track)
      /\ buf \in 1..MaxSampleLen /\ NewReply \in Replies
  BY DEF TypeOK, ContextInForce, BuffersAccounted, NewReply, Replies
<1>2. CASE pc' = "write"
  <2>1. replies' = Append(replies, NewReply) /\ UNCHANGED <<track, ctx, buf, lost, preshared, leases>>
    BY <1>2
  <2>2. /\ replies \in Seq(Replies)
        /\ replies' \in Seq(Replies)
        /\ Len(replies') = Len(replies) + 1
        /\ \A i \in 1..Len(replies) : replies'[i] = replies[i]
        /\ replies'[Len(replies')] = NewReply
    BY <1>1, <2>1 DEF TypeOK
  <2>3. TypeOK'
    BY <1>2, <2>1, <2>2 DEF TypeOK, PCs
  <2>4. ContextInForce' /\ BuffersAccounted'
    BY <1>1, <1>2, <2>1 DEF ContextInForce, BuffersAccounted, ContextServes
  <2>5. WritingLast'
    BY <2>2 DEF WritingLast
  <2>6. NewReply.ctx = ctx /\ NewReply.track = track
    BY DEF NewReply
  <2>7. \A i \in 1..Len(replies') : i \in 1..Len(replies) \/ i = Len(replies')
    BY <2>2
  <2>8. ReplyMatchesTrack'
    BY <1>1, <2>2, <2>6, <2>7 DEF ReplyMatchesTrack, ContextServes
  <2>9. RepliesOneByOne'
    BY <1>2, <2>2, <2>7 DEF RepliesOneByOne, Last
  <2> QED
    BY <2>3, <2>4, <2>5, <2>8, <2>9
<1>3. CASE pc' # "write"
  <2>1. /\ pc = "process" /\ pc' = "lease" /\ track' = None /\ ctx' = None
        /\ buf' = 0 /\ lost' = lost + 1 /\ UNCHANGED <<replies, preshared, leases>>
    BY <1>3
  <2>2. TypeOK'
    BY <2>1 DEF TypeOK, PCs
  <2>3. ContextInForce' /\ WritingLast'
    BY <2>1 DEF ContextInForce, WritingLast
  <2>4. BuffersAccounted'
    BY <2>1 DEF BuffersAccounted, TypeOK
  <2>5. ReplyMatchesTrack' /\ RepliesOneByOne'
    BY <2>1 DEF ReplyMatchesTrack, RepliesOneByOne
  <2> QED
    BY <2>2, <2>3, <2>4, <2>5
<1> QED
  BY <1>2, <1>3

\* A write changes the last reply and may free the buffer.
LEMMA WriteIInv ==
  ASSUME IInv, NetTypeOK', WriteSome \/ WriteGivesUp
  PROVE  IInv'
<1> USE DEF IInv
<1>1. /\ replies' \in Seq(Replies)
      /\ Len(replies') = Len(replies)
      /\ Last \in 1..Len(replies)
      /\ \A i \in 1..Len(replies) :
           /\ replies'[i].track = replies[i].track
           /\ replies'[i].ctx = replies[i].ctx
           /\ replies'[i].len = replies[i].len
           /\ i # Last => replies'[i] = replies[i]
      /\ pc' = "size" => replies'[Last].cut \/ replies'[Last].sent = replies'[Last].len
  BY WriteSomeReply, WriteGivesUpReply
<1>2. /\ pc = "write"
      /\ \/ pc' = "size" /\ buf' = 0
         \/ pc' = "write" /\ buf' = buf
      /\ UNCHANGED <<track, ctx, preshared, lost, leases>>
  BY DEF WriteSome, WriteGivesUp, FreedAfterWrite
<1>3. TypeOK'
  BY <1>1, <1>2 DEF TypeOK, PCs
<1>4. ContextInForce' /\ BuffersAccounted'
  BY <1>2 DEF ContextInForce, BuffersAccounted, ContextServes
<1>5. WritingLast'
  BY <1>1 DEF WritingLast
<1>6. ReplyMatchesTrack'
  BY <1>1 DEF ReplyMatchesTrack, ContextServes
<1>7. RepliesOneByOne'
  BY <1>1, <1>2 DEF RepliesOneByOne, Last
<1> QED
  BY <1>3, <1>4, <1>5, <1>6, <1>7

\* A fault, a step of a peer, or no step at all.
OutsideStep ==
  \/ Fault
  \/ PeerStep /\ UNCHANGED <<pc, sessionVars>>
  \/ UNCHANGED vars

LEMMA StepCases ==
  ASSUME [Next]_vars
  PROVE  QuietStep \/ Process \/ WriteSome \/ WriteGivesUp \/ OutsideStep
BY DEF Next, ServerStep, QuietStep, OutsideStep

LEMMA NextIInv == IInv /\ [Next]_vars => IInv'
<1> SUFFICES ASSUME IInv, [Next]_vars PROVE IInv'
  OBVIOUS
<1>1. NetTypeOK'
  BY ListenerStep, NetType DEF IInv, TypeOK
<1>2. CASE QuietStep
  BY <1>1, <1>2, QuietIInv
<1>3. CASE Process
  BY <1>1, <1>3, ProcessIInv
<1>4. CASE WriteSome \/ WriteGivesUp
  BY <1>1, <1>4, WriteIInv
<1>5. CASE OutsideStep
  <2>1. UNCHANGED <<pc, sessionVars>>
    BY <1>5 DEF OutsideStep, Fault, AcceptFails, CloseFails, Terminate, WriteKilled,
               OtherThread, vars
  <2> QED
    BY <1>1, <2>1, SessionUnchanged
<1> QED
  BY <1>2, <1>3, <1>4, <1>5, StepCases

-----------------------------------------------------------------------------
(* The theorems. *)

\* The inductive invariant holds in every reachable state.
THEOREM Invariance == Spec => []IInv
BY InitIInv, NextIInv, PTL DEF Spec

\* Type correctness of the service (serve_decrypt, handle_decrypt_session).
THEOREM TypeCorrect == Spec => []TypeOK
BY Invariance, PTL DEF IInv

\* Every sample is processed with a context obtained for the header in force,
\* the preshared id excepted (get_kd_context).
THEOREM ContextCorrect == Spec => []ReplyMatchesTrack
BY Invariance, PTL DEF IInv

\* No path of a session but an exception loses its sample buffer.
THEOREM BuffersCorrect == Spec => []BuffersAccounted
BY Invariance, PTL DEF IInv

\* A reply is short only while it is written or after write_full gave it up.
THEOREM RepliesCorrect == Spec => []RepliesOneByOne
BY Invariance, PTL DEF IInv

\* serve_decrypt is a serial server, whatever a session does.
THEOREM DecryptSerial == Spec => SerialService
<1>1. Init => NetInv /\ Serial!Init
  BY NetInitInv, SerialInit DEF Init
<1>2. NetInv /\ [Next]_vars => NetInv'
  BY ListenerStep, NetStepInv
<1>3. NetInv /\ [Next]_vars => [Serial!Next]_(Serial!svars)
  BY ListenerStep, SerialStep
<1> QED
  BY <1>1, <1>2, <1>3, PTL DEF Spec, SerialService, Serial!Spec

\* The preshared context is cached once and for all.
THEOREM PreshareCorrect == Spec => PreshareStable
<1>1. [Next]_vars => (preshared # None => preshared' = preshared)
  <2> SUFFICES ASSUME [Next]_vars, preshared # None PROVE preshared' = preshared
    OBVIOUS
  <2>1. CASE GetContext
    BY <2>1 DEF GetContext, PreshareHit
  <2>2. CASE ~GetContext
    BY <2>2 DEF Next, vars, sessionVars, ServerStep, Fault, Accept, AcceptFails, Close,
                CloseFails, RequestLease, Terminate, ReadHeader, ReadFails, ReadSize,
                ReadSample, ReadSampleFails, Process, WriteSome, WriteGivesUp, WriteKilled,
       OtherThread, EndedElsewhere
  <2> QED
    BY <2>1, <2>2
<1> QED
  BY <1>1, PTL DEF Spec, PreshareStable
=============================================================================
