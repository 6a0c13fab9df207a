--------------------------- MODULE Listener_proofs ---------------------------
(***************************************************************************)
(* What every service inherits from the listener it is built on: the type  *)
(* of the shared part of its state, and that it is a serial server.        *)
(***************************************************************************)
EXTENDS Listener, TLAPS

\* The steps a service may take on the listener's variables.
NetStep ==
  \/ PeerStep \/ AcceptClient \/ CloseClient \/ ProcessFails \/ ProcessKilled
  \/ UNCHANGED netVars

\* A client waits or is served only after it connected and before its socket
\* is closed.
PeersAccounted ==
  /\ \A i \in 1..Len(queue) : peer[queue[i]] # "away"
  /\ conn # None => peer[conn] # "away"

NetInv == NetTypeOK /\ PeersAccounted

LEMMA NetInitInv == NetInit => NetInv
<1> SUFFICES ASSUME NetInit PROVE NetInv
  OBVIOUS
<1>1. NetTypeOK
  BY DEF NetInit, NetTypeOK, PeerStates
<1>2. Len(queue) = 0 /\ conn = None
  BY DEF NetInit
<1> QED
  BY <1>1, <1>2 DEF NetInv, PeersAccounted

LEMMA NetType ==
  ASSUME NetTypeOK, NetStep
  PROVE  NetTypeOK'
<1> USE DEF NetTypeOK
<1>1. CASE PeerStep
  <2> PICK c \in Clients : Connect(c) \/ Hush(c) \/ Leave(c)
    BY <1>1 DEF PeerStep
  <2> QED
    BY DEF Connect, Hush, Leave, PeerStates
<1>2. CASE AcceptClient
  BY <1>2 DEF AcceptClient, IoTimeout
<1>3. CASE CloseClient
  BY <1>3 DEF CloseClient, PeerStates
<1>4. CASE ProcessFails \/ ProcessKilled
  BY <1>4 DEF ProcessFails, ProcessKilled
<1>5. CASE UNCHANGED netVars
  BY <1>5 DEF netVars
<1> QED
  BY <1>1, <1>2, <1>3, <1>4, <1>5 DEF NetStep

LEMMA NetStepInv ==
  ASSUME NetInv, NetStep
  PROVE  NetInv'
<1> USE DEF NetInv
<1>1. NetTypeOK'
  BY NetType
<1>2. CASE PeerStep
  <2>1. PICK c \in Clients : Connect(c) \/ Hush(c) \/ Leave(c)
    BY <1>2 DEF PeerStep
  <2>2. /\ conn' = conn
        /\ queue' = queue \/ queue' = Append(queue, c)
        /\ peer'[c] # "away"
        /\ \A d \in Clients \ {c} : peer'[d] = peer[d]
    BY <2>1 DEF Connect, Hush, Leave, NetTypeOK
  <2>3. \A i \in 1..Len(queue') : queue'[i] = c \/ (i \in 1..Len(queue) /\ queue'[i] = queue[i])
    BY <2>2 DEF NetTypeOK
  <2>4. \A i \in 1..Len(queue) : queue[i] \in Clients
    BY DEF NetTypeOK
  <2> QED
    BY <1>1, <2>2, <2>3, <2>4 DEF PeersAccounted, NetTypeOK
<1>3. CASE AcceptClient
  <2>1. /\ peer' = peer /\ conn' = queue[1] /\ Len(queue) > 0
        /\ Len(queue') = Len(queue) - 1
        /\ \A i \in 1..Len(queue') : queue'[i] = queue[i + 1]
    BY <1>3 DEF AcceptClient, NetTypeOK
  <2>2. Len(queue) \in Nat /\ Len(queue') \in Nat
    BY <2>1 DEF NetTypeOK
  <2>3. \A i \in 1..Len(queue') : i + 1 \in 1..Len(queue)
    BY <2>1, <2>2
  <2> QED
    BY <1>1, <2>1, <2>2, <2>3 DEF PeersAccounted
<1>4. CASE CloseClient
  <2>1. /\ queue' = queue /\ conn' = None
        /\ \A d \in Clients : peer'[d] = peer[d] \/ peer'[d] = "released"
    BY <1>4 DEF CloseClient, NetTypeOK
  <2>2. \A i \in 1..Len(queue) : queue[i] \in Clients
    BY DEF NetTypeOK
  <2> QED
    BY <1>1, <2>1, <2>2 DEF PeersAccounted
<1>5. CASE ProcessFails \/ ProcessKilled \/ UNCHANGED netVars
  <2>1. UNCHANGED <<peer, queue, conn>>
    BY <1>5 DEF ProcessFails, ProcessKilled, netVars
  <2> QED
    BY <1>1, <2>1 DEF PeersAccounted
<1> QED
  BY <1>2, <1>3, <1>4, <1>5 DEF NetStep

-----------------------------------------------------------------------------

LEMMA SerialInit == NetInit => Serial!Init
BY DEF NetInit, Serial!Init

\* The set of clients given back, as the refinement maps it.
Released == {c \in Clients : peer[c] = "released"}

LEMMA SerialStep ==
  ASSUME NetInv, NetStep
  PROVE  [Serial!Next]_(Serial!svars)
<1> USE DEF NetInv, NetTypeOK
<1>1. CASE PeerStep
  <2>1. PICK c \in Clients : Connect(c) \/ Hush(c) \/ Leave(c)
    BY <1>1 DEF PeerStep
  <2>2. /\ proc' = "up" /\ proc = "up" /\ conn' = conn
        /\ Released' = Released
    BY <2>1 DEF Connect, Hush, Leave, Released
  <2>3. CASE Connect(c)
    <3>1. peer[c] = "away" /\ queue' = Append(queue, c)
      BY <2>3 DEF Connect
    <3>2. c # conn /\ c \notin Released /\ \A i \in 1..Len(queue) : queue[i] # c
      BY <3>1, ListenerAssumption DEF PeersAccounted, Released
    <3>3. Serial!Arrive(c)
      BY <2>2, <3>1, <3>2 DEF Serial!Arrive, Serial!Waiting, Released
    <3> QED
      BY <3>3 DEF Serial!Next
  <2>4. CASE Hush(c) \/ Leave(c)
    <3>1. queue' = queue
      BY <2>4 DEF Hush, Leave
    <3> QED
      BY <2>2, <3>1 DEF Serial!svars, Released
  <2> QED
    BY <2>1, <2>3, <2>4
<1>2. CASE AcceptClient
  <2>1. Serial!Serve
    BY <1>2 DEF AcceptClient, Serial!Serve
  <2> QED
    BY <2>1 DEF Serial!Next
<1>3. CASE CloseClient
  <2>1. Released' = Released \cup {conn}
    BY <1>3 DEF CloseClient, Released
  <2>2. Serial!Finish
    BY <1>3, <2>1 DEF CloseClient, Serial!Finish, Released
  <2> QED
    BY <2>2 DEF Serial!Next
<1>4. CASE ProcessFails \/ ProcessKilled
  <2>1. Serial!Stop
    BY <1>4 DEF ProcessFails, ProcessKilled, Serial!Stop
  <2> QED
    BY <2>1 DEF Serial!Next
<1>5. CASE UNCHANGED netVars
  BY <1>5 DEF netVars, Serial!svars
<1> QED
  BY <1>1, <1>2, <1>3, <1>4, <1>5 DEF NetStep

-----------------------------------------------------------------------------

\* Replacing an element of a sequence keeps its type, length and other elements.
LEMMA ReplaceElement ==
  ASSUME NEW S, NEW s \in Seq(S), NEW i \in 1..Len(s), NEW e \in S
  PROVE  /\ [s EXCEPT ![i] = e] \in Seq(S)
         /\ Len([s EXCEPT ![i] = e]) = Len(s)
         /\ \A j \in 1..Len(s) : [s EXCEPT ![i] = e][j] = IF j = i THEN e ELSE s[j]
OBVIOUS
=============================================================================
