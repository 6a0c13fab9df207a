----------------------------- MODULE M3u8Service -----------------------------
(***************************************************************************)
(* The lookup service on the m3u8 port (server.c): a detached thread       *)
(* accepts one connection at a time (serve_m3u8) and answers a sequence of *)
(* requests on it (handle_m3u8_request).  A request names a song; the      *)
(* answer is one line, the URL found for it or nothing.                    *)
(***************************************************************************)
EXTENDS Listener

CONSTANTS
  Ids,           \* the ids a request may name
  Bad,           \* any text that is not a positive decimal number
  UrlLineLen,    \* length of a line with a URL; a blank line has length 1
  MaxRequests    \* bound of the model: requests of one connection

ASSUME M3u8Assumption ==
  /\ Bad \notin Ids
  /\ UrlLineLen \in Nat /\ UrlLineLen > 1
  /\ MaxRequests \in Nat

Urls == [id : Ids, by : {"download", "play"}]

ASSUME NoneIsNoUrl == None \notin Urls

VARIABLES
  pc,        \* where the thread is; "returned" when it left serve_m3u8
  offline,   \* is_offline_available, settled before the thread starts
  asked,     \* the requests of this connection
  found,     \* m3u8: the URL looked up for the last request, or None
  lines,     \* the lines of this connection, and how much was handed over
  dropped,   \* requests of this connection that got no line at all
  strings,   \* live heap blocks holding m3u8 or with_newline
  purchases  \* purchase_request blocks, which nothing frees

requestVars == <<offline, asked, found, lines, dropped, strings, purchases>>
vars == <<netVars, pc, requestVars>>

PCs == {"accept", "request", "lookup", "answer", "write", "close", "returned"}

Lines == [req : Nat, url : Urls \cup {None}, len : 1..UrlLineLen,
          sent : 0..UrlLineLen, cut : BOOLEAN]

TypeOK ==
  /\ NetTypeOK
  /\ pc \in PCs
  /\ offline \in BOOLEAN
  /\ asked \in Seq(Ids \cup {Bad})
  /\ found \in Urls \cup {None}
  /\ lines \in Seq(Lines)
  /\ dropped \in Nat /\ strings \in 0..2 /\ purchases \in Nat

Init ==
  /\ NetInit
  /\ pc = "accept"
  /\ offline \in BOOLEAN
  /\ asked = <<>> /\ lines = <<>>
  /\ found = None
  /\ dropped = 0 /\ strings = 0 /\ purchases = 0

-----------------------------------------------------------------------------
(* serve_m3u8 *)

Accept ==
  /\ pc = "accept"
  /\ AcceptClient
  /\ pc' = "request"
  /\ asked' = <<>> /\ lines' = <<>> /\ dropped' = 0
  /\ UNCHANGED <<offline, found, strings, purchases>>

\* accept4 failed for good: the thread returns.  Its listening socket stays
\* open, so the kernel goes on completing connections that nobody accepts.
AcceptFails ==
  /\ pc = "accept" /\ proc = "up"
  /\ pc' = "returned"
  /\ UNCHANGED <<netVars, requestVars>>

\* An error of close() is logged; the descriptor is released all the same.
Close ==
  /\ pc = "close"
  /\ CloseClient
  /\ pc' = "accept"
  /\ UNCHANGED requestVars

-----------------------------------------------------------------------------
(* handle_m3u8_request *)

Line(req, url) ==
  [req |-> req, url |-> url, len |-> IF url = None THEN 1 ELSE UrlLineLen,
   sent |-> 0, cut |-> FALSE]

\* An id that is no number is skipped in silence.
InvalidAnswered_Silent == lines

InvalidAnswered == Append(lines, Line(Len(asked) + 1, None))

\* MaxRequests bounds the requests of a connection in the model only.
ReadRequest ==
  /\ pc = "request" /\ CanRead
  /\ \/ /\ pc' = "close"                                \* adam_size = 0
        /\ UNCHANGED <<asked, lines>>
     \/ /\ Len(asked) < MaxRequests
        /\ \E id \in Ids :
             /\ asked' = Append(asked, id)
             /\ pc' = "lookup"
             /\ UNCHANGED lines
     \/ /\ Len(asked) < MaxRequests
        /\ asked' = Append(asked, Bad)
        /\ lines' = InvalidAnswered
        /\ pc' = "write"
  /\ UNCHANGED <<netVars, offline, found, dropped, strings, purchases>>

ReadFails ==
  /\ pc = "request" /\ ReadCanFail
  /\ pc' = "close"
  /\ UNCHANGED <<netVars, requestVars>>

\* The id of the first request is used for all of them.
Asked_First == asked[1]

Asked == asked[Len(asked)]

(***************************************************************************)
(* get_m3u8_method_download or get_m3u8_method_play.  The first allocates  *)
(* its purchase request before it asks, and keeps it whatever comes back.  *)
(***************************************************************************)
Lookup ==
  /\ pc = "lookup" /\ proc = "up"
  /\ \/ /\ offline
        /\ purchases' = purchases + 1
        /\ found' \in {None, [id |-> Asked, by |-> "download"]}
     \/ /\ offline
        /\ found' = None                                \* malloc failed
        /\ UNCHANGED purchases
     \/ /\ ~offline
        /\ found' \in {None, [id |-> Asked, by |-> "play"]}
        /\ UNCHANGED purchases
  /\ strings' = strings + IF found' = None THEN 0 ELSE 1
  /\ pc' = "answer"
  /\ UNCHANGED <<netVars, offline, asked, lines, dropped>>

\* What free(m3u8) leaves when with_newline could not be allocated.
FreedWithoutLine == strings - 1

\* A blank line, the URL with a newline, or nothing when malloc fails.
Answer ==
  /\ pc = "answer" /\ proc = "up"
  /\ \/ /\ found = None
        /\ lines' = Append(lines, Line(Len(asked), None))
        /\ pc' = "write"
        /\ UNCHANGED <<found, dropped, strings>>
     \/ /\ found # None
        /\ lines' = Append(lines, Line(Len(asked), found))
        /\ strings' = strings + 1
        /\ pc' = "write"
        /\ UNCHANGED <<found, dropped>>
     \/ /\ found # None
        /\ dropped' = dropped + 1
        /\ strings' = FreedWithoutLine
        /\ found' = None
        /\ pc' = "request"
        /\ UNCHANGED lines
  /\ UNCHANGED <<netVars, offline, asked, purchases>>

Last == Len(lines)

\* Only with_newline is freed.
FreedAfterLine_One == IF found = None THEN 0 ELSE 1

\* What is left of m3u8 and with_newline once the line is out or given up.
FreedAfterLine == 0

EndLine ==
  /\ strings' = FreedAfterLine
  /\ found' = None
  /\ pc' = "request"

WriteSome ==
  /\ pc = "write" /\ CanWrite
  /\ \E k \in 1..(lines[Last].len - lines[Last].sent) :
       /\ lines' = [lines EXCEPT ![Last].sent = @ + k]
       /\ IF AllWritten(lines[Last].sent + k, lines[Last].len)
          THEN EndLine
          ELSE UNCHANGED <<strings, found, pc>>
  /\ UNCHANGED <<netVars, offline, asked, dropped, purchases>>

WriteGivesUp ==
  /\ pc = "write" /\ WriteCanFail
  /\ lines' = [lines EXCEPT ![Last].cut = TRUE]
  /\ EndLine
  /\ UNCHANGED <<netVars, offline, asked, dropped, purchases>>

WriteKilled ==
  /\ pc = "write" /\ WriteCanKill
  /\ ProcessKilled
  /\ UNCHANGED <<pc, requestVars>>

\* Nothing in this thread catches an exception of the runtime.
Terminate ==
  /\ pc = "lookup"
  /\ ProcessKilled
  /\ UNCHANGED <<pc, requestVars>>

OtherThread == EndedElsewhere /\ UNCHANGED <<pc, requestVars>>

-----------------------------------------------------------------------------

ServerStep ==
  \/ Accept \/ Close
  \/ ReadRequest \/ ReadFails \/ Lookup \/ Answer
  \/ WriteSome \/ WriteGivesUp

Fault == AcceptFails \/ WriteKilled \/ Terminate \/ OtherThread

Next ==
  \/ ServerStep
  \/ Fault
  \/ PeerStep /\ UNCHANGED <<pc, requestVars>>

Spec == Init /\ [][Next]_vars

\* As for the decrypt service: the thread is scheduled, timers expire and the
\* runtime answers; nothing is assumed of the peers.
FairSpec == Spec /\ WF_vars(ServerStep)

-----------------------------------------------------------------------------
(* What the service promises. *)

\* A line with a URL answers the request it was written for, with a URL of the
\* kind the mode settled at startup asks for; an id that is not a number gets
\* a blank line; and answers come in the order of the requests.
LinesAnswerRequests ==
  /\ \A i \in 1..Len(lines) :
       /\ lines[i].req \in 1..Len(asked)
       /\ lines[i].url # None =>
            /\ lines[i].url.id = asked[lines[i].req]
            /\ lines[i].url.by = "download" <=> offline
  /\ \A i, j \in 1..Len(lines) : i < j => lines[i].req < lines[j].req

\* Every request is accounted for: it has its one line, is the one being
\* looked up, or is one for which with_newline could not be allocated.
OneLineEach ==
  Len(asked) = Len(lines) + dropped + (IF pc \in {"lookup", "answer"} THEN 1 ELSE 0)

\* No path leaks the URL or the line made of it; a purchase request, which
\* every path leaks, is made only where lookups go through downloads.
StringsFreed ==
  /\ strings > 0 => pc \in {"answer", "write"}
  /\ pc \in {"answer", "write"} /\ found # None <=> strings > 0
  /\ purchases > 0 => offline

\* README.md:110: a request without a result is answered by an empty line.
\* A client that was read from again has the answers to its earlier requests.
EveryRequestAnswered ==
  pc = "request" => Len(lines) = Len(asked)

\* Every completed connection is served in the end, provided that no client
\* keeps the thread busy for ever and the thread has not left its loop.
QueuedClientServed ==
  (\A c \in Clients : []<>(peer[c] # "active"))
    => \A c \in Clients : Queued(c) ~> (conn = c \/ Down \/ pc = "returned")
=============================================================================
