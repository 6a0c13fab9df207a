--------------------------- MODULE AccountService ---------------------------
(***************************************************************************)
(* The account service on the account port (server.c): a detached thread   *)
(* accepts one connection at a time (serve_account), reads one HTTP        *)
(* request (read_http_headers), answers it and closes                      *)
(* (handle_account_request).  shutdown(SHUT_WR), which precedes close on   *)
(* the paths that answer 200 or 400, is part of the close.                 *)
(***************************************************************************)
EXTENDS Listener

CONSTANTS
  BufferSize,   \* what the request buffer holds, in units
  HeaderLen,    \* length of a status line with its headers, in units
  BodyLen       \* length of the JSON body

ASSUME AccountAssumption ==
  /\ BufferSize \in Nat \ {0}
  /\ HeaderLen \in Nat \ {0}
  /\ BodyLen \in Nat \ {0}

Statuses == {"200", "400", "500"}

ASSUME NoneIsNoStatus == None \notin Statuses

VARIABLES
  pc,       \* where the thread is; "returned" when it left serve_account
  total,    \* bytes of the request read so far
  root,     \* what was read starts with GET or POST, "/" and "HTTP/"
  status,   \* status of the response, or None
  header,   \* bytes of the header handed to the socket
  body,     \* bytes of the body handed to the socket
  cut,      \* the parts write_full gave up on
  heap      \* what became of each heap block of the handler

requestVars == <<total, root, status, header, body, cut, heap>>
vars == <<netVars, pc, requestVars>>

\* The thread is about to judge the request, to escape the account data, to
\* make the JSON body and to make the response header.
Making == {"judge", "escape", "json", "response"}

PCs == {"accept", "read", "header", "body", "close", "returned"} \cup Making

\* The three escaped strings, json_body and http_response.
Escaped == {"storefront_id", "dev_token", "music_token"}

Blocks == Escaped \cup {"json_body", "http_response"}

Fates == {"null", "live", "freed", "twice"}    \* "twice": freed once more

TypeOK ==
  /\ NetTypeOK
  /\ pc \in PCs
  /\ total \in 0..BufferSize
  /\ root \in BOOLEAN
  /\ status \in Statuses \cup {None}
  /\ header \in 0..HeaderLen /\ body \in 0..BodyLen
  /\ cut \subseteq {"header", "body"}
  /\ heap \in [Blocks -> Fates]

NoBlocks == [b \in Blocks |-> "null"]

Init ==
  /\ NetInit
  /\ pc = "accept"
  /\ total = 0 /\ root = FALSE
  /\ status = None /\ header = 0 /\ body = 0 /\ cut = {}
  /\ heap = NoBlocks

-----------------------------------------------------------------------------
(* serve_account *)

Accept ==
  /\ pc = "accept"
  /\ AcceptClient
  /\ pc' = "read"
  /\ total' = 0 /\ root' = FALSE
  /\ status' = None /\ header' = 0 /\ body' = 0 /\ cut' = {}
  /\ heap' = NoBlocks

\* As in serve_m3u8: the thread returns and its listening socket stays open.
AcceptFails ==
  /\ pc = "accept" /\ proc = "up"
  /\ pc' = "returned"
  /\ UNCHANGED <<netVars, requestVars>>

Close ==
  /\ pc = "close"
  /\ CloseClient
  /\ pc' = "accept"
  /\ UNCHANGED requestVars

-----------------------------------------------------------------------------
(* read_http_headers: until a blank line, a full buffer or end of file. *)

ReadSome ==
  /\ pc = "read" /\ CanRead
  /\ \E n \in 1..(BufferSize - total) :
       /\ total' = total + n
       /\ root' \in {root, TRUE}
       /\ pc' \in IF total' = BufferSize THEN {"judge"} ELSE {"read", "judge"}
  /\ UNCHANGED <<netVars, status, header, body, cut, heap>>

\* End of file after a part of a request: what there is gets answered.
ReadEnds ==
  /\ pc = "read" /\ proc = "up" /\ peer[conn] = "gone"
  /\ pc' = IF total > 0 THEN "judge" ELSE "close"
  /\ UNCHANGED <<netVars, requestVars>>

\* A reset, or the receive timeout: nobody is answered.
ReadFails ==
  /\ pc = "read" /\ ReadCanFail
  /\ pc' = "close"
  /\ UNCHANGED <<netVars, requestVars>>

-----------------------------------------------------------------------------
(* handle_account_request *)

Allowed_Any == TRUE

Allowed == root

Judge ==
  /\ pc = "judge" /\ proc = "up"
  /\ IF Allowed THEN pc' = "escape" /\ UNCHANGED status
                ELSE pc' = "header" /\ status' = "400"
  /\ UNCHANGED <<netVars, total, root, header, body, cut, heap>>

\* What malloc leaves of the heap for the blocks it returns, and free of it for
\* a list of pointers: free(NULL) does nothing.
Malloc(made) == [b \in Blocks |-> IF b \in made THEN "live" ELSE heap[b]]

AfterFree(fate) ==
  CASE fate = "null" -> "null" [] fate = "live" -> "freed" [] OTHER -> "twice"

Free(list, h) == [b \in Blocks |-> IF b \in list THEN AfterFree(h[b]) ELSE h[b]]

\* json_body is forgotten when the header cannot be allocated.
FreedAfter_Leak(way) ==
  CASE way \in {"not escaped", "no format", "no body", "body made"} -> Escaped
    [] way = "no length" -> {"json_body"}
    [] way = "no header" -> {}
    [] way = "served" -> {"http_response", "json_body"}

\* The list of frees on each way out of an allocation, and at the end.
FreedAfter(way) ==
  CASE way \in {"not escaped", "no format", "no body", "body made"} -> Escaped
    [] way \in {"no length", "no header"} -> {"json_body"}
    [] way = "served" -> {"http_response", "json_body"}

\* An allocation or a format failed: its frees, and the answer is a 500.
Refuse(way, h) ==
  /\ heap' = Free(FreedAfter(way), h)
  /\ status' = "500" /\ pc' = "header"

\* Three json_escape_string, each of which may return NULL, and one test.
Escape ==
  /\ pc = "escape" /\ proc = "up"
  /\ \E made \in SUBSET Escaped :
       IF made = Escaped
       THEN heap' = Malloc(made) /\ pc' = "json" /\ UNCHANGED status
       ELSE Refuse("not escaped", Malloc(made))
  /\ UNCHANGED <<netVars, total, root, header, body, cut>>

\* The escaped strings are freed once they are in the body.
MakeBody ==
  /\ pc = "json" /\ proc = "up"
  /\ \/ /\ heap' = Free(FreedAfter("body made"), Malloc({"json_body"}))
        /\ pc' = "response" /\ UNCHANGED status
     \/ Refuse("no format", heap)
     \/ Refuse("no body", heap)
  /\ UNCHANGED <<netVars, total, root, header, body, cut>>

MakeResponse ==
  /\ pc = "response" /\ proc = "up"
  /\ \/ heap' = Malloc({"http_response"}) /\ status' = "200" /\ pc' = "header"
     \/ Refuse("no length", heap)
     \/ Refuse("no header", heap)
  /\ UNCHANGED <<netVars, total, root, header, body, cut>>

\* The header is dealt with; only a 200 has a body.
AfterHeader == IF status = "200" THEN "body" ELSE "close"

WriteHeader ==
  /\ pc = "header" /\ CanWrite
  /\ \E k \in 1..(HeaderLen - header) : header' = header + k
  /\ pc' = IF AllWritten(header', HeaderLen) THEN AfterHeader ELSE "header"
  /\ UNCHANGED <<netVars, total, root, status, body, cut, heap>>

\* write_full returns nothing, so the body is written all the same.
HeaderGivesUp ==
  /\ pc = "header" /\ WriteCanFail
  /\ cut' = cut \cup {"header"}
  /\ pc' = AfterHeader
  /\ UNCHANGED <<netVars, total, root, status, header, body, heap>>

WriteBody ==
  /\ pc = "body" /\ CanWrite
  /\ \E k \in 1..(BodyLen - body) : body' = body + k
  /\ IF AllWritten(body', BodyLen)
     THEN pc' = "close" /\ heap' = Free(FreedAfter("served"), heap)
     ELSE UNCHANGED <<pc, heap>>
  /\ UNCHANGED <<netVars, total, root, status, header, cut>>

BodyGivesUp ==
  /\ pc = "body" /\ WriteCanFail
  /\ cut' = cut \cup {"body"}
  /\ pc' = "close" /\ heap' = Free(FreedAfter("served"), heap)
  /\ UNCHANGED <<netVars, total, root, status, header, body>>

WriteKilled ==
  /\ pc \in {"header", "body"} /\ WriteCanKill
  /\ ProcessKilled
  /\ UNCHANGED <<pc, requestVars>>

OtherThread == EndedElsewhere /\ UNCHANGED <<pc, requestVars>>

-----------------------------------------------------------------------------

ServerStep ==
  \/ Accept \/ Close
  \/ ReadSome \/ ReadEnds \/ ReadFails \/ Judge
  \/ Escape \/ MakeBody \/ MakeResponse
  \/ WriteHeader \/ HeaderGivesUp \/ WriteBody \/ BodyGivesUp

Fault == AcceptFails \/ WriteKilled \/ OtherThread

Next ==
  \/ ServerStep
  \/ Fault
  \/ PeerStep /\ UNCHANGED <<pc, requestVars>>

Spec == Init /\ [][Next]_vars

FairSpec == Spec /\ WF_vars(ServerStep)

-----------------------------------------------------------------------------
(* What the service promises. *)

\* Nothing is sent before a request was read, the account data only to a
\* request for "/", and no byte of it before the header was dealt with.
DataOnlyForRoot ==
  /\ header > 0 => total > 0 /\ status # None
  /\ body > 0 =>
       /\ status = "200" /\ root
       /\ header = HeaderLen \/ "header" \in cut

\* A served client was sent a whole response, unless write_full gave up on a
\* part of it, or no request could be read.
WholeResponse ==
  pc = "close" =>
    \/ status = None
    \/ "header" \in cut \/ "body" \in cut
    \/ header = HeaderLen /\ (status = "200" => body = BodyLen)

\* The blocks the handler still has to use at each of its places.
InUse ==
  CASE pc = "json" -> Escaped
    [] pc = "response" -> {"json_body"}
    [] pc \in {"header", "body"} /\ status = "200" -> {"json_body", "http_response"}
    [] OTHER -> {}

\* Whichever of the five allocations or two formats fails, and whatever becomes
\* of the writes, no block is freed twice, none is used after its free and none
\* is left when the handler returns.
HeapAccounted ==
  /\ \A b \in Blocks : heap[b] # "twice"
  /\ {b \in Blocks : heap[b] = "live"} = InUse

\* As for the m3u8 service.
QueuedClientServed ==
  (\A c \in Clients : []<>(peer[c] # "active"))
    => \A c \in Clients : Queued(c) ~> (conn = c \/ Down \/ pc = "returned")
=============================================================================
