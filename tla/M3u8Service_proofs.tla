------------------------- MODULE M3u8Service_proofs -------------------------
(***************************************************************************)
(* Proofs about the m3u8 service, for any clients, ids, backlog, line      *)
(* length and number of requests.                                          *)
(***************************************************************************)
EXTENDS M3u8Service, Listener_proofs

(***************************************************************************)
(* What the URL in hand and the blocks on the heap are at each place, and  *)
(* that a request without an answer comes after all that have one.         *)
(***************************************************************************)
InHand ==
  /\ pc \notin {"answer", "write"} => found = None /\ strings = 0
  /\ pc = "answer" =>
       /\ strings = IF found = None THEN 0 ELSE 1
       /\ found # None => /\ found.id = asked[Len(asked)]
                          /\ found.by = "download" <=> offline
  /\ pc = "write" => lines # <<>> /\ strings = IF found = None THEN 0 ELSE 2
  /\ purchases > 0 => offline

Pending ==
  /\ pc \in {"lookup", "answer"} => \A i \in 1..Len(lines) : lines[i].req < Len(asked)
  /\ pc = "lookup" => asked[Len(asked)] \in Ids

IInv == TypeOK /\ InHand /\ Pending /\ LinesAnswerRequests /\ OneLineEach

USE M3u8Assumption, ListenerAssumption, NoneIsNoUrl

LEMMA ListenerStep ==
  ASSUME [Next]_vars
  PROVE  NetStep
BY DEF NetStep, Next, vars, ServerStep, Fault, Accept, AcceptFails, Close, ReadRequest,
       ReadFails, Lookup, Answer, WriteSome, WriteGivesUp, WriteKilled, Terminate,
       OtherThread, EndedElsewhere

\* What StringsFreed says of the heap follows from InHand.
LEMMA StringsFromInHand == IInv => StringsFreed
BY DEF IInv, InHand, StringsFreed

LEMMA InitIInv == Init => IInv
<1> SUFFICES ASSUME Init PROVE IInv
  OBVIOUS
<1>1. NetTypeOK
  BY DEF Init, NetInit, NetTypeOK, PeerStates
<1>2. TypeOK
  BY <1>1 DEF Init, TypeOK, PCs
<1>3. Len(asked) = 0 /\ Len(lines) = 0
  BY DEF Init
<1>4. InHand /\ Pending
  BY DEF Init, InHand, Pending
<1>5. LinesAnswerRequests /\ OneLineEach
  BY <1>3 DEF Init, LinesAnswerRequests, OneLineEach
<1> QED
  BY <1>2, <1>4, <1>5 DEF IInv

\* One write(), or its failure, changes no more of the last line than how much
\* of it went out.
LEMMA WriteKeepsLines ==
  ASSUME IInv, WriteSome \/ WriteGivesUp
  PROVE  /\ lines' \in Seq(Lines)
         /\ Len(lines') = Len(lines)
         /\ \A i \in 1..Len(lines) :
              lines'[i].req = lines[i].req /\ lines'[i].url = lines[i].url
<1> USE DEF IInv
<1>1. Last \in 1..Len(lines) /\ lines \in Seq(Lines)
  BY DEF WriteSome, WriteGivesUp, TypeOK, InHand, Last
<1> DEFINE r == lines[Last]
<1>2. r \in Lines
  BY <1>1
<1>3. PICK e \in Lines : /\ lines' = [lines EXCEPT ![Last] = e]
                         /\ e.req = r.req /\ e.url = r.url
  <2>1. CASE WriteSome
    <3>1. PICK k \in 1..(r.len - r.sent) : lines' = [lines EXCEPT ![Last].sent = @ + k]
      BY <2>1 DEF WriteSome
    <3> DEFINE e == [r EXCEPT !.sent = @ + k]
    <3>2. e \in Lines /\ e.req = r.req /\ e.url = r.url
      BY <1>2, <3>1 DEF Lines
    <3>3. lines' = [lines EXCEPT ![Last] = e]
      BY <3>1
    <3> QED
      BY <3>2, <3>3
  <2>2. CASE WriteGivesUp
    <3> DEFINE e == [r EXCEPT !.cut = TRUE]
    <3>1. e \in Lines /\ e.req = r.req /\ e.url = r.url
      BY <1>2 DEF Lines
    <3>2. lines' = [lines EXCEPT ![Last] = e]
      BY <2>2 DEF WriteGivesUp
    <3> QED
      BY <3>1, <3>2
  <2> QED
    BY <2>1, <2>2
<1> HIDE DEF r
<1>4. /\ lines' \in Seq(Lines)
      /\ Len(lines') = Len(lines)
      /\ \A j \in 1..Len(lines) : lines'[j] = IF j = Last THEN e ELSE lines[j]
  BY <1>1, <1>3, ReplaceElement
<1> QED
  BY <1>3, <1>4 DEF r

\* Appending to a sequence keeps its elements and adds one behind them.
LEMMA AppendElement ==
  ASSUME NEW S, NEW s \in Seq(S), NEW e \in S
  PROVE  /\ Append(s, e) \in Seq(S)
         /\ Len(Append(s, e)) = Len(s) + 1
         /\ \A j \in 1..Len(s) : Append(s, e)[j] = s[j]
         /\ Append(s, e)[Len(s) + 1] = e
OBVIOUS

LEMMA LineIsLine ==
  ASSUME NEW req \in Nat, NEW url \in Urls \cup {None}
  PROVE  /\ Line(req, url) \in Lines
         /\ Line(req, url).req = req /\ Line(req, url).url = url
BY DEF Line, Lines

\* The requests grow at the end only.
Grows == /\ Len(asked') \in Nat /\ Len(asked) =< Len(asked')
         /\ \A i \in 1..Len(asked) : asked'[i] = asked[i]

\* Lines that stay what they were go on answering their requests.
LEMMA KeptLines ==
  ASSUME LinesAnswerRequests, TypeOK, Grows, offline' = offline,
         Len(lines') = Len(lines),
         \A i \in 1..Len(lines) : lines'[i].req = lines[i].req /\ lines'[i].url = lines[i].url
  PROVE  LinesAnswerRequests'
<1>1. Len(lines) \in Nat /\ Len(asked) \in Nat
  BY DEF TypeOK
<1>2. ASSUME NEW i \in 1..Len(lines')
      PROVE  /\ lines'[i].req \in 1..Len(asked')
             /\ lines'[i].url # None =>
                  /\ lines'[i].url.id = asked'[lines'[i].req]
                  /\ lines'[i].url.by = "download" <=> offline'
  <2>1. lines[i].req \in 1..Len(asked)
    BY DEF LinesAnswerRequests
  <2>2. lines'[i].req \in 1..Len(asked') /\ asked'[lines'[i].req] = asked[lines[i].req]
    BY <1>1, <2>1 DEF Grows
  <2> QED
    BY <2>2 DEF LinesAnswerRequests
<1>3. \A i, j \in 1..Len(lines') : i < j => lines'[i].req < lines'[j].req
  BY DEF LinesAnswerRequests
<1> QED
  BY <1>2, <1>3 DEF LinesAnswerRequests

\* A line for the last request, which had none, keeps them in order.
LEMMA NewLine ==
  ASSUME LinesAnswerRequests, TypeOK, Grows, offline' = offline, Len(asked') > 0,
         NEW url \in Urls \cup {None},
         lines' = Append(lines, Line(Len(asked'), url)),
         \A i \in 1..Len(lines) : lines[i].req < Len(asked'),
         url # None => /\ url.id = asked'[Len(asked')]
                       /\ url.by = "download" <=> offline
  PROVE  /\ lines' \in Seq(Lines)
         /\ Len(lines') = Len(lines) + 1
         /\ LinesAnswerRequests'
<1> DEFINE e == Line(Len(asked'), url)
<1>1. e \in Lines /\ e.req = Len(asked') /\ e.url = url
  BY LineIsLine DEF Grows
<1>2. lines \in Seq(Lines) /\ Len(lines) \in Nat /\ Len(asked) \in Nat
  BY DEF TypeOK
<1>3. lines' = Append(lines, e)
  OBVIOUS
<1> HIDE DEF e
<1>4. /\ lines' \in Seq(Lines)
      /\ Len(lines') = Len(lines) + 1
      /\ \A j \in 1..Len(lines) : lines'[j] = lines[j]
      /\ lines'[Len(lines) + 1] = e
  BY <1>1, <1>2, <1>3, AppendElement
<1>5. ASSUME NEW i \in 1..Len(lines')
      PROVE  /\ lines'[i].req \in 1..Len(asked')
             /\ lines'[i].url # None =>
                  /\ lines'[i].url.id = asked'[lines'[i].req]
                  /\ lines'[i].url.by = "download" <=> offline'
  <2>1. CASE i = Len(lines) + 1
    <3>1. lines'[i].req = Len(asked') /\ lines'[i].url = url
      BY <1>1, <1>4, <2>1
    <3> QED
      BY <3>1 DEF Grows
  <2>2. CASE i \in 1..Len(lines)
    BY <1>2, <1>4, <2>2 DEF LinesAnswerRequests, Grows
  <2> QED
    BY <1>2, <1>4, <2>1, <2>2
<1>6. ASSUME NEW i \in 1..Len(lines'), NEW j \in 1..Len(lines'), i < j
      PROVE  lines'[i].req < lines'[j].req
  <2>1. i \in 1..Len(lines) /\ lines'[i] = lines[i]
    BY <1>2, <1>4, <1>6
  <2>2. CASE j = Len(lines) + 1
    BY <1>1, <1>4, <2>1, <2>2
  <2>3. CASE j \in 1..Len(lines)
    BY <1>4, <1>6, <2>1, <2>3 DEF LinesAnswerRequests
  <2> QED
    BY <1>2, <1>4, <2>2, <2>3
<1> QED
  BY <1>4, <1>5, <1>6 DEF LinesAnswerRequests

-----------------------------------------------------------------------------
(* Every step keeps the invariant. *)

\* A new connection starts without requests and lines.
LEMMA AcceptIInv ==
  ASSUME IInv, NetTypeOK', Accept
  PROVE  IInv'
<1>1. /\ pc = "accept" /\ pc' = "request"
      /\ asked' = <<>> /\ lines' = <<>> /\ dropped' = 0
      /\ UNCHANGED <<offline, found, strings, purchases>>
  BY DEF Accept
<1>2. Len(asked') = 0 /\ Len(lines') = 0
  BY <1>1
<1>3. TypeOK'
  BY <1>1 DEF IInv, TypeOK, PCs
<1>4. InHand' /\ Pending'
  BY <1>1 DEF IInv, InHand, Pending
<1>5. LinesAnswerRequests' /\ OneLineEach'
  BY <1>1, <1>2 DEF LinesAnswerRequests, OneLineEach
<1> QED
  BY <1>3, <1>4, <1>5 DEF IInv

\* A step between the requests, or one of the listener alone.
LEMMA IdleIInv ==
  ASSUME IInv, NetTypeOK', UNCHANGED requestVars,
         \/ pc' = pc
         \/ pc \notin {"lookup", "answer", "write"}
            /\ pc' \in PCs \ {"lookup", "answer", "write"}
  PROVE  IInv'
<1>1. TypeOK'
  BY DEF IInv, TypeOK, requestVars
<1>2. InHand' /\ Pending'
  BY DEF IInv, InHand, Pending, requestVars
<1>3. LinesAnswerRequests'
  BY DEF IInv, LinesAnswerRequests, requestVars
<1>4. OneLineEach'
  BY DEF IInv, OneLineEach, requestVars
<1> QED
  BY <1>1, <1>2, <1>3, <1>4 DEF IInv

\* A request joins those of the connection; one that is no number has its line.
LEMMA ReadRequestIInv ==
  ASSUME IInv, NetTypeOK', ReadRequest
  PROVE  IInv'
<1>1. /\ pc = "request"
      /\ UNCHANGED <<offline, found, dropped, strings, purchases>>
  BY DEF ReadRequest
<1>2. /\ asked \in Seq(Ids \cup {Bad}) /\ Len(asked) \in Nat
      /\ lines \in Seq(Lines) /\ Len(lines) \in Nat
      /\ dropped \in Nat
  BY DEF IInv, TypeOK
<1>3. Len(asked) = Len(lines) + dropped
  BY <1>1, <1>2 DEF IInv, OneLineEach
<1>4. CASE pc' = "close" /\ UNCHANGED <<asked, lines>>
  BY <1>1, <1>4, IdleIInv DEF requestVars, PCs
<1>5. ASSUME NEW id \in Ids \cup {Bad}, asked' = Append(asked, id)
      PROVE  /\ asked' \in Seq(Ids \cup {Bad})
             /\ Len(asked') = Len(asked) + 1
             /\ asked'[Len(asked')] = id
             /\ Grows
  BY <1>2, <1>5, AppendElement DEF Grows
<1>6. \A i \in 1..Len(lines) : lines[i].req \in Nat /\ lines[i].req =< Len(asked)
  BY <1>2 DEF IInv, LinesAnswerRequests
<1>7. ASSUME NEW id \in Ids, asked' = Append(asked, id), pc' = "lookup", lines' = lines
      PROVE  IInv'
  <2>1. /\ asked' \in Seq(Ids \cup {Bad}) /\ Len(asked') = Len(asked) + 1 /\ Grows
        /\ asked'[Len(asked')] = id
    BY <1>5, <1>7
  <2>2. TypeOK'
    BY <1>1, <1>7, <2>1 DEF IInv, TypeOK, PCs
  <2>3. InHand'
    BY <1>1, <1>7 DEF IInv, InHand
  <2>4. Pending'
    BY <1>2, <1>6, <1>7, <2>1 DEF Pending
  <2>5. LinesAnswerRequests'
    BY <1>1, <1>7, <2>1, KeptLines DEF IInv
  <2>6. OneLineEach'
    BY <1>1, <1>2, <1>3, <1>7, <2>1 DEF OneLineEach
  <2> QED
    BY <2>2, <2>3, <2>4, <2>5, <2>6 DEF IInv
<1>8. ASSUME asked' = Append(asked, Bad), pc' = "write",
             lines' = Append(lines, Line(Len(asked) + 1, None))
      PROVE  IInv'
  <2>1. asked' \in Seq(Ids \cup {Bad}) /\ Len(asked') = Len(asked) + 1 /\ Grows
    BY <1>5, <1>8
  <2>2. lines' = Append(lines, Line(Len(asked'), None))
    BY <1>8, <2>1
  <2>3. \A i \in 1..Len(lines) : lines[i].req < Len(asked')
    BY <1>2, <1>6, <2>1
  <2>4. Len(asked') > 0
    BY <1>2, <2>1
  <2>5. /\ lines' \in Seq(Lines)
        /\ Len(lines') = Len(lines) + 1
        /\ LinesAnswerRequests'
    BY <1>1, <2>1, <2>2, <2>3, <2>4, NewLine DEF IInv
  <2>6. TypeOK'
    BY <1>1, <1>8, <2>1, <2>5 DEF IInv, TypeOK, PCs
  <2>7. InHand' /\ Pending'
    BY <1>1, <1>2, <1>8, <2>5 DEF IInv, InHand, Pending
  <2>8. OneLineEach'
    BY <1>1, <1>2, <1>3, <1>8, <2>1, <2>5 DEF OneLineEach
  <2> QED
    BY <2>5, <2>6, <2>7, <2>8 DEF IInv
<1> QED
  BY <1>4, <1>7, <1>8 DEF ReadRequest, InvalidAnswered

\* The lookup leaves a URL for the last request, or none.
LEMMA LookupIInv ==
  ASSUME IInv, NetTypeOK', Lookup
  PROVE  IInv'
<1>1. /\ pc = "lookup" /\ pc' = "answer"
      /\ UNCHANGED <<offline, asked, lines, dropped>>
  BY DEF Lookup
<1>2. strings = 0 /\ strings' = IF found' = None THEN 0 ELSE 1
  BY <1>1 DEF Lookup, IInv, InHand
<1>3. asked \in Seq(Ids \cup {Bad}) /\ Len(asked) \in Nat /\ Len(lines) \in Nat
  BY DEF IInv, TypeOK
<1>4. Asked \in Ids /\ Asked = asked[Len(asked)]
  BY <1>1 DEF IInv, Pending, Asked
<1>5. found' # None => /\ found'.id = asked'[Len(asked')]
                       /\ found'.by = "download" <=> offline'
  <2>1. CASE found' = [id |-> Asked, by |-> "download"] /\ offline
    BY <1>1, <1>4, <2>1
  <2>2. CASE found' = [id |-> Asked, by |-> "play"] /\ ~offline
    BY <1>1, <1>4, <2>2
  <2>3. CASE found' = None
    BY <2>3
  <2> QED
    BY <2>1, <2>2, <2>3 DEF Lookup
<1>6. found' \in Urls \cup {None}
  BY <1>4 DEF Lookup, Urls
<1>7. purchases' \in Nat /\ (purchases' > 0 => offline')
  BY <1>1 DEF Lookup, IInv, InHand, TypeOK
<1>8. TypeOK'
  BY <1>1, <1>2, <1>6, <1>7 DEF IInv, TypeOK, PCs
<1>9. InHand'
  BY <1>1, <1>2, <1>5, <1>7 DEF InHand
<1>10. Pending'
  BY <1>1 DEF IInv, Pending
<1>11. LinesAnswerRequests'
  BY <1>1, <1>3, KeptLines DEF IInv, Grows
<1>12. OneLineEach'
  BY <1>1 DEF IInv, OneLineEach
<1> QED
  BY <1>8, <1>9, <1>10, <1>11, <1>12 DEF IInv

\* The answer is a line for the pending request, or its URL is dropped.
LEMMA AnswerIInv ==
  ASSUME IInv, NetTypeOK', Answer
  PROVE  IInv'
<1>1. /\ pc = "answer"
      /\ UNCHANGED <<offline, asked, purchases>>
  BY DEF Answer
<1>2. /\ asked \in Seq(Ids \cup {Bad}) /\ Len(asked) \in Nat
      /\ lines \in Seq(Lines) /\ Len(lines) \in Nat
      /\ dropped \in Nat /\ found \in Urls \cup {None}
  BY DEF IInv, TypeOK
<1>3. Len(asked) = Len(lines) + dropped + 1
  BY <1>1, <1>2 DEF IInv, OneLineEach
<1>4. Grows
  BY <1>1, <1>2 DEF Grows
<1>5. strings = IF found = None THEN 0 ELSE 1
  BY <1>1 DEF IInv, InHand
<1>6. ASSUME lines' = Append(lines, Line(Len(asked), found)), pc' = "write",
             UNCHANGED <<found, dropped>>, strings' = IF found = None THEN 0 ELSE 2
      PROVE  IInv'
  <2>1. lines' = Append(lines, Line(Len(asked'), found))
    BY <1>1, <1>6
  <2>2. \A i \in 1..Len(lines) : lines[i].req < Len(asked')
    BY <1>1 DEF IInv, Pending
  <2>3. found # None => /\ found.id = asked'[Len(asked')]
                        /\ found.by = "download" <=> offline
    BY <1>1 DEF IInv, InHand
  <2>4. Len(asked') > 0
    BY <1>1, <1>2, <1>3
  <2>5. /\ lines' \in Seq(Lines)
        /\ Len(lines') = Len(lines) + 1
        /\ LinesAnswerRequests'
    BY <1>1, <1>2, <1>4, <2>1, <2>2, <2>3, <2>4, NewLine DEF IInv
  <2>6. TypeOK'
    BY <1>1, <1>6, <2>5 DEF IInv, TypeOK, PCs
  <2>7. InHand' /\ Pending'
    BY <1>1, <1>2, <1>6, <2>5 DEF IInv, InHand, Pending
  <2>8. OneLineEach'
    BY <1>1, <1>2, <1>3, <1>6, <2>5 DEF OneLineEach
  <2> QED
    BY <2>5, <2>6, <2>7, <2>8 DEF IInv
<1>7. ASSUME found # None, lines' = lines, pc' = "request", dropped' = dropped + 1,
             strings' = FreedWithoutLine, found' = None
      PROVE  IInv'
  <2>1. strings' = 0
    BY <1>5, <1>7 DEF FreedWithoutLine
  <2>2. TypeOK'
    BY <1>1, <1>7, <2>1 DEF IInv, TypeOK, PCs
  <2>3. InHand' /\ Pending'
    BY <1>1, <1>7, <2>1 DEF IInv, InHand, Pending
  <2>4. LinesAnswerRequests'
    BY <1>1, <1>4, <1>7, KeptLines DEF IInv
  <2>5. OneLineEach'
    BY <1>1, <1>2, <1>3, <1>7 DEF OneLineEach
  <2> QED
    BY <2>2, <2>3, <2>4, <2>5 DEF IInv
<1>8. CASE found = None
  <2>1. lines' = Append(lines, Line(Len(asked), found)) /\ pc' = "write"
        /\ UNCHANGED <<found, dropped, strings>>
    BY <1>8 DEF Answer
  <2> QED
    BY <1>5, <1>6, <1>8, <2>1
<1>9. CASE found # None
  BY <1>5, <1>6, <1>7, <1>9 DEF Answer
<1> QED
  BY <1>8, <1>9

\* Writing the line; when it is out or given up, its strings are freed.
LEMMA WriteIInv ==
  ASSUME IInv, NetTypeOK', WriteSome \/ WriteGivesUp
  PROVE  IInv'
<1>1. /\ pc = "write"
      /\ UNCHANGED <<offline, asked, dropped, purchases>>
  BY DEF WriteSome, WriteGivesUp
<1>2. /\ lines' \in Seq(Lines)
      /\ Len(lines') = Len(lines)
      /\ \A i \in 1..Len(lines) :
           lines'[i].req = lines[i].req /\ lines'[i].url = lines[i].url
  BY WriteKeepsLines
<1>3. \/ pc' = "write" /\ UNCHANGED <<strings, found>>
      \/ pc' = "request" /\ strings' = 0 /\ found' = None
  BY <1>1 DEF WriteSome, WriteGivesUp, EndLine, FreedAfterLine
<1>4. Len(asked) \in Nat /\ Len(lines) \in Nat /\ lines \in Seq(Lines)
  BY DEF IInv, TypeOK
<1>5. TypeOK'
  BY <1>1, <1>2, <1>3 DEF IInv, TypeOK, PCs
<1>6. lines # <<>> /\ lines' # <<>>
  BY <1>1, <1>2, <1>4 DEF IInv, InHand
<1>7. InHand' /\ Pending'
  BY <1>1, <1>3, <1>6 DEF IInv, InHand, Pending
<1>8. LinesAnswerRequests'
  BY <1>1, <1>2, <1>4, KeptLines DEF IInv, Grows
<1>9. OneLineEach'
  BY <1>1, <1>2, <1>3 DEF IInv, OneLineEach
<1> QED
  BY <1>5, <1>7, <1>8, <1>9 DEF IInv

LEMMA NextIInv == IInv /\ [Next]_vars => IInv'
<1> SUFFICES ASSUME IInv, [Next]_vars PROVE IInv'
  OBVIOUS
<1>1. NetTypeOK'
  BY ListenerStep, NetType DEF IInv, TypeOK
<1>2. CASE Accept
  BY <1>1, <1>2, AcceptIInv
<1>3. CASE ReadRequest
  BY <1>1, <1>3, ReadRequestIInv
<1>4. CASE Lookup
  BY <1>1, <1>4, LookupIInv
<1>5. CASE Answer
  BY <1>1, <1>5, AnswerIInv
<1>6. CASE WriteSome \/ WriteGivesUp
  BY <1>1, <1>6, WriteIInv
<1>7. CASE \/ Close \/ ReadFails \/ Fault \/ UNCHANGED vars
           \/ PeerStep /\ UNCHANGED <<pc, requestVars>>
  <2>1. /\ UNCHANGED requestVars
        /\ \/ pc' = pc
           \/ pc \in {"accept", "request", "close"}
              /\ pc' \in {"accept", "close", "returned"}
    BY <1>7 DEF Close, ReadFails, Fault, AcceptFails, WriteKilled, Terminate, OtherThread,
                vars
  <2> QED
    BY <1>1, <2>1, IdleIInv DEF PCs
<1> QED
  BY <1>2, <1>3, <1>4, <1>5, <1>6, <1>7 DEF Next, ServerStep

-----------------------------------------------------------------------------
(* The theorems. *)

\* The inductive invariant holds in every reachable state.
THEOREM Invariance == Spec => []IInv
BY InitIInv, NextIInv, PTL DEF Spec

\* Every variable of the m3u8 service keeps to its type
\* (handle_m3u8_request, serve_m3u8).
THEOREM TypeCorrect == Spec => []TypeOK
BY Invariance, PTL DEF IInv

\* A line answers the request it was written for, in order, with a URL of the
\* kind settled at startup (handle_m3u8_request).
THEOREM AnswersCorrect == Spec => []LinesAnswerRequests
BY Invariance, PTL DEF IInv

\* Every request has its line, is being looked up, or was dropped
\* (handle_m3u8_request).
THEOREM RequestsAccounted == Spec => []OneLineEach
BY Invariance, PTL DEF IInv

\* No path of handle_m3u8_request keeps a URL or the line made of it.
THEOREM StringsCorrect == Spec => []StringsFreed
BY Invariance, StringsFromInHand, PTL

\* serve_m3u8 is a serial server, whatever a session does.
THEOREM M3u8Serial == Spec => SerialService
<1>1. Init => NetInv /\ Serial!Init
  BY NetInitInv, SerialInit DEF Init
<1>2. NetInv /\ [Next]_vars => NetInv'
  BY ListenerStep, NetStepInv
<1>3. NetInv /\ [Next]_vars => [Serial!Next]_(Serial!svars)
  BY ListenerStep, SerialStep
<1> QED
  BY <1>1, <1>2, <1>3, PTL DEF Spec, SerialService, Serial!Spec
=============================================================================
