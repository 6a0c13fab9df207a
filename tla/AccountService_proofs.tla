------------------------ MODULE AccountService_proofs ------------------------
(***************************************************************************)
(* Proofs about the account service, for any clients, backlog, buffer size *)
(* and lengths of header and body.                                         *)
(***************************************************************************)
EXTENDS AccountService, Listener_proofs

(***************************************************************************)
(* How far the request and its response are at each place of the thread.   *)
(***************************************************************************)
Unanswered == status = None /\ header = 0 /\ body = 0 /\ cut = {}

Progress ==
  /\ pc \in {"read"} \cup Making => Unanswered
  /\ pc \in {"header", "body"} \cup Making => total > 0
  /\ pc \in Making \ {"judge"} => root
  /\ pc \in {"header", "body"} => status # None
  /\ pc = "header" => body = 0 /\ "header" \notin cut
  /\ pc = "body" => status = "200" /\ (header = HeaderLen \/ "header" \in cut)
  /\ status = "200" => root

\* The part of the invariant that does not speak of the heap, and the part
\* that does: before the first allocation every pointer is unset.
Talk ==
  /\ NetTypeOK
  /\ pc \in PCs
  /\ total \in 0..BufferSize
  /\ root \in BOOLEAN
  /\ status \in Statuses \cup {None}
  /\ header \in 0..HeaderLen /\ body \in 0..BodyLen
  /\ cut \subseteq {"header", "body"}
  /\ Progress /\ DataOnlyForRoot /\ WholeResponse

Early == {"read", "judge", "escape"}

HeapOK ==
  /\ heap \in [Blocks -> Fates]
  /\ HeapAccounted
  /\ pc \in Early => heap = NoBlocks

IInv == Talk /\ HeapOK

USE AccountAssumption, NoneIsNoStatus, ListenerAssumption

LEMMA ListenerStep ==
  ASSUME [Next]_vars
  PROVE  NetStep
BY DEF NetStep, Next, vars, ServerStep, Fault, Accept, AcceptFails, Close, ReadSome,
       ReadEnds, ReadFails, Judge, Escape, MakeBody, MakeResponse,
       Refuse, WriteHeader, HeaderGivesUp, WriteBody, BodyGivesUp,
       WriteKilled, OtherThread, EndedElsewhere

LEMMA InitIInv == Init => IInv
<1> SUFFICES ASSUME Init PROVE IInv
  OBVIOUS
<1>1. NetTypeOK
  BY DEF Init, NetInit, NetTypeOK, PeerStates
<1>2. root \in BOOLEAN
  BY DEF Init
<1>3. Talk
  BY <1>1, <1>2 DEF Init, Talk, PCs, Statuses, Progress, Unanswered, Making,
                    DataOnlyForRoot, WholeResponse
<1>4. pc = "accept" /\ heap = NoBlocks
  BY DEF Init
<1>5. InUse = {}
  BY <1>4 DEF InUse
<1>6. HeapOK
  BY <1>4, <1>5 DEF HeapOK, NoBlocks, Fates, HeapAccounted
<1> QED
  BY <1>3, <1>6 DEF IInv

(***************************************************************************)
(* The heap.                                                               *)
(***************************************************************************)

\* free of pointers that were not freed yet: none of them is live afterwards,
\* the others are as they were.
LEMMA FreeOnce ==
  ASSUME NEW h \in [Blocks -> Fates], NEW list \in SUBSET Blocks,
         \A b \in Blocks : h[b] # "twice",
         \A b \in list : h[b] # "freed"
  PROVE  /\ Free(list, h) \in [Blocks -> Fates]
         /\ \A b \in Blocks : Free(list, h)[b] # "twice"
         /\ {b \in Blocks : Free(list, h)[b] = "live"} = {b \in Blocks : h[b] = "live"} \ list
<1>1. \A b \in list : AfterFree(h[b]) \in {"null", "freed"}
  BY DEF AfterFree, Fates
<1> QED
  BY <1>1 DEF Free, Fates

\* A step that leaves the heap alone and the same blocks to be used.
LEMMA HeapKept ==
  ASSUME HeapOK, heap' = heap, InUse' = InUse, pc' \in Early => pc \in Early
  PROVE  HeapOK'
BY DEF HeapOK, HeapAccounted

\* A way out on which every live block is on the list of frees.
LEMMA HeapFreed ==
  ASSUME NEW h \in [Blocks -> Fates], NEW list \in SUBSET Blocks,
         \A b \in Blocks : h[b] # "twice",
         \A b \in list : h[b] # "freed",
         {b \in Blocks : h[b] = "live"} \ list = InUse',
         heap' = Free(list, h), pc' \notin Early
  PROVE  HeapOK'
BY FreeOnce DEF HeapOK, HeapAccounted

\* The lists of frees.
LEMMA Lists ==
  /\ FreedAfter("not escaped") = Escaped /\ FreedAfter("body made") = Escaped
  /\ FreedAfter("no format") = Escaped /\ FreedAfter("no body") = Escaped
  /\ FreedAfter("no length") = {"json_body"} /\ FreedAfter("no header") = {"json_body"}
  /\ FreedAfter("served") = {"http_response", "json_body"}
BY DEF FreedAfter

\* What malloc returns is live, the rest as it was.
LEMMA MallocLive ==
  ASSUME NEW made \in SUBSET Blocks, HeapOK
  PROVE  /\ Malloc(made) \in [Blocks -> Fates]
         /\ \A b \in Blocks : Malloc(made)[b] = IF b \in made THEN "live" ELSE heap[b]
         /\ \A b \in Blocks : Malloc(made)[b] # "twice"
         /\ {b \in Blocks : Malloc(made)[b] = "live"} = InUse \cup made
<1>1. heap \in [Blocks -> Fates] /\ HeapAccounted
  BY DEF HeapOK
<1>2. \A b \in Blocks : Malloc(made)[b] = IF b \in made THEN "live" ELSE heap[b]
  BY DEF Malloc
<1>3. Malloc(made) \in [Blocks -> Fates]
  BY <1>1 DEF Malloc, Fates
<1>4. InUse \subseteq Blocks
  BY DEF InUse, Blocks, Escaped
<1> QED
  BY <1>1, <1>2, <1>3, <1>4 DEF HeapAccounted

\* A block that is still to be used is live.
LEMMA UsedLive ==
  ASSUME HeapOK
  PROVE  /\ heap \in [Blocks -> Fates]
         /\ \A b \in Blocks : heap[b] # "twice"
         /\ {b \in Blocks : heap[b] = "live"} = InUse
         /\ \A b \in InUse : heap[b] = "live"
<1>1. InUse \subseteq Blocks
  BY DEF InUse, Blocks, Escaped
<1> QED
  BY <1>1 DEF HeapOK, HeapAccounted

LEMMA MakingHeap ==
  ASSUME IInv, Judge \/ Escape \/ MakeBody \/ MakeResponse
  PROVE  HeapOK'
<1> USE DEF InUse, Early
<1>0. HeapOK
  BY DEF IInv
<1>1. CASE Judge
  BY <1>0, <1>1, HeapKept DEF Judge
<1>2. CASE Escape
  <2>1. pc = "escape" /\ heap = NoBlocks
    BY <1>0, <1>2 DEF Escape, HeapOK
  <2>2. PICK made \in SUBSET Escaped :
          IF made = Escaped
          THEN heap' = Malloc(made) /\ pc' = "json" /\ UNCHANGED status
          ELSE Refuse("not escaped", Malloc(made))
    BY <1>2 DEF Escape
  <2>3. made \in SUBSET Blocks
    BY DEF Blocks
  <2>4. /\ Malloc(made) \in [Blocks -> Fates]
        /\ \A b \in Blocks : Malloc(made)[b] # "twice"
        /\ {b \in Blocks : Malloc(made)[b] = "live"} = made
        /\ \A b \in Blocks : Malloc(made)[b] # "freed"
    <3>1. InUse = {}
      BY <2>1
    <3>2. \A b \in Blocks : Malloc(made)[b] # "freed"
      BY <1>0, <2>1, <2>3, MallocLive DEF NoBlocks
    <3> QED
      BY <1>0, <2>3, <3>1, <3>2, MallocLive
  <2>5. CASE made = Escaped
    <3>1. heap' = Malloc(made) /\ pc' = "json"
      BY <2>2, <2>5
    <3>2. InUse' = Escaped
      BY <3>1
    <3> QED
      BY <2>4, <2>5, <3>1, <3>2 DEF HeapOK, HeapAccounted
  <2>6. CASE made # Escaped
    <3>1. heap' = Free(Escaped, Malloc(made)) /\ pc' = "header" /\ status' = "500"
      BY <2>2, <2>6, Lists DEF Refuse
    <3>2. InUse' = {}
      BY <3>1
    <3> QED
      BY <2>4, <3>1, <3>2, HeapFreed DEF Blocks
  <2> QED
    BY <2>5, <2>6
<1>3. CASE MakeBody
  <2>1. pc = "json" /\ InUse = Escaped
    BY <1>3 DEF MakeBody
  <2>2. CASE heap' = Free(FreedAfter("body made"), Malloc({"json_body"})) /\ pc' = "response"
    <3>1. /\ Malloc({"json_body"}) \in [Blocks -> Fates]
          /\ \A b \in Blocks : Malloc({"json_body"})[b] # "twice"
          /\ {b \in Blocks : Malloc({"json_body"})[b] = "live"} = Escaped \cup {"json_body"}
      BY <1>0, <2>1, MallocLive DEF Blocks
    <3>2. InUse' = {"json_body"}
      BY <2>2
    <3>3. (Escaped \cup {"json_body"}) \ Escaped = {"json_body"}
      BY DEF Escaped
    <3>4. heap' = Free(Escaped, Malloc({"json_body"})) /\ pc' \notin {"read", "judge", "escape"}
      BY <2>2, Lists
    <3>5. Escaped \in SUBSET Blocks /\ \A b \in Escaped : Malloc({"json_body"})[b] # "freed"
      <4>1. Escaped \subseteq Blocks
        BY DEF Blocks
      <4>2. \A b \in Escaped : Malloc({"json_body"})[b] = "live"
        BY <3>1, <4>1
      <4> QED
        BY <4>1, <4>2
    <3> HIDE DEF InUse
    <3>6. {b \in Blocks : Malloc({"json_body"})[b] = "live"} \ Escaped = InUse'
      BY <3>1, <3>2, <3>3
    <3> QED
      BY <3>1, <3>4, <3>5, <3>6, HeapFreed
  <2>3. CASE heap' = Free(Escaped, heap) /\ pc' = "header" /\ status' = "500"
    <3>1. InUse' = {}
      BY <2>3
    <3> QED
      BY <1>0, <2>1, <2>3, <3>1, UsedLive, HeapFreed DEF Blocks
  <2> QED
    BY <1>3, <2>2, <2>3, Lists DEF MakeBody, Refuse
<1>4. CASE MakeResponse
  <2>1. pc = "response" /\ InUse = {"json_body"}
    BY <1>4 DEF MakeResponse
  <2>2. CASE heap' = Malloc({"http_response"}) /\ status' = "200" /\ pc' = "header"
    <3>1. InUse' = {"json_body", "http_response"}
      BY <2>2
    <3>2. InUse \cup {"http_response"} = InUse'
      BY <2>1, <3>1
    <3> QED
      BY <1>0, <2>2, <3>2, MallocLive DEF Blocks, HeapOK, HeapAccounted
  <2>3. CASE heap' = Free({"json_body"}, heap) /\ pc' = "header" /\ status' = "500"
    <3>1. InUse' = {}
      BY <2>3
    <3> QED
      BY <1>0, <2>1, <2>3, <3>1, UsedLive, HeapFreed DEF Blocks
  <2> QED
    BY <1>4, <2>2, <2>3, Lists DEF MakeResponse, Refuse
<1> QED
  BY <1>1, <1>2, <1>3, <1>4

\* The two blocks of an answer are freed once both parts were dealt with.
LEMMA WritingHeap ==
  ASSUME IInv, WriteHeader \/ HeaderGivesUp \/ WriteBody \/ BodyGivesUp
  PROVE  HeapOK'
<1>0. HeapOK /\ (pc = "body" => status = "200")
  BY DEF IInv, Talk, Progress
<1>1. CASE WriteHeader \/ HeaderGivesUp
  <2>1. pc = "header" /\ heap' = heap /\ status' = status /\ pc' \in {"header", AfterHeader}
    BY <1>1 DEF WriteHeader, HeaderGivesUp
  <2>2. InUse' = InUse
    BY <2>1 DEF InUse, AfterHeader
  <2> QED
    BY <1>0, <2>1, <2>2, HeapKept DEF AfterHeader, Early
<1>2. CASE WriteBody \/ BodyGivesUp
  <2>1. pc = "body" /\ status' = status
    BY <1>2 DEF WriteBody, BodyGivesUp
  <2>2. InUse = {"json_body", "http_response"}
    BY <1>0, <2>1 DEF InUse
  <2>3. \/ pc' = pc /\ heap' = heap
        \/ pc' = "close" /\ heap' = Free(FreedAfter("served"), heap)
    BY <1>2 DEF WriteBody, BodyGivesUp
  <2>4. CASE pc' = pc /\ heap' = heap
    BY <1>0, <2>1, <2>4, HeapKept DEF InUse
  <2>5. CASE pc' = "close" /\ heap' = Free(FreedAfter("served"), heap)
    <3>1. InUse' = {}
      BY <2>5 DEF InUse
    <3> QED
      BY <1>0, <2>2, <2>5, <3>1, Lists, UsedLive, HeapFreed DEF Blocks, Early
  <2> QED
    BY <2>3, <2>4, <2>5
<1> QED
  BY <1>1, <1>2

(***************************************************************************)
(* The steps.                                                              *)
(***************************************************************************)

\* Reading the request: nothing is answered yet and nothing allocated.
LEMMA ReadingIInv ==
  ASSUME IInv, NetTypeOK', Accept \/ Close \/ ReadSome \/ ReadEnds \/ ReadFails
  PROVE  IInv'
<1> USE DEF Talk, PCs, Progress, Unanswered, DataOnlyForRoot, WholeResponse, Statuses,
            Making
<1>0. Talk /\ HeapOK
  BY DEF IInv
<1>1. CASE Accept
  <2>1. root' \in BOOLEAN
    BY <1>1 DEF Accept
  <2>2. /\ pc' = "read" /\ total' = 0 /\ heap' = NoBlocks
        /\ status' = None /\ header' = 0 /\ body' = 0 /\ cut' = {}
    BY <1>1 DEF Accept
  <2>3. InUse' = {}
    BY <2>2 DEF InUse
  <2>4. HeapOK'
    BY <2>2, <2>3 DEF HeapOK, NoBlocks, Fates, HeapAccounted
  <2>5. Talk'
    BY <2>1, <2>2
  <2> QED
    BY <2>4, <2>5 DEF IInv
<1>2. CASE Close \/ ReadEnds \/ ReadFails
  <2>1. Talk'
    BY <1>0, <1>2 DEF Close, ReadEnds, ReadFails, requestVars
  <2>2. heap' = heap /\ InUse' = InUse /\ (pc' \in Early => pc \in Early)
    BY <1>2 DEF Close, ReadEnds, ReadFails, requestVars, InUse, Early
  <2> QED
    BY <1>0, <2>1, <2>2, HeapKept DEF IInv
<1>3. CASE ReadSome
  <2>1. PICK n \in 1..(BufferSize - total) : total' = total + n
    BY <1>3 DEF ReadSome
  <2>2. total' \in 1..BufferSize
    BY <1>0, <2>1
  <2>3. pc = "read" /\ pc' \in {"read", "judge"}
    BY <1>3 DEF ReadSome
  <2>4. UNCHANGED <<status, header, body, cut, heap>>
    BY <1>3 DEF ReadSome
  <2>5. root' \in BOOLEAN
    BY <1>0, <1>3 DEF ReadSome
  <2>6. Talk'
    BY <1>0, <2>2, <2>3, <2>4, <2>5
  <2>7. InUse' = InUse
    BY <2>3 DEF InUse
  <2> QED
    BY <1>0, <2>3, <2>4, <2>6, <2>7, HeapKept DEF IInv, Early
<1> QED
  BY <1>1, <1>2, <1>3

\* Making the answer: each way out leaves what its status says.
LEMMA MakingIInv ==
  ASSUME IInv, NetTypeOK', Judge \/ Escape \/ MakeBody \/ MakeResponse
  PROVE  IInv'
<1> SUFFICES Talk'
  BY MakingHeap DEF IInv
<1> USE DEF Talk, PCs, Progress, Unanswered, DataOnlyForRoot, WholeResponse, Statuses,
            Making
<1>0. Talk
  BY DEF IInv
<1>1. CASE Judge
  <2>1. /\ pc = "judge" /\ UNCHANGED <<netVars, total, root, header, body, cut>>
        /\ \/ root /\ pc' = "escape" /\ status' = status
           \/ pc' = "header" /\ status' = "400"
    BY <1>1 DEF Judge, Allowed
  <2>2. root' = root /\ total' = total /\ header' = header /\ body' = body /\ cut' = cut
    BY <2>1
  <2>3. CASE pc' = "header" /\ status' = "400"
    BY <1>0, <2>1, <2>2, <2>3
  <2>4. CASE root /\ pc' = "escape" /\ status' = status
    BY <1>0, <2>1, <2>2, <2>4
  <2> QED
    BY <2>1, <2>3, <2>4
<1>2. CASE Escape
  <2>1. \/ pc' = "json" /\ status' = status
        \/ pc' = "header" /\ status' = "500"
    BY <1>2 DEF Escape, Refuse
  <2> QED
    BY <1>0, <1>2, <2>1 DEF Escape
<1>3. CASE MakeBody
  BY <1>0, <1>3 DEF MakeBody, Refuse
<1>4. CASE MakeResponse
  BY <1>0, <1>4 DEF MakeResponse, Refuse
<1> QED
  BY <1>1, <1>2, <1>3, <1>4

\* Writing it.
LEMMA WritingIInv ==
  ASSUME IInv, NetTypeOK', WriteHeader \/ HeaderGivesUp \/ WriteBody \/ BodyGivesUp
  PROVE  IInv'
<1> SUFFICES Talk'
  BY WritingHeap DEF IInv
<1> USE DEF Talk, PCs, Progress, Unanswered, DataOnlyForRoot, WholeResponse, Statuses,
            Making
<1>0. Talk
  BY DEF IInv
<1>1. CASE WriteHeader
  <2>1. PICK k \in 1..(HeaderLen - header) : header' = header + k
    BY <1>1 DEF WriteHeader
  <2>2. header' \in 1..HeaderLen
    BY <1>0, <2>1
  <2>3. pc = "header" /\ pc' = IF header' = HeaderLen THEN AfterHeader ELSE "header"
    BY <1>1 DEF WriteHeader, AllWritten
  <2>4. UNCHANGED <<total, root, status, body, cut>>
    BY <1>1 DEF WriteHeader
  <2> QED
    BY <1>0, <2>2, <2>3, <2>4 DEF AfterHeader
<1>2. CASE HeaderGivesUp
  BY <1>0, <1>2 DEF HeaderGivesUp, AfterHeader
<1>3. CASE WriteBody
  <2>1. PICK k \in 1..(BodyLen - body) : body' = body + k
    BY <1>3 DEF WriteBody
  <2>2. body' \in 1..BodyLen
    BY <1>0, <2>1
  <2>3. pc = "body" /\ pc' = IF body' = BodyLen THEN "close" ELSE pc
    BY <1>3 DEF WriteBody, AllWritten
  <2>4. UNCHANGED <<total, root, status, header, cut>>
    BY <1>3 DEF WriteBody
  <2> QED
    BY <1>0, <2>2, <2>3, <2>4
<1>4. CASE BodyGivesUp
  BY <1>0, <1>4 DEF BodyGivesUp
<1> QED
  BY <1>1, <1>2, <1>3, <1>4

\* The rest moves the thread out of the way or changes only the listener.
LEMMA OtherIInv ==
  ASSUME IInv, NetTypeOK', UNCHANGED requestVars, pc' \in {pc, "returned"},
         pc' = "returned" => pc \in {"accept", "returned"}
  PROVE  IInv'
<1>1. Talk'
  BY DEF IInv, Talk, PCs, Progress, Unanswered, DataOnlyForRoot, WholeResponse, Statuses,
         Making, requestVars
<1>2. heap' = heap /\ InUse' = InUse /\ (pc' \in Early => pc \in Early)
  BY DEF requestVars, InUse, Early
<1> QED
  BY <1>1, <1>2, HeapKept DEF IInv

LEMMA NextIInv == IInv /\ [Next]_vars => IInv'
<1> SUFFICES ASSUME IInv, [Next]_vars PROVE IInv'
  OBVIOUS
<1>1. NetTypeOK'
  BY ListenerStep, NetType DEF IInv, Talk
<1>2. CASE Accept \/ Close \/ ReadSome \/ ReadEnds \/ ReadFails
  BY <1>1, <1>2, ReadingIInv
<1>3. CASE Judge \/ Escape \/ MakeBody \/ MakeResponse
  BY <1>1, <1>3, MakingIInv
<1>4. CASE WriteHeader \/ HeaderGivesUp \/ WriteBody \/ BodyGivesUp
  BY <1>1, <1>4, WritingIInv
<1>5. CASE Fault \/ (PeerStep /\ UNCHANGED <<pc, requestVars>>) \/ UNCHANGED vars
  <2>1. UNCHANGED requestVars /\ (pc' = pc \/ (pc = "accept" /\ pc' = "returned"))
    BY <1>5 DEF Fault, AcceptFails, WriteKilled, OtherThread, vars
  <2> QED
    BY <1>1, <2>1, OtherIInv
<1> QED
  BY <1>2, <1>3, <1>4, <1>5 DEF Next, ServerStep

-----------------------------------------------------------------------------
(* The theorems. *)

\* The inductive invariant holds in every reachable state.
THEOREM Invariance == Spec => []IInv
BY InitIInv, NextIInv, PTL DEF Spec

\* Every variable of the account service keeps to its type
\* (handle_account_request, serve_account).
THEOREM TypeCorrect == Spec => []TypeOK
<1>1. IInv => TypeOK
  BY DEF IInv, Talk, HeapOK, TypeOK
<1> QED
  BY <1>1, Invariance, PTL

\* The account data goes only to a request for "/", and after its header
\* (handle_account_request).
THEOREM DataGuarded == Spec => []DataOnlyForRoot
<1>1. IInv => DataOnlyForRoot
  BY DEF IInv, Talk
<1> QED
  BY <1>1, Invariance, PTL

\* A served client was sent a whole response unless write_full gave up
\* (handle_account_request, write_full).
THEOREM ResponseWhole == Spec => []WholeResponse
<1>1. IInv => WholeResponse
  BY DEF IInv, Talk
<1> QED
  BY <1>1, Invariance, PTL

\* Each list of frees of handle_account_request holds what is live on its way
\* out, once: nothing leaks, is freed twice or is used after its free.
THEOREM HeapCorrect == Spec => []HeapAccounted
<1>1. IInv => HeapAccounted
  BY DEF IInv, HeapOK
<1> QED
  BY <1>1, Invariance, PTL

\* serve_account is a serial server, whatever the request is.
THEOREM AccountSerial == Spec => SerialService
<1>1. Init => NetInv /\ Serial!Init
  BY NetInitInv, SerialInit DEF Init
<1>2. NetInv /\ [Next]_vars => NetInv'
  BY ListenerStep, NetStepInv
<1>3. NetInv /\ [Next]_vars => [Serial!Next]_(Serial!svars)
  BY ListenerStep, SerialStep
<1> QED
  BY <1>1, <1>2, <1>3, PTL DEF Spec, SerialService, Serial!Spec
=============================================================================
