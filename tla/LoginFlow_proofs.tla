--------------------------- MODULE LoginFlow_proofs ---------------------------
(***************************************************************************)
(* Proofs about a login, for any number of logins, requests, polls and     *)
(* submitted codes.                                                        *)
(***************************************************************************)
EXTENDS LoginFlow, TLAPS

\* The password file needs no more than itself to be invariant.
LEMMA PasswordStep ==
  ASSUME PasswordFileShortLived, [Next]_vars
  PROVE  PasswordFileShortLived'
<1> USE DEF PasswordFileShortLived
<1>1. CASE StartLogin
  BY <1>1 DEF StartLogin, FreshProcess
<1>2. CASE StartByHand
  BY <1>2 DEF StartByHand, FreshProcess
<1>3. CASE EndLogin
  BY <1>3 DEF EndLogin, AfterRun
<1>4. CASE KillScript
  BY <1>4 DEF KillScript
<1>5. CASE Load
  BY <1>5 DEF Load, RemovePasswordFile, PasswordFilesAfterLoad, ByProcess, hostVars
<1>6. CASE LoadFails
  BY <1>6 DEF LoadFails, RemovePasswordFile, PasswordFilesAfterLoad, ByProcess, hostVars
<1>7. CASE \/ TruncateFile \/ WriteCode \/ FlowEnds \/ Request \/ ReadCode \/ PollAgain
           \/ PollsExhausted \/ RemoveCode \/ TypeCode \/ Answer \/ Stopped
           \/ UNCHANGED vars
  <2>1. UNCHANGED <<hostVars, pwfiles, loaded, unremoved>>
    BY <1>7 DEF TruncateFile, WriteCode, FlowEnds, Request, ReadCode, PollAgain,
                PollsExhausted, RemoveCode, TypeCode, Answer, Stopped, ByProcess,
                processVars, failVars, vars
  <2> QED
    BY <2>1 DEF hostVars
<1> QED
  BY <1>1, <1>2, <1>3, <1>4, <1>5, <1>6, <1>7 DEF Next, Host, Process, Runs

\* The password is in the data directory only while cmd_login runs and until the
\* first credential request; what is there longer is there because a removal
\* failed or the script was killed (cmd_login, ensure_login_password_loaded).
THEOREM PasswordCorrect == Spec => []PasswordFileShortLived
<1>1. Init => PasswordFileShortLived
  BY DEF Init, PasswordFileShortLived
<1>2. PasswordFileShortLived /\ [Next]_vars => PasswordFileShortLived'
  BY PasswordStep
<1> QED
  BY <1>1, <1>2, PTL DEF Spec

-----------------------------------------------------------------------------
(* The codes. *)

USE LoginAssumption

LEMMA AppendElement ==
  ASSUME NEW S, NEW s \in Seq(S), NEW e \in S
  PROVE  /\ Append(s, e) \in Seq(S)
         /\ Len(Append(s, e)) = Len(s) + 1
         /\ \A j \in 1..Len(s) : Append(s, e)[j] = s[j]
         /\ Append(s, e)[Len(s) + 1] = e
OBVIOUS

(***************************************************************************)
(* Codes are numbered as they are submitted, so one that comes later is    *)
(* none of those behind the password.  The one in the file is one of them  *)
(* only between its being read and the removal of the file, or if that     *)
(* removal failed.                                                         *)
(***************************************************************************)
Numbered ==
  /\ \A i \in 1..Len(tail) : tail[i] =< submits
  /\ file \in Codes => file.n =< submits
  /\ file \in Codes /\ InRange(tail, file.n) =>
       \/ file.n \in kept
       \/ pc = "read" /\ file.n = tail[Len(tail)]
       \/ pc \in {"off", "in"} \cup Ends

\* The code in hand is in no earlier response, or could not be removed.
FreshCode ==
  /\ tail # <<>>
  /\ \A j \in 1..Len(sent) :
       InRange(sent[j].tail, tail[Len(tail)]) => tail[Len(tail)] \in kept

(***************************************************************************)
(* What was sent is behind the password still, and whoever waited for a    *)
(* code has a fresh one when the response is put together.                 *)
(***************************************************************************)
InOrder ==
  /\ \A j \in 1..Len(sent) : \A i \in 1..Len(sent[j].tail) :
       InRange(tail, sent[j].tail[i])
  /\ pc \in {"wait", "read"} => needs
  /\ pc = "read" \/ (pc = "answer" /\ needs) => FreshCode

IInv == TypeOK /\ Numbered /\ InOrder /\ CodeUsedOnce /\ AnswersCarryCode

LEMMA InitIInv == Init => IInv
<1> SUFFICES ASSUME Init PROVE IInv
  OBVIOUS
<1>1. TypeOK
  <2>1. fromFile \in BOOLEAN /\ loaded \in BOOLEAN /\ needs \in BOOLEAN
    BY DEF Init
  <2>2. pc \in PCs /\ before \in 0..submits /\ tail \in Seq(Nat) /\ sent \in Seq(Responses) /\ count \in 0..MaxPolls
    BY DEF Init, PCs
  <2> QED
    BY <2>1, <2>2 DEF Init, TypeOK
<1>2. Len(tail) = 0 /\ Len(sent) = 0 /\ pc = "off" /\ file \notin Codes
  BY DEF Init
<1>3. Numbered /\ InOrder /\ CodeUsedOnce /\ AnswersCarryCode
  BY <1>2 DEF Numbered, InOrder, CodeUsedOnce, AnswersCarryCode, InRange
<1> QED
  BY <1>1, <1>3 DEF IInv

\* Every step keeps the types.
LEMMA NextType ==
  ASSUME TypeOK, pc = "read" => tail # <<>>, [Next]_vars
  PROVE  TypeOK'
<1> USE DEF TypeOK, PCs, Ends, ByProcess
<1>1. CASE StartLogin \/ StartByHand
  <2>1. /\ logins' \in Nat /\ pc' \in PCs /\ tail' = <<>> /\ sent' = <<>> /\ before' = submits
        /\ count' = 0 /\ UNCHANGED <<orphans, failVars, file, submits>>
    BY <1>1 DEF StartLogin, StartByHand, FreshProcess
  <2>2. fromFile' \in BOOLEAN
    BY <1>1 DEF StartLogin, StartByHand
  <2>3. loaded' \in BOOLEAN
    BY <1>1 DEF StartLogin, StartByHand, FreshProcess
  <2>4. needs' \in BOOLEAN
    BY <1>1 DEF StartLogin, StartByHand, FreshProcess
  <2>5. script' \in {"idle", "running", "killed"} /\ pwfiles' \subseteq Nat
    BY <1>1, <2>1 DEF StartLogin, StartByHand
  <2> QED
    BY <2>1, <2>2, <2>3, <2>4, <2>5 DEF failVars
<1>2. CASE EndLogin \/ KillScript \/ TruncateFile
  BY <1>2 DEF EndLogin, AfterRun, KillScript, TruncateFile, hostVars, failVars, processVars,
              requestVars
<1>3. CASE WriteCode
  <2>1. file' \in Codes /\ submits' \in Nat /\ submits' = submits + 1
    BY <1>3 DEF WriteCode, Codes
  <2>2. UNCHANGED <<hostVars, pwfiles, before, failVars, processVars>>
    BY <1>3 DEF WriteCode
  <2> QED
    BY <2>1, <2>2 DEF hostVars, failVars, processVars, requestVars
<1>4. CASE FlowEnds \/ PollsExhausted \/ Stopped
  BY <1>4 DEF FlowEnds, PollsExhausted, Stopped, Exit, hostVars, failVars, requestVars
<1>5. CASE Request
  <2>1. needs' \in BOOLEAN
    BY <1>5 DEF Request
  <2> QED
    BY <1>5, <2>1 DEF Request, hostVars, failVars
<1>6. CASE Load \/ LoadFails
  <2>1. loaded' \in BOOLEAN
    BY <1>6 DEF Load, LoadFails
  <2>2. pc' \in {"wait", "answer", "exited"} /\ count' \in {0, count}
    BY <1>6, Zenon DEF Load, LoadFails, Exit, requestVars
  <2>3. pc' \in PCs /\ count' \in 0..MaxPolls
    BY <2>2
  <2>4. pwfiles' \subseteq Nat /\ unremoved' \subseteq Nat
    BY <1>6 DEF Load, LoadFails, RemovePasswordFile, PasswordFilesAfterLoad
  <2>5. UNCHANGED <<hostVars, before, kept, file, submits, fromFile, tail, needs, sent>>
    BY <1>6 DEF Load, LoadFails, requestVars
  <2> QED
    BY <2>1, <2>3, <2>4, <2>5 DEF hostVars
<1>7. CASE ReadCode
  <2>1. file \in Codes /\ tail' = Append(tail, file.n)
    BY <1>7 DEF ReadCode, HoldsCode
  <2>2. file.n \in Nat /\ tail \in Seq(Nat)
    BY <2>1 DEF Codes
  <2>3. Append(tail, file.n) \in Seq(Nat)
    BY <2>2, AppendElement, Zenon
  <2>4. tail' \in Seq(Nat)
    BY <2>1, <2>3
  <2> QED
    BY <1>7, <2>4 DEF ReadCode, hostVars, failVars, requestVars
<1>8. CASE PollAgain
  <2>1. count' \in 0..MaxPolls /\ pc' = "wait"
    BY <1>8 DEF PollAgain, PollsLeft, Tick, AfterPoll
  <2>2. UNCHANGED <<hostVars, before, fromFile, pwfiles, failVars, file, submits, loaded, tail, needs, sent>>
    BY <1>8 DEF PollAgain, FileAfterPoll
  <2> QED
    BY <2>1, <2>2 DEF hostVars, failVars
<1>9. CASE RemoveCode
  <2>1. Len(tail) \in 1..Len(tail)
    BY <1>9 DEF RemoveCode
  <2>2. tail[Len(tail)] \in Nat
    BY <2>1
  <2>3. kept' \subseteq Nat /\ file' \in Codes \cup {Absent, Empty}
    BY <1>9, <2>2 DEF RemoveCode, AfterRemove
  <2> QED
    BY <1>9, <2>3 DEF RemoveCode, hostVars, requestVars
<1>10. CASE TypeCode
  <2>1. \/ submits' = submits + 1 /\ tail' = Append(tail, submits') /\ pc' = "answer"
        \/ submits' = submits /\ tail' = tail /\ pc' = "exited"
    BY <1>10, Zenon DEF TypeCode, Exit
  <2>2. submits' \in Nat /\ before \in 0..submits' /\ pc' \in {"answer", "exited"}
    BY <2>1
  <2>3. tail' \in Seq(Nat)
    <3>1. tail \in Seq(Nat)
      OBVIOUS
    <3>2. submits' \in Nat => Append(tail, submits') \in Seq(Nat)
      BY <3>1, AppendElement, Zenon
    <3> QED
      BY <2>1, <2>2, <3>1, <3>2, Zenon
  <2>4. UNCHANGED <<hostVars, before, pwfiles, failVars, file, fromFile, loaded, requestVars, sent>>
    BY <1>10 DEF TypeCode
  <2> QED
    BY <2>2, <2>3, <2>4 DEF hostVars, failVars, requestVars
<1>11. CASE Answer
  <2>1. [needs |-> needs, tail |-> tail] \in Responses
    BY DEF Responses
  <2>2. sent' \in Seq(Responses)
    BY <1>11, <2>1 DEF Answer
  <2> QED
    BY <1>11, <2>2 DEF Answer, hostVars, failVars, requestVars
<1>12. CASE UNCHANGED vars
  BY <1>12 DEF vars, hostVars, failVars, processVars, requestVars
<1> QED
  BY <1>1, <1>2, <1>3, <1>4, <1>5, <1>6, <1>7, <1>8, <1>9, <1>10, <1>11, <1>12
     DEF Next, Host, Process, Runs

\* A process that starts has no code and has sent nothing.
LEMMA StartCodes ==
  ASSUME IInv, TypeOK', StartLogin \/ StartByHand
  PROVE  IInv'
<1>1. /\ pc' = "flow" /\ tail' = <<>> /\ sent' = <<>>
      /\ UNCHANGED <<file, submits>>
  BY DEF StartLogin, StartByHand, FreshProcess
<1>2. Len(tail') = 0 /\ Len(sent') = 0
  BY <1>1
<1>3. file' \in Codes => file'.n =< submits'
  BY <1>1 DEF IInv, Numbered
<1>4. Numbered' /\ InOrder' /\ CodeUsedOnce' /\ AnswersCarryCode'
  BY <1>1, <1>2, <1>3 DEF Numbered, InOrder, CodeUsedOnce, AnswersCarryCode, InRange
<1> QED
  BY <1>4 DEF IInv

\* Where no code is looked for.
Closed == {"off", "in"} \cup Ends

\* Where neither the codes behind the password nor the responses change.
LEMMA QuietCodes ==
  ASSUME IInv, TypeOK', UNCHANGED <<tail, sent>>, kept \subseteq kept',
         submits' = submits \/ submits' = submits + 1,
         \/ file' \notin Codes
         \/ /\ file' = file
            /\ pc \in Closed => pc' \in Closed
            /\ pc = "read" => pc' \in {"read"} \cup Closed \/ tail[Len(tail)] \in kept'
         \/ file' \in Codes /\ file'.n = submits + 1 /\ submits' = submits + 1,
         pc' \in {"wait", "read"} => needs',
         pc' = "read" => pc = "read",
         pc' = "answer" /\ needs' => pc = "read" \/ (pc = "answer" /\ needs)
  PROVE  IInv'
<1> USE DEF Closed, Ends
<1>1. submits \in Nat /\ tail \in Seq(Nat) /\ Len(tail) \in Nat
  BY DEF IInv, TypeOK
<1>2. \A i \in 1..Len(tail) : tail[i] \in Nat /\ tail[i] =< submits
  BY <1>1 DEF IInv, Numbered
<1>3. file' \in Codes => file'.n =< submits'
  BY <1>1 DEF IInv, Numbered, Codes
<1>4. ASSUME file' \in Codes, InRange(tail', file'.n)
      PROVE  \/ file'.n \in kept'
             \/ pc' = "read" /\ file'.n = tail'[Len(tail')]
             \/ pc' \in Closed
  <2>1. CASE /\ file' = file
             /\ pc \in Closed => pc' \in Closed
             /\ pc = "read" => pc' \in {"read"} \cup Closed \/ tail[Len(tail)] \in kept'
    BY <1>4, <2>1 DEF IInv, Numbered, InRange
  <2>2. CASE file' \in Codes /\ file'.n = submits + 1
    BY <1>1, <1>2, <1>4, <2>2 DEF InRange
  <2> QED
    BY <1>4, <2>1, <2>2
<1>5. Numbered'
  BY <1>1, <1>2, <1>3, <1>4 DEF Numbered
<1>6. FreshCode => FreshCode'
  BY DEF FreshCode, InRange
<1>7. InOrder'
  BY <1>6 DEF IInv, InOrder, InRange
<1>8. CodeUsedOnce'
  BY <1>4 DEF IInv, CodeUsedOnce
<1>9. AnswersCarryCode'
  BY DEF IInv, AnswersCarryCode, InRange
<1> QED
  BY <1>5, <1>7, <1>8, <1>9 DEF IInv

\* A code joins those behind the password: none of them, unless it was kept.
LEMMA NewCode ==
  ASSUME IInv, TypeOK', NEW n \in Nat, InRange(tail, n) => n \in kept,
         tail' = Append(tail, n), sent' = sent, kept' = kept,
         n =< submits', submits =< submits',
         file' \in Codes => file'.n =< submits',
         file' \in Codes /\ InRange(tail', file'.n) =>
           file'.n \in kept \/ (pc' = "read" /\ file'.n = n),
         pc' \in {"read", "answer"},
         pc' = "read" => needs'
  PROVE  IInv'
<1>1. /\ submits \in Nat /\ submits' \in Nat /\ tail \in Seq(Nat) /\ Len(tail) \in Nat
      /\ Len(sent) \in Nat
  BY DEF IInv, TypeOK
<1>2. /\ Len(tail') = Len(tail) + 1
      /\ \A j \in 1..Len(tail) : tail'[j] = tail[j]
      /\ tail'[Len(tail) + 1] = n
  BY <1>1, AppendElement
<1>3. \A i \in 1..Len(tail') : i = Len(tail) + 1 \/ i \in 1..Len(tail)
  BY <1>1, <1>2
<1>4. \A i \in 1..Len(tail') : tail'[i] =< submits'
  <2>1. ASSUME NEW i \in 1..Len(tail) PROVE tail'[i] =< submits'
    <3>1. tail[i] \in Nat /\ tail[i] =< submits
      BY <1>1 DEF IInv, Numbered
    <3> QED
      BY <1>1, <1>2, <3>1
  <2> QED
    BY <1>2, <1>3, <2>1
<1>5. \A i, j \in 1..Len(tail') : i # j /\ tail'[i] = tail'[j] => tail'[i] \in kept'
  BY <1>2, <1>3 DEF IInv, CodeUsedOnce, InRange
<1>6. \A m : InRange(tail, m) => InRange(tail', m)
  BY <1>1, <1>2 DEF InRange
<1>7. ASSUME NEW j \in 1..Len(sent), InRange(sent[j].tail, n) PROVE n \in kept
  BY <1>7 DEF IInv, InOrder, InRange
<1>8. FreshCode'
  <2>1. tail' # <<>> /\ tail'[Len(tail')] = n
    BY <1>1, <1>2
  <2> QED
    BY <1>7, <2>1 DEF FreshCode, InRange
<1>9. Numbered'
  BY <1>1, <1>2, <1>4 DEF Numbered
<1>10. InOrder'
  BY <1>6, <1>8 DEF IInv, InOrder
<1>11. CodeUsedOnce'
  BY <1>5 DEF CodeUsedOnce
<1>12. AnswersCarryCode'
  BY DEF IInv, AnswersCarryCode, InRange
<1> QED
  BY <1>9, <1>10, <1>11, <1>12 DEF IInv

\* A code found in the file is a new one or was kept; one that is typed is new.
LEMMA TakenCodes ==
  ASSUME IInv, TypeOK', ReadCode \/ TypeCode
  PROVE  IInv'
<1> USE DEF ByProcess, failVars, requestVars
<1>1. submits \in Nat /\ tail \in Seq(Nat) /\ Len(tail) \in Nat
  BY DEF IInv, TypeOK
<1>2. pc = "wait" /\ needs
  BY DEF ReadCode, TypeCode, IInv, InOrder
<1>3. file \in Codes => /\ file.n \in Nat /\ file.n =< submits
                        /\ InRange(tail, file.n) => file.n \in kept
  BY <1>2 DEF IInv, Numbered, Codes, Ends
<1>4. CASE ReadCode
  <2>1. file \in Codes /\ tail' = Append(tail, file.n) /\ pc' = "read"
    BY <1>4 DEF ReadCode, HoldsCode
  <2>2. UNCHANGED <<file, submits, needs, sent, kept>>
    BY <1>4 DEF ReadCode
  <2> QED
    BY <1>1, <1>2, <1>3, <2>1, <2>2, NewCode
<1>5. CASE TypeCode /\ pc' = "answer"
  <2>1. submits' = submits + 1 /\ tail' = Append(tail, submits + 1)
    BY <1>5 DEF TypeCode, Exit
  <2>2. UNCHANGED <<file, needs, sent, kept>>
    BY <1>5 DEF TypeCode
  <2>3. \A i \in 1..Len(tail) : tail[i] \in Nat /\ tail[i] =< submits
    BY <1>1 DEF IInv, Numbered
  <2>4. ~InRange(tail, submits + 1)
    BY <1>1, <2>3 DEF InRange
  <2>5. /\ Len(tail') = Len(tail) + 1
        /\ \A j \in 1..Len(tail) : tail'[j] = tail[j]
        /\ tail'[Len(tail) + 1] = submits + 1
    BY <1>1, <2>1, AppendElement
  <2>6. ASSUME file' \in Codes, InRange(tail', file'.n) PROVE file'.n \in kept
    <3>1. file.n \in Nat /\ file.n < submits + 1 /\ (InRange(tail, file.n) => file.n \in kept)
      BY <1>1, <1>3, <2>2, <2>6
    <3>2. InRange(tail, file.n)
      BY <1>1, <2>2, <2>5, <2>6, <3>1 DEF InRange
    <3> QED
      BY <2>2, <3>1, <3>2
  <2>7. file' \in Codes => file'.n =< submits'
    BY <1>1, <1>3, <2>1, <2>2
  <2>8. submits + 1 \in Nat /\ submits =< submits'
    BY <1>1, <2>1
  <2> QED
    BY <1>5, <2>1, <2>2, <2>4, <2>6, <2>7, <2>8, NewCode
<1>6. CASE TypeCode /\ pc' = "exited"
  <2>1. UNCHANGED <<file, submits, tail, needs, sent, kept>>
    BY <1>6 DEF TypeCode
  <2> QED
    BY <1>2, <1>6, <2>1, QuietCodes DEF Closed, Ends
<1> QED
  BY <1>4, <1>5, <1>6 DEF TypeCode, Exit

\* The response carries what is behind the password.
LEMMA SentCodes ==
  ASSUME IInv, TypeOK', Answer
  PROVE  IInv'
<1> DEFINE r == [needs |-> needs, tail |-> tail]
<1>1. /\ pc = "answer" /\ pc' = "flow" /\ sent' = Append(sent, r)
      /\ UNCHANGED <<file, submits, tail, needs, kept>>
  BY DEF Answer, requestVars, failVars, ByProcess
<1>2. sent \in Seq(Responses) /\ Len(sent) \in Nat /\ r \in Responses
  BY DEF IInv, TypeOK, Responses
<1>3. r.tail = tail /\ (r.needs => needs)
  OBVIOUS
<1> HIDE DEF r
<1>4. /\ Len(sent') = Len(sent) + 1
      /\ \A j \in 1..Len(sent) : sent'[j] = sent[j]
      /\ sent'[Len(sent) + 1] = r
  BY <1>1, <1>2, AppendElement
<1>5. \A i \in 1..Len(sent') : i = Len(sent) + 1 \/ i \in 1..Len(sent)
  BY <1>2, <1>4
<1>6. Numbered'
  BY <1>1 DEF IInv, Numbered, InRange, Ends
<1>7. CodeUsedOnce'
  BY <1>1 DEF IInv, CodeUsedOnce, Numbered, InRange, Ends
<1>8. InOrder'
  <2>1. ASSUME NEW j \in 1..Len(sent'), NEW i \in 1..Len(sent'[j].tail)
        PROVE  InRange(tail', sent'[j].tail[i])
    <3>1. CASE j = Len(sent) + 1
      BY <1>1, <1>3, <1>4, <2>1, <3>1 DEF InRange
    <3>2. CASE j \in 1..Len(sent)
      BY <1>1, <1>4, <2>1, <3>2 DEF IInv, InOrder, InRange
    <3> QED
      BY <1>5, <3>1, <3>2
  <2> QED
    BY <1>1, <2>1 DEF InOrder
<1>9. AnswersCarryCode'
  <2>1. ASSUME NEW i \in 1..Len(sent'), sent'[i].needs
        PROVE  /\ sent'[i].tail # <<>>
               /\ \A j \in 1..(i-1) :
                    InRange(sent'[j].tail, sent'[i].tail[Len(sent'[i].tail)])
                      => sent'[i].tail[Len(sent'[i].tail)] \in kept'
    <3>1. CASE i = Len(sent) + 1
      <4>1. FreshCode
        BY <1>1, <1>3, <1>4, <2>1, <3>1 DEF IInv, InOrder
      <4>2. sent'[i].tail = tail /\ \A j \in 1..(i-1) : j \in 1..Len(sent)
        BY <1>2, <1>3, <1>4, <3>1
      <4> QED
        BY <1>1, <1>4, <4>1, <4>2 DEF FreshCode
    <3>2. CASE i \in 1..Len(sent)
      <4>1. sent'[i] = sent[i] /\ \A j \in 1..(i-1) : sent'[j] = sent[j]
        BY <1>2, <1>4, <3>2
      <4> QED
        BY <1>1, <2>1, <3>2, <4>1 DEF IInv, AnswersCarryCode
    <3> QED
      BY <1>5, <3>1, <3>2
  <2> QED
    BY <2>1 DEF AnswersCarryCode
<1> QED
  BY <1>6, <1>7, <1>8, <1>9 DEF IInv

LEMMA NextIInv == IInv /\ [Next]_vars => IInv'
<1> SUFFICES ASSUME IInv, [Next]_vars PROVE IInv'
  OBVIOUS
<1> USE DEF Closed, Ends
<1>1. TypeOK /\ TypeOK'
  BY NextType DEF IInv, InOrder, FreshCode
<1>2. CASE StartLogin \/ StartByHand
  BY <1>1, <1>2, StartCodes
<1>3. CASE ReadCode \/ TypeCode
  BY <1>1, <1>3, TakenCodes
<1>4. CASE Answer
  BY <1>1, <1>4, SentCodes
<1>5. CASE EndLogin \/ KillScript \/ PollAgain \/ UNCHANGED vars
  <2>1. UNCHANGED <<file, submits, pc, tail, needs, sent, kept>>
    BY <1>5 DEF EndLogin, KillScript, PollAgain, AfterPoll, FileAfterPoll, ByProcess,
                vars, processVars, failVars, requestVars
  <2> QED
    BY <1>1, <2>1, QuietCodes DEF IInv, InOrder
<1>6. CASE TruncateFile
  <2>1. UNCHANGED <<submits, pc, tail, needs, sent, kept>> /\ file' \notin Codes
    BY <1>6 DEF TruncateFile, processVars, failVars, requestVars
  <2> QED
    BY <1>1, <2>1, QuietCodes DEF IInv, InOrder
<1>7. CASE WriteCode
  <2>1. /\ UNCHANGED <<pc, tail, needs, sent, kept>>
        /\ submits' = submits + 1 /\ file' \in Codes /\ file'.n = submits + 1
    BY <1>1, <1>7 DEF WriteCode, processVars, failVars, requestVars, Codes, TypeOK
  <2> QED
    BY <1>1, <2>1, QuietCodes DEF IInv, InOrder
<1>8. CASE Request
  <2>1. UNCHANGED <<file, submits, tail, sent, kept>> /\ pc = "flow" /\ pc' = "load"
    BY <1>8 DEF Request, failVars
  <2> QED
    BY <1>1, <2>1, QuietCodes
<1>9. CASE Load
  <2>1. /\ UNCHANGED <<file, submits, tail, needs, sent, kept>> /\ pc = "load"
    BY <1>9, Zenon DEF Load
  <2>2. (needs /\ pc' = "wait") \/ (~needs /\ pc' = "answer") \/ pc' = "exited"
    BY <1>9, Zenon DEF Load, Exit
  <2> QED
    BY <1>1, <2>1, <2>2, QuietCodes
<1>10. CASE FlowEnds \/ LoadFails \/ PollsExhausted \/ Stopped
  <2>1. /\ UNCHANGED <<file, submits, tail, needs, sent, kept>>
        /\ pc' \in {"in", "exited", "stopped"}
    BY <1>10 DEF FlowEnds, LoadFails, PollsExhausted, Stopped, Exit, requestVars, failVars
  <2> QED
    BY <1>1, <2>1, QuietCodes
<1>11. CASE RemoveCode
  <2>1. /\ UNCHANGED <<submits, tail, needs, sent>> /\ pc = "read" /\ pc' = "answer"
        /\ kept \subseteq kept'
        /\ file' \notin Codes \/ (file' = file /\ tail[Len(tail)] \in kept')
    BY <1>11 DEF RemoveCode, AfterRemove, requestVars
  <2> QED
    BY <1>1, <2>1, QuietCodes
<1> QED
  BY <1>2, <1>3, <1>4, <1>5, <1>6, <1>7, <1>8, <1>9, <1>10, <1>11
     DEF Next, Host, Process, Runs

-----------------------------------------------------------------------------
(* The theorems about codes. *)

\* The inductive invariant holds in every reachable state.
THEOREM Invariance == Spec => []IInv
BY InitIInv, NextIInv, PTL DEF Spec

\* Every variable of the login keeps to its type
\* (credential_handler, cmd_login, cmd_2fa).
THEOREM TypeCorrect == Spec => []TypeOK
BY Invariance, PTL DEF IInv

\* A code that was read is taken for that of a later request only where the file
\* could not be removed after it was read (credential_handler).
THEOREM CodesUsedOnce == Spec => []CodeUsedOnce
BY Invariance, PTL DEF IInv

\* A response to a request for a code ends with one, and with one no earlier
\* response carried where that one's file was removed (credential_handler).
THEOREM AnswersCorrect == Spec => []AnswersCarryCode
BY Invariance, PTL DEF IInv

\* Whatever 2fa.txt holds, the process that polls it gives up only after the last
\* poll (credential_handler).
THEOREM BadCodesWaited == Spec => OnlyTimeoutEndsWait
<1>1. TypeOK /\ [Next]_vars => (pc = "wait" /\ fromFile /\ pc' = "exited" => count = MaxPolls)
  <2> SUFFICES ASSUME TypeOK, [Next]_vars, pc = "wait", fromFile, pc' = "exited"
               PROVE  count = MaxPolls
    OBVIOUS
  <2>1. CASE PollsExhausted
    BY <2>1 DEF PollsExhausted, PollsLeft, TypeOK
  <2>2. CASE Host \/ UNCHANGED vars
    BY <2>2 DEF Host, StartLogin, StartByHand, FreshProcess, EndLogin, KillScript,
                TruncateFile, WriteCode, vars, processVars
  <2>3. CASE \/ Load \/ LoadFails \/ ReadCode \/ PollAgain \/ RemoveCode \/ Answer
             \/ Request \/ FlowEnds \/ TypeCode \/ Stopped
    BY <2>3 DEF Load, LoadFails, ReadCode, PollAgain, AfterPoll, RemoveCode, Answer, Request,
                FlowEnds, TypeCode, Stopped
  <2> QED
    BY <2>1, <2>2, <2>3 DEF Next, Process, Runs
<1> QED
  BY <1>1, TypeCorrect, PTL DEF Spec, OnlyTimeoutEndsWait

-----------------------------------------------------------------------------
(* Codes of an earlier login, and codes that nobody reads. *)

(***************************************************************************)
(* A code older than the process is in the file only if the file was not   *)
(* written since, so once a code was read it is that one.                  *)
(***************************************************************************)
StaleSeen ==
  fromFile /\ tail # <<>> /\ file \in Codes /\ file.n =< before => InRange(tail, file.n)

\* What is written after a code was read is newer.
ReadOrder ==
  pc = "read" /\ file \in Codes => InRange(tail, file.n) \/ file.n > tail[Len(tail)]

History == StaleSeen /\ StaleCodeFirst /\ ReadOrder

\* A code that joins the others is in hand, and newer than the process or kept.
LEMMA TakenHistory ==
  ASSUME IInv, History, ReadCode \/ TypeCode
  PROVE  History'
<1>1. /\ submits \in Nat /\ before \in Nat /\ before =< submits
      /\ tail \in Seq(Nat) /\ Len(tail) \in Nat
  BY DEF IInv, TypeOK
<1>2. UNCHANGED <<file, before, kept, fromFile>>
  BY DEF ReadCode, TypeCode, ByProcess, failVars
<1>3. ASSUME NEW n \in Nat, tail' = Append(tail, n),
             n =< before => Len(tail) = 0 \/ n \in kept
      PROVE  StaleCodeFirst' /\ InRange(tail', n)
  <2>1. /\ Len(tail') = Len(tail) + 1
        /\ \A j \in 1..Len(tail) : tail'[j] = tail[j]
        /\ tail'[Len(tail) + 1] = n
    BY <1>1, <1>3, AppendElement
  <2>2. \A i \in 1..Len(tail') : i = Len(tail) + 1 \/ i \in 1..Len(tail)
    BY <1>1, <2>1
  <2>3. Len(tail) + 1 \in 1..Len(tail')
    BY <1>1, <2>1
  <2>4. StaleCodeFirst'
    BY <1>1, <1>2, <1>3, <2>1, <2>2 DEF History, StaleCodeFirst
  <2> QED
    BY <2>1, <2>3, <2>4 DEF InRange
<1>4. CASE ReadCode
  <2>1. file \in Codes /\ tail' = Append(tail, file.n) /\ pc = "wait" /\ fromFile
    BY <1>4 DEF ReadCode, HoldsCode
  <2>2. file.n \in Nat
    BY <2>1 DEF Codes
  <2>3. file.n =< before => Len(tail) = 0 \/ file.n \in kept
    BY <1>1, <2>1 DEF History, StaleSeen, IInv, Numbered, Ends
  <2>4. StaleCodeFirst' /\ InRange(tail', file.n)
    BY <1>3, <2>1, <2>2, <2>3
  <2> QED
    BY <1>2, <2>4 DEF History, StaleSeen, ReadOrder
<1>5. CASE TypeCode
  <2>1. ~fromFile' /\ pc' # "read"
    BY <1>2, <1>5 DEF TypeCode, Exit
  <2>2. tail' = Append(tail, submits + 1) \/ tail' = tail
    BY <1>5 DEF TypeCode
  <2>3. StaleCodeFirst'
    BY <1>1, <1>2, <1>3, <2>2 DEF History, StaleCodeFirst
  <2> QED
    BY <2>1, <2>3 DEF History, StaleSeen, ReadOrder
<1> QED
  BY <1>4, <1>5

LEMMA HistoryStep ==
  ASSUME IInv, History, [Next]_vars
  PROVE  History'
<1> USE DEF ByProcess, failVars, processVars, requestVars
<1>1. CASE StartLogin \/ StartByHand
  <2>1. tail' = <<>> /\ pc' = "flow"
    BY <1>1 DEF StartLogin, StartByHand, FreshProcess
  <2> QED
    BY <2>1 DEF History, StaleSeen, StaleCodeFirst, ReadOrder
<1>2. CASE ReadCode \/ TypeCode
  BY <1>2, TakenHistory
<1>3. CASE WriteCode
  <2>1. /\ UNCHANGED <<tail, before, kept, fromFile, pc>>
        /\ file' \in Codes /\ file'.n = submits + 1
    BY <1>3 DEF WriteCode, Codes, IInv, TypeOK
  <2>2. submits \in Nat /\ before \in Nat /\ before =< submits /\ tail \in Seq(Nat)
    BY DEF IInv, TypeOK
  <2>3. pc = "read" => submits + 1 > tail[Len(tail)]
    <3>1. pc = "read" => Len(tail) \in 1..Len(tail)
      BY <2>2 DEF IInv, InOrder, FreshCode
    <3> QED
      BY <2>2, <3>1 DEF IInv, Numbered
  <2> QED
    BY <2>1, <2>2, <2>3 DEF History, StaleSeen, StaleCodeFirst, ReadOrder
<1>4. CASE TruncateFile
  <2>1. UNCHANGED <<tail, before, kept>> /\ file' \notin Codes
    BY <1>4 DEF TruncateFile
  <2> QED
    BY <2>1 DEF History, StaleSeen, StaleCodeFirst, ReadOrder
<1>5. CASE \/ EndLogin \/ KillScript \/ Request \/ FlowEnds \/ Load \/ LoadFails \/ PollAgain
           \/ PollsExhausted \/ RemoveCode \/ Answer \/ Stopped \/ UNCHANGED vars
  <2>1. UNCHANGED <<tail, before, fromFile>>
    BY <1>5 DEF EndLogin, KillScript, Request, FlowEnds, Load, LoadFails, PollAgain,
                PollsExhausted, RemoveCode, Answer, Stopped, vars
  <2>2. kept \subseteq kept' /\ (file' = file \/ file' \notin Codes)
    BY <1>5 DEF EndLogin, KillScript, Request, FlowEnds, Load, LoadFails, PollAgain,
                FileAfterPoll, PollsExhausted, RemoveCode, AfterRemove, Answer, Stopped, vars
  <2>3. pc' = "read" => pc = "read"
    BY <1>5 DEF EndLogin, KillScript, Request, FlowEnds, Load, LoadFails, PollAgain,
                AfterPoll, PollsExhausted, RemoveCode, Answer, Stopped, Exit, vars
  <2> QED
    BY <2>1, <2>2, <2>3 DEF History, StaleSeen, StaleCodeFirst, ReadOrder, InRange
<1> QED
  BY <1>1, <1>2, <1>3, <1>4, <1>5 DEF Next, Host, Process, Runs

THEOREM HistoryKept == Spec => []History
<1>1. Init => History
  BY DEF Init, History, StaleSeen, StaleCodeFirst, ReadOrder
<1> QED
  BY <1>1, HistoryStep, Invariance, PTL DEF Spec

\* A code submitted before the process was started can only be the first one it
\* reads, unless the file it was in could not be removed (credential_handler).
THEOREM StaleCodes == Spec => []StaleCodeFirst
BY HistoryKept, PTL DEF History

\* A valid code nobody read goes only with the removal that follows the read of an
\* older one (credential_handler, cmd_2fa).
THEOREM CodesNotLost == Spec => OnlyNewerCodeLost
<1>1. History /\ [Next]_vars =>
        (file' = Absent /\ HoldsCode =>
           InRange(tail, file.n) \/ (pc = "read" /\ file.n > tail[Len(tail)]))
  <2> SUFFICES ASSUME History, [Next]_vars, file' = Absent, HoldsCode
               PROVE  InRange(tail, file.n) \/ (pc = "read" /\ file.n > tail[Len(tail)])
    OBVIOUS
  <2>1. CASE RemoveCode
    BY <2>1 DEF RemoveCode, HoldsCode, History, ReadOrder
  <2>2. CASE TruncateFile
    BY <2>2 DEF TruncateFile
  <2>3. CASE WriteCode
    <3>1. file = Empty
      BY <2>3 DEF WriteCode
    <3> QED
      BY <3>1 DEF HoldsCode
  <2>4. CASE \/ StartLogin \/ StartByHand \/ EndLogin \/ KillScript \/ Request \/ FlowEnds
             \/ Load \/ LoadFails \/ ReadCode \/ PollAgain \/ PollsExhausted \/ TypeCode
             \/ Answer \/ Stopped \/ UNCHANGED vars
    <3>1. file' = file
      BY <2>4 DEF StartLogin, StartByHand, FreshProcess, EndLogin, KillScript, Request,
                  FlowEnds, Load, LoadFails, ReadCode, PollAgain, FileAfterPoll,
                  PollsExhausted, TypeCode, Answer, Stopped, vars
    <3> QED
      BY <3>1 DEF HoldsCode
  <2> QED
    BY <2>1, <2>2, <2>3, <2>4 DEF Next, Host, Process, Runs
<1> QED
  BY <1>1, HistoryKept, PTL DEF Spec, OnlyNewerCodeLost
=============================================================================
