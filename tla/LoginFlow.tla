------------------------------ MODULE LoginFlow ------------------------------
(***************************************************************************)
(* A login: the host command that starts it (cmd_login in wrapper), the    *)
(* command that submits a verification code (cmd_2fa), and the process in  *)
(* the container that answers the credential requests of Apple's           *)
(* authentication flow (login, credential_handler in server.c).  The three *)
(* share two files of the data directory, the password file and 2fa.txt.   *)
(*                                                                         *)
(* The password is abstract: what matters of login_password is which codes *)
(* have been written behind it.  The n-th submitted code is n.             *)
(***************************************************************************)
EXTENDS Integers, Sequences

CONSTANTS
  Absent, Empty,    \* 2fa.txt does not exist; it was truncated
  MaxPolls,         \* polls of 2fa.txt for one request: 20 in the code
  MaxSubmits,       \* bound of the model: codes submitted
  MaxRequests,      \* bound of the model: credential requests of one login
  MaxLogins         \* bound of the model: processes started

\* A submitted text; valid means that it has TWO_FACTOR_CODE_LEN characters.
Codes == [n : Nat, valid : BOOLEAN]

ASSUME LoginAssumption ==
  /\ MaxPolls \in Nat /\ MaxSubmits \in Nat /\ MaxRequests \in Nat /\ MaxLogins \in Nat
  /\ Absent \notin Codes /\ Empty \notin Codes /\ Absent # Empty

VARIABLES
  script,     \* cmd_login: "idle", "running" or "killed"
  logins,     \* processes started so far
  orphans,    \* the runs of cmd_login that were killed or whose rm failed
  pwfiles,    \* the runs of cmd_login whose password file exists
  file,       \* 2fa.txt
  submits,    \* codes submitted so far
  before,     \* of them, those submitted before this process was started
  unremoved,  \* the logins of which remove(options.password_file) failed
  kept,       \* the codes after which remove(path) failed
  pc,         \* where the container's process is
  fromFile,   \* options.read_2fa_file
  loaded,     \* login_password # NULL
  tail,       \* the codes that stand behind the password in login_password
  needs,      \* needs_2fa of the request being answered
  count,      \* polls made for it
  sent        \* the responses given to the flow, oldest first

hostVars == <<script, logins, orphans>>
requestVars == <<needs, count>>
failVars == <<unremoved, kept>>     \* with before, history that no guard reads
processVars == <<pc, fromFile, loaded, tail, requestVars, sent>>
vars == <<hostVars, pwfiles, file, submits, before, failVars, processVars>>

\* The process ended by itself, or somebody ended it.
Ends == {"exited", "stopped"}

PCs == {"off", "flow", "load", "wait", "read", "answer", "in"} \cup Ends

Responses == [needs : BOOLEAN, tail : Seq(Nat)]

TypeOK ==
  /\ script \in {"idle", "running", "killed"}
  /\ logins \in Nat /\ submits \in Nat
  /\ pwfiles \subseteq Nat /\ orphans \subseteq Nat
  /\ before \in 0..submits
  /\ unremoved \subseteq Nat /\ kept \subseteq Nat
  /\ file \in Codes \cup {Absent, Empty}
  /\ pc \in PCs
  /\ fromFile \in BOOLEAN /\ loaded \in BOOLEAN /\ needs \in BOOLEAN
  /\ tail \in Seq(Nat)
  /\ count \in 0..MaxPolls
  /\ sent \in Seq(Responses)

Init ==
  /\ script = "idle" /\ logins = 0 /\ orphans = {}
  /\ pwfiles = {}
  /\ file = Absent /\ submits = 0 /\ before = 0
  /\ unremoved = {} /\ kept = {}
  /\ pc = "off" /\ fromFile = TRUE
  /\ loaded = FALSE /\ tail = <<>>
  /\ needs = FALSE /\ count = 0
  /\ sent = <<>>

-----------------------------------------------------------------------------
(* The host. *)

\* The process starts with a fresh memory, holding the password or not.
FreshProcess(hasPassword) ==
  /\ pc \in {"off"} \cup Ends /\ script # "running" /\ logins < MaxLogins
  /\ logins' = logins + 1
  /\ before' = submits
  /\ pc' = "flow"
  /\ loaded' = hasPassword /\ tail' = <<>> /\ sent' = <<>>
  /\ needs' = FALSE /\ count' = 0
  /\ UNCHANGED <<orphans, failVars, file, submits>>

\* cmd_login up to run_container.
StartLogin ==
  /\ FreshProcess(FALSE)
  /\ script' = "running"
  /\ pwfiles' = pwfiles \cup {logins'}
  /\ fromFile' = TRUE

\* Started by hand with --login apple-id:password; codes may come from stdin.
StartByHand ==
  /\ FreshProcess(TRUE)
  /\ fromFile' \in BOOLEAN
  /\ UNCHANGED <<script, pwfiles>>

AfterRun_Keep == pwfiles

\* remove_file, whatever the status of run_container.
AfterRun == pwfiles \ {logins}

EndLogin ==
  /\ script = "running" /\ pc \in Ends
  /\ script' = "idle"
  /\ \/ pwfiles' = AfterRun /\ UNCHANGED orphans
     \/ orphans' = orphans \cup {logins} /\ UNCHANGED pwfiles    \* rm -f failed
  /\ UNCHANGED <<logins, failVars, file, submits, before, processVars>>

\* The terminal goes away under the script; the container may live on.
KillScript ==
  /\ script = "running"
  /\ script' = "killed"
  /\ orphans' = orphans \cup {logins}
  /\ UNCHANGED <<logins, pwfiles, failVars, file, submits, before, processVars>>

\* cmd_2fa: the shell truncates 2fa.txt, then printf writes the code.
TruncateFile ==
  /\ submits < MaxSubmits
  /\ file' = Empty
  /\ UNCHANGED <<hostVars, pwfiles, submits, before, failVars, processVars>>

WriteCode ==
  /\ submits < MaxSubmits /\ file = Empty
  /\ submits' = submits + 1
  /\ file' \in [n : {submits + 1}, valid : BOOLEAN]
  /\ UNCHANGED <<hostVars, pwfiles, before, failVars, processVars>>

-----------------------------------------------------------------------------
(* The process.  It changes nothing of the host but the two files.         *)

ByProcess == UNCHANGED <<hostVars, before, fromFile>>

Exit == pc' = "exited"

\* The flow wants credentials; MaxRequests bounds how often in the model only.
Request ==
  /\ pc = "flow" /\ Len(sent) < MaxRequests
  /\ needs' \in BOOLEAN
  /\ pc' = "load"
  /\ ByProcess /\ UNCHANGED <<pwfiles, failVars, file, submits, loaded, tail, count, sent>>

\* AuthenticateFlow::run returned: response type 6 means logged in.
FlowEnds ==
  /\ pc = "flow"
  /\ pc' = "in" \/ Exit
  /\ ByProcess /\ UNCHANGED <<pwfiles, failVars, file, submits, loaded, tail, requestVars, sent>>

PasswordFilesAfterLoad_Keep == pwfiles

\* What remove(options.password_file) leaves when it succeeds.
PasswordFilesAfterLoad == pwfiles \ {logins}

\* Nobody looks at its result.
RemovePasswordFile ==
  \/ pwfiles' = PasswordFilesAfterLoad /\ UNCHANGED unremoved
  \/ unremoved' = unremoved \cup {logins} /\ UNCHANGED pwfiles

\* ensure_login_password_loaded, once per process, and the branch on needs_2fa.
Load ==
  /\ pc = "load"
  /\ \/ loaded /\ UNCHANGED <<loaded, pwfiles, unremoved>>
     \/ ~loaded /\ loaded' = TRUE /\ RemovePasswordFile
  /\ \/ needs /\ pc' = "wait" /\ count' = 0
     \/ needs /\ fromFile /\ Exit /\ UNCHANGED count    \* no memory for the path
     \/ ~needs /\ pc' = "answer" /\ UNCHANGED count
  /\ ByProcess /\ UNCHANGED <<kept, file, submits, tail, needs, sent>>

\* The password file is missing, empty or unreadable, or memory is short.
LoadFails ==
  /\ pc = "load" /\ ~loaded
  /\ RemovePasswordFile
  /\ Exit
  /\ ByProcess /\ UNCHANGED <<kept, file, submits, loaded, tail, requestVars, sent>>

PollsLeft == count < MaxPolls

\* fgets found a line of the right length.
HoldsCode == file \in Codes /\ file.valid

\* The code is copied behind what login_password holds by then (strlen).  The
\* buffer has room for one code: what a second one overwrites is nobody's, or
\* ends the process sooner or later (Stopped).
ReadCode ==
  /\ pc = "wait" /\ fromFile /\ PollsLeft /\ HoldsCode
  /\ tail' = Append(tail, file.n)
  /\ pc' = "read"
  /\ ByProcess /\ UNCHANGED <<pwfiles, failVars, file, submits, loaded, requestVars, sent>>

\* An invalid code starts the wait again.
Tick_Stuck == count

Tick == count + 1

\* A file that holds no code ends the process, as a line from stdin does.
AfterPoll_Exit == IF file = Absent THEN "wait" ELSE "exited"

AfterPoll == "wait"

\* What is in the file when the poll is over is thrown away.
FileAfterPoll_Removed == Absent

FileAfterPoll == file

\* No file yet, or one that holds no code, or fopen failed; then sleep(3).
PollAgain ==
  /\ pc = "wait" /\ fromFile /\ PollsLeft
  /\ count' = Tick
  /\ pc' = AfterPoll
  /\ file' = FileAfterPoll
  /\ ByProcess /\ UNCHANGED <<pwfiles, failVars, submits, loaded, tail, needs, sent>>

PollsExhausted ==
  /\ pc = "wait" /\ fromFile /\ ~PollsLeft
  /\ Exit
  /\ ByProcess /\ UNCHANGED <<pwfiles, failVars, file, submits, loaded, tail, requestVars, sent>>

\* The code stays in the file.
AfterRemove_Keep == file

\* What remove(path) leaves when it succeeds, whatever was written there since
\* the code was read.
AfterRemove == Absent

\* Nobody looks at its result either.
RemoveCode ==
  /\ pc = "read"
  /\ \/ file' = AfterRemove /\ UNCHANGED kept
     \/ kept' = kept \cup {tail[Len(tail)]} /\ UNCHANGED file
  /\ pc' = "answer"
  /\ ByProcess /\ UNCHANGED <<pwfiles, unremoved, submits, loaded, tail, requestVars, sent>>

\* Without --read-2fa-file fgets waits for a line from stdin, as long as nobody
\* types one; a wrong length, or the end of stdin, ends the process.
TypeCode ==
  /\ pc = "wait" /\ ~fromFile
  /\ \/ /\ submits < MaxSubmits
        /\ submits' = submits + 1
        /\ tail' = Append(tail, submits')
        /\ pc' = "answer"
     \/ Exit /\ UNCHANGED <<submits, tail>>
  /\ ByProcess /\ UNCHANGED <<pwfiles, failVars, file, loaded, requestVars, sent>>

\* handleCredentialsResponse with the user name and login_password.
Answer ==
  /\ pc = "answer"
  /\ sent' = Append(sent, [needs |-> needs, tail |-> tail])
  /\ pc' = "flow"
  /\ ByProcess /\ UNCHANGED <<pwfiles, failVars, file, submits, loaded, tail, requestVars>>

\* The container is stopped, or the process dies.
Stopped ==
  /\ pc \notin {"off"} \cup Ends
  /\ pc' = "stopped"
  /\ ByProcess /\ UNCHANGED <<pwfiles, failVars, file, submits, loaded, tail, requestVars, sent>>

-----------------------------------------------------------------------------

Host == StartLogin \/ StartByHand \/ EndLogin \/ KillScript \/ TruncateFile \/ WriteCode

\* What the process does without waiting for the flow or for somebody at stdin.
Runs ==
  \/ Load \/ LoadFails
  \/ ReadCode \/ PollAgain \/ PollsExhausted \/ RemoveCode
  \/ Answer

Process == Runs \/ Request \/ FlowEnds \/ TypeCode

Next == Host \/ Process \/ Stopped

Spec == Init /\ [][Next]_vars

\* The process is scheduled and its sleeps end, and a shell that was not killed
\* goes on when docker returns.  Neither the flow nor any user has to do anything.
FairSpec == Spec /\ WF_vars(Runs) /\ WF_vars(EndLogin)

-----------------------------------------------------------------------------
(* What a login promises. *)

InRange(s, n) == \E i \in 1..Len(s) : s[i] = n

\* A code is used for one request only: once read it is not taken for the code
\* of a later request, although the same file is polled again, unless the file
\* could not be removed after it was read.
CodeUsedOnce ==
  /\ \A i, j \in 1..Len(tail) : i # j /\ tail[i] = tail[j] => tail[i] \in kept
  /\ pc \in {"flow", "load", "wait"} /\ file \in Codes /\ InRange(tail, file.n) =>
       file.n \in kept

\* The response to a request that wants a code ends with one, and it is the
\* code read for that request, not one an earlier response carried, unless that
\* one could not be removed.
AnswersCarryCode ==
  \A i \in 1..Len(sent) :
    sent[i].needs =>
      /\ sent[i].tail # <<>>
      /\ LET code == sent[i].tail[Len(sent[i].tail)] IN
           \A j \in 1..(i-1) : InRange(sent[j].tail, code) => code \in kept

\* The password lies in the data directory only while cmd_login runs and until
\* the first credential request, or longer where its removal failed; after
\* cmd_login only where that command was killed or could not remove it.
PasswordFileShortLived ==
  \A l \in pwfiles :
    \/ l \in orphans
    \/ l = logins /\ script = "running" /\ (~loaded \/ l \in unremoved)

\* While it polls 2fa.txt the process ends by itself only after the last poll:
\* a file that is truncated, half-written or wrong costs one poll and no more.
OnlyTimeoutEndsWait == [][pc = "wait" /\ fromFile /\ pc' = "exited" => count = MaxPolls]_vars

\* A request that waits for 2fa.txt is answered, or the process gives up.
WaitEnds == (pc = "wait" /\ fromFile) ~> pc \in {"answer"} \cup Ends

\* Whatever becomes of the process, the password file goes once cmd_login has
\* nothing more to run, unless the command was killed or could not remove it.
PasswordFileRemoved ==
  (script = "running" /\ pc \in Ends) ~> (logins \notin pwfiles \/ logins \in orphans)

\* A code that was left in 2fa.txt by an earlier login can reach the first response
\* of the next one (nobody removes it), but no later code of that process is older
\* than the process, unless its file could not be removed.
StaleCodeFirst ==
  \A i \in 1..Len(tail) : tail[i] =< before => i = 1 \/ tail[i] \in kept

\* A valid code that nobody read is removed only in one window: after the process
\* has read an older one, before it removes the file.  However the polls, the
\* shell and the removal fall, no code is lost while the process waits for one.
OnlyNewerCodeLost ==
  [][file' = Absent /\ HoldsCode =>
       InRange(tail, file.n) \/ (pc = "read" /\ file.n > tail[Len(tail)])]_vars

\* README.md:48-52: writing the code to data/2fa.txt is all it takes: what is
\* sent to a request that wants a code is the password and that one code.
OneCodeBehindPassword ==
  fromFile => \A i \in 1..Len(sent) : sent[i].needs => Len(sent[i].tail) = 1
=============================================================================
