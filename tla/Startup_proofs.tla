--------------------------- MODULE Startup_proofs ----------------------------
(***************************************************************************)
(* What holds of every start, for any ports, options and number of them.   *)
(* The three parts of the state only meet in main, so each has an          *)
(* invariant of its own that its own steps preserve.                       *)
(***************************************************************************)
EXTENDS Startup, TLAPS

USE StartupAssumption, CliAssumption

-----------------------------------------------------------------------------
(* The curl interposer *)

Found == libcurl = "name" \/ (libcurl = "path" /\ ~overlap)

\* Where libcurl can be found and nobody disturbs, the handle that a thread goes
\* on with is libcurl's, and so is every function found with it.
NowhereInv ==
  libcurl = "nowhere" =>
    /\ handle = "null" /\ realFn = "null"
    /\ \A t \in Threads : fn[t] = "null" /\ cpc[t] \notin {"argument", "store", "return"}

NamedInv ==
  libcurl = "name" => \A t \in Threads : cpc[t] \in Searching \ {"handle", "name"} => handle = "libcurl"

AloneInv ==
  libcurl = "path" /\ ~overlap =>
    /\ \A t \in Threads : cpc[t] \in {"check", "argument", "store"} => handle = "libcurl"
    /\ \A t, u \in Threads : cpc[t] \in Searching /\ cpc[u] \in Searching => t = u

FoundInv ==
  Found =>
    /\ realFn # "itself"
    /\ \A t \in Threads :
         /\ cpc[t] = "return" => realFn = "libcurl"
         /\ cpc[t] \in {"store", "forward"} => fn[t] = "libcurl"

CurlInv == CurlTypeOK /\ NowhereInv /\ NamedInv /\ AloneInv /\ FoundInv /\ ForwardsToLibcurl

LEMMA CurlStarts == CurlInit => CurlInv
BY DEF CurlInit, CurlInv, CurlTypeOK, NowhereInv, NamedInv, AloneInv, FoundInv, Found,
       ForwardsToLibcurl, Searching

LEMMA EnterKept ==
  ASSUME CurlInv, NEW t \in Threads, Enter(t)
  PROVE  CurlInv'
<1>1. /\ cpc[t] = "enter"
      /\ UNCHANGED <<libcurl, handle, realFn, fn, dropped, itself>>
      /\ \/ overlap' = TRUE
         \/ overlap' = overlap /\ \A u \in Threads \ {t} : cpc[u] \notin Searching
  BY DEF Enter, CurlInv, CurlTypeOK
<1>2. PICK next \in {"return", "handle"} :
        /\ cpc' = [cpc EXCEPT ![t] = next]
        /\ next = "return" => realFn # "null"
  BY DEF Enter
<1>3. cpc'[t] = next /\ \A u \in Threads \ {t} : cpc'[u] = cpc[u]
  BY <1>2 DEF CurlInv, CurlTypeOK
<1>4. CurlTypeOK'
  <2>1. cpc' \in [Threads -> {"idle", "enter", "return", "forward"} \cup Searching]
    BY <1>2 DEF CurlInv, CurlTypeOK, Searching
  <2> QED
    BY <1>1, <2>1 DEF CurlInv, CurlTypeOK
<1>5. NowhereInv'
  BY <1>1, <1>2, <1>3 DEF CurlInv, NowhereInv
<1>6. NamedInv'
  BY <1>1, <1>2, <1>3 DEF CurlInv, CurlTypeOK, NamedInv, Searching
<1>7. AloneInv'
  BY <1>1, <1>2, <1>3 DEF CurlInv, CurlTypeOK, AloneInv, Searching
<1>8. FoundInv'
  BY <1>1, <1>2, <1>3 DEF CurlInv, CurlTypeOK, FoundInv, Found
<1>9. ForwardsToLibcurl'
  BY <1>1 DEF CurlInv, CurlTypeOK, ForwardsToLibcurl
<1> QED
  BY <1>4, <1>5, <1>6, <1>7, <1>8, <1>9 DEF CurlInv

LEMMA CurlKept ==
  ASSUME CurlInv, NEW t \in Threads, CurlCall(t) \/ CurlStep(t)
  PROVE  CurlInv'
<1> USE DEF CurlInv, CurlTypeOK, NowhereInv, NamedInv, AloneInv, FoundInv, Found,
            ForwardsToLibcurl, Searching
<1>1. CASE CurlCall(t)
  <2>1. /\ cpc' = [cpc EXCEPT ![t] = "enter"]
        /\ UNCHANGED <<libcurl, handle, realFn, fn, dropped, itself, overlap>>
    BY <1>1 DEF CurlCall
  <2>2. /\ CurlTypeOK' /\ ForwardsToLibcurl'
        /\ \A u \in Threads : cpc'[u] = cpc[u] \/ cpc'[u] = "enter"
    BY <2>1
  <2> QED
    BY <2>1, <2>2
<1>2. CASE Enter(t)
  BY <1>2, EnterKept
<1>3. CASE OpenName(t)
  BY <1>3 DEF OpenName, Dlopen
<1>4. CASE OpenPath(t)
  BY <1>4 DEF OpenPath, Dlopen
<1>5. CASE Read(t)
  BY <1>5 DEF Read
<1>6. CASE Dlsym(t)
  BY <1>6 DEF Dlsym, Lookup
<1>7. CASE Store(t)
  BY <1>7 DEF Store
<1>8. CASE Return(t)
  BY <1>8 DEF Return
<1>9. CASE Forward(t)
  BY <1>9 DEF Forward
<1> QED
  BY <1>1, <1>2, <1>3, <1>4, <1>5, <1>6, <1>7, <1>8, <1>9 DEF CurlStep

-----------------------------------------------------------------------------
(* The launcher *)

LaunchInv ==
  /\ LaunchTypeOK
  /\ lpc \in {"handlers", "chroot", "fork"} => child = "none" /\ childProc = -1
  /\ lpc \in {"forked", "wait"} => child \in Alive \cup {"zombie"}
  /\ lpc = "waited" => child = "reaped"
  /\ child \in {"zombie", "reaped"} => status \in Ends
  /\ OutlivesCore

LEMMA LaunchStarts == LaunchInit => LaunchInv
<1> SUFFICES ASSUME LaunchInit PROVE LaunchInv
  OBVIOUS
<1>1. LaunchTypeOK
  <2>1. code \in -1..255
    BY DEF LaunchInit
  <2>2. childProc \in {-1, Pid}
    BY DEF LaunchInit
  <2>3. status \in Ends \cup {Running}
    BY DEF LaunchInit
  <2> QED
    BY <2>1, <2>2, <2>3 DEF LaunchInit, LaunchTypeOK
<1> QED
  BY <1>1 DEF LaunchInit, LaunchInv, OutlivesCore

LEMMA ChildEndsKept ==
  ASSUME LaunchInv, NEW how \in Ends, child \in Alive, ChildEnds(how),
         UNCHANGED <<lpc, childProc, code>>, asked' \in BOOLEAN
  PROVE  LaunchInv'
BY DEF LaunchInv, LaunchTypeOK, OutlivesCore, ChildEnds, Alive

LEMMA CoreEndsKept ==
  ASSUME LaunchInv, NEW how \in Ends, CoreEnds(how)
  PROVE  LaunchInv'
BY ChildEndsKept DEF CoreEnds, Alive, LaunchInv, LaunchTypeOK

LEMMA EndsOfCore ==
  /\ \A n \in {0, 1} : Exited(n) \in Ends
  /\ \A n \in {2, 9, 11, 13} : Signalled(n) \in Ends
BY DEF Exited, Signalled, Ends

LEMMA LaunchKept ==
  ASSUME LaunchInv, LauncherStep \/ ChildStores \/ Exec \/ StopSignal \/ ChildInterrupted
  PROVE  LaunchInv'
<1> USE DEF LaunchInv, LaunchTypeOK, OutlivesCore, Alive, LauncherExits
<1>1. CASE Prepare
  BY <1>1 DEF Prepare
<1>2. CASE Fork
  BY <1>2 DEF Fork
<1>3. CASE StoreChild
  BY <1>3 DEF StoreChild, StoredPid, Pid
<1>4. CASE Waitpid
  BY <1>4 DEF Waitpid
<1>5. CASE ReturnStatus
  <2>1. status \in Ends /\ CodeOf \in 0..255
    BY <1>5 DEF ReturnStatus, CodeOf, Ends
  <2>2. CodeOf = (IF status.how = "signalled" THEN 128 ELSE 0) + status.number
    BY <2>1 DEF CodeOf, Ends
  <2> QED
    BY <1>5, <2>1, <2>2 DEF ReturnStatus
<1>6. CASE ChildStores
  BY <1>6 DEF ChildStores
<1>7. CASE Exec
  <2>1. CASE ChildEnds(Exited(1))
    BY <1>7, <2>1, EndsOfCore, ChildEndsKept DEF Exec
  <2>2. CASE child' = "core" /\ UNCHANGED status
    BY <1>7, <2>2 DEF Exec
  <2> QED
    BY <1>7, <2>1, <2>2 DEF Exec
<1>8. CASE StopSignal
  <2>1. lpc' = lpc /\ code' = code /\ UNCHANGED childProc /\ asked' \in BOOLEAN
    BY <1>8 DEF StopSignal, WaitAfterHandler
  <2>2. CASE childProc # -1 /\ child \in Alive
    BY <1>8, <2>1, <2>2, EndsOfCore, ChildEndsKept DEF StopSignal
  <2>3. CASE ~(childProc # -1 /\ child \in Alive)
    BY <1>8, <2>1, <2>3 DEF StopSignal
  <2> QED
    BY <2>2, <2>3
<1>9. CASE ChildInterrupted
  BY <1>9, EndsOfCore, ChildEndsKept DEF ChildInterrupted
<1> QED
  BY <1>1, <1>2, <1>3, <1>4, <1>5, <1>6, <1>7, <1>8, <1>9 DEF LauncherStep

-----------------------------------------------------------------------------
(* The command line, and what main does with it *)

Usable ==
  /\ \A p \in Ports : port[p] \in 1..MaxPort
  /\ value["device_info"] \in {"default", "nine"}
  /\ loginGiven => /\ value["login_apple_id"] # "null"
                   /\ value["login_password"] # "null" \/ value["password_file"] # "null"
  /\ value["login_password"] # "null" /\ ~loginGiven => value["password_file"] # "null"

\* Before the command line is split, the two parts of the login are NULL; the
\* second one is until it is copied.
Unsplit ==
  /\ parse \in {"defaults", "options", "device", "login"} => value["login_apple_id"] = "null"
  /\ parse \in {"defaults", "options", "device", "login", "credentials"} =>
       value["login_password"] = "null"
  /\ parse \in {"credentials", "check"} => value["login_apple_id"] # "null"

\* Whatever is parsed is usable.
Checked ==
  /\ parse \in {"options", "device", "login", "credentials", "check"} => \A p \in Ports : port[p] \in 1..MaxPort
  /\ parse \in {"login", "credentials", "check"} => loginGiven /\ value["device_info"] \in {"default", "nine"}
  /\ parse = "parsed" => Usable

CliInv == CliTypeOK /\ OptionsOwned /\ Unsplit /\ Checked

LEMMA PortsKnown == MaxPort \in Nat /\ DefaultPort \in Nat /\ 1 =< DefaultPort /\ DefaultPort =< MaxPort
BY DEF MaxPort, DefaultPort

LEMMA CliStarts == CliInit => CliInv
<1> SUFFICES ASSUME CliInit PROVE CliInv
  OBVIOUS
<1> USE DEF CliInit
<1>1. CliTypeOK
  <2>1. DOMAIN value = Owned /\ heap \in [Owned -> Int]
    OBVIOUS
  <2>2. port \in [Ports -> 0..MaxPort] /\ count \in 0..MaxOptions
    BY PortsKnown
  <2> QED
    BY <2>1, <2>2 DEF CliTypeOK
<1>2. OptionsOwned /\ Unsplit
  BY DEF OptionsOwned, Held, Unsplit, Owned, Fields
<1> QED
  BY <1>1, <1>2 DEF CliInv, Checked

LEMMA ValuesKnown ==
  \A f \in Fields : "null" \notin ValuesOf(f)
BY DEF ValuesOf, Fields

LEMMA CliKept ==
  ASSUME CliInv, CliStep
  PROVE  CliInv'
<1> USE DEF CliInv, CliTypeOK
<1>0. Fields \subseteq Owned /\ "login" \in Owned
  BY DEF Fields, Owned
<1>1. CASE InitDefaults
  <2>0. parse = "defaults" /\ UNCHANGED <<loginGiven, count>>
    BY <1>1 DEF InitDefaults
  <2>1. ASSUME NEW i \in 1..4, Copied(i - 1),
               value' = [value EXCEPT ![Defaulted[i]] = "default"],
               heap' = [heap EXCEPT ![Defaulted[i]] = @ + 1],
               UNCHANGED <<port, parse>>
        PROVE  CliInv'
    <3>1. ~(i =< i - 1)
      OBVIOUS
    <3>2. value[Defaulted[i]] = "null"
      BY <2>1, <3>1 DEF Copied
    <3>3. PICK f \in Fields : f = Defaulted[i]
      BY DEF Defaulted, Fields
    <3>4. f \in Owned /\ value[f] = "null" /\ heap[f] = 0
      BY <1>0, <3>2, <3>3 DEF OptionsOwned, Held
    <3>5. /\ value' = [value EXCEPT ![f] = "default"]
          /\ heap' = [heap EXCEPT ![f] = @ + 1]
      BY <2>1, <3>3
    <3>6. CliTypeOK'
      BY <2>0, <2>1, <3>4, <3>5
    <3>7. OptionsOwned'
      BY <3>4, <3>5 DEF OptionsOwned, Held
    <3>8. Unsplit' /\ Checked'
      BY <2>0, <2>1, <3>5 DEF Unsplit, Checked, Fields
    <3> QED
      BY <3>6, <3>7, <3>8
  <2>2. CASE port' = [p \in Ports |-> DefaultPort] /\ parse' = "options" /\ UNCHANGED <<value, heap>>
    <3>1. CliTypeOK'
      BY <2>0, <2>2, PortsKnown
    <3>2. OptionsOwned' /\ Unsplit'
      BY <2>0, <2>2 DEF OptionsOwned, Held, Unsplit
    <3>3. Checked'
      BY <2>2, PortsKnown DEF Checked
    <3> QED
      BY <3>1, <3>2, <3>3
  <2> QED
    BY <1>1, <2>1, <2>2 DEF InitDefaults
<1>2. CASE StringOption
  <2>0. PICK f \in Given : \E v \in ValuesOf(f) :
          /\ value' = [value EXCEPT ![f] = v]
          /\ heap' = [heap EXCEPT ![f] = @ + 1 - Freed(f)]
          /\ loginGiven' = (loginGiven \/ f = "login")
    BY <1>2 DEF StringOption
  <2>1. PICK v \in ValuesOf(f) :
          /\ value' = [value EXCEPT ![f] = v]
          /\ heap' = [heap EXCEPT ![f] = @ + 1 - Freed(f)]
          /\ loginGiven' = (loginGiven \/ f = "login")
    BY <2>0
  <2>2. f \in Fields /\ f \in Owned /\ v # "null"
    BY <1>0, ValuesKnown
  <2>3. heap[f] = Freed(f) /\ Freed(f) \in Int
    BY <2>2 DEF OptionsOwned, Freed, Held
  <2>4. CliTypeOK'
    <3>1. DOMAIN value' = Owned /\ heap' \in [Owned -> Int]
      BY <2>1, <2>2, <2>3
    <3>2. port' \in [Ports -> 0..MaxPort] /\ loginGiven' \in BOOLEAN /\ count' \in 0..MaxOptions
      BY <1>2, <2>1 DEF StringOption
    <3>3. parse' = parse
      BY <1>2 DEF StringOption
    <3> QED
      BY <3>1, <3>2, <3>3
  <2>5. OptionsOwned'
    BY <2>1, <2>2, <2>3 DEF OptionsOwned, Held
  <2>6. Unsplit' /\ Checked'
    BY <1>2, <2>1, <2>2 DEF StringOption, Unsplit, Checked, Fields
  <2> QED
    BY <2>4, <2>5, <2>6
<1>3. CASE PortOption
  BY <1>3, PortsKnown DEF PortOption, InRange, OptionsOwned, Held, Unsplit, Checked
<1>4. CASE BadOption \/ DefaultFails
  <2>0. Fail
    BY <1>4 DEF BadOption, DefaultFails
  <2>1. CliTypeOK'
    <3>1. DOMAIN value' = Owned /\ heap' \in [Owned -> Int]
      BY <2>0 DEF Fail, Freed, Held
    <3>2. port' \in [Ports -> 0..MaxPort]
      BY <2>0, PortsKnown DEF Fail
    <3> QED
      BY <2>0, <3>1, <3>2 DEF Fail
  <2>2. OptionsOwned'
    BY <2>0 DEF Fail, FreedFields, Fields, Freed, OptionsOwned, Held
  <2> QED
    BY <2>0, <2>1, <2>2 DEF Fail, Unsplit, Checked
<1>5. CASE HelpOption
  BY <1>5 DEF HelpOption, OptionsOwned, Held, Unsplit, Checked
<1>6. CASE EndOfOptions
  BY <1>6 DEF EndOfOptions, OptionsOwned, Held, Unsplit, Checked
<1>7. CASE SplitDevice
  <2>1. CliTypeOK' /\ OptionsOwned'
    BY <1>7 DEF SplitDevice, OptionsOwned, Held
  <2>2. CASE value["device_info"] \notin {"default", "nine"}
    <3>1. parse' = "failed"
      BY <1>7, <2>2 DEF SplitDevice
    <3> QED
      BY <2>1, <3>1 DEF Unsplit, Checked
  <2>3. CASE value["device_info"] \in {"default", "nine"} /\ loginGiven
    BY <1>7, <2>1, <2>3 DEF SplitDevice, Unsplit, Checked
  <2>4. CASE value["device_info"] \in {"default", "nine"} /\ ~loginGiven
    BY <1>7, <2>1, <2>4 DEF SplitDevice, Unsplit, Checked, Usable
  <2> QED
    BY <2>2, <2>3, <2>4
<1>8. {"login_apple_id", "login_password", "device_info", "password_file"} \subseteq Owned
  BY DEF Owned, Fields
<1>9. CASE CopyName
  <2>1. heap["login_apple_id"] = 0 /\ parse = "login" /\ UNCHANGED <<port, loginGiven, count>>
    BY <1>8, <1>9 DEF CopyName, OptionsOwned, Held, Unsplit
  <2>2. CASE /\ value' = [value EXCEPT !["login_apple_id"] = "id"]
             /\ heap' = [heap EXCEPT !["login_apple_id"] = @ + 1]
             /\ parse' \in {"check", "credentials"}
    <3>1. CliTypeOK' /\ OptionsOwned'
      BY <1>8, <2>1, <2>2 DEF OptionsOwned, Held
    <3>2. Unsplit' /\ Checked'
      BY <1>8, <2>1, <2>2 DEF Unsplit, Checked
    <3> QED
      BY <3>1, <3>2
  <2>3. CASE parse' = "failed" /\ UNCHANGED <<value, heap>>
    BY <2>1, <2>3 DEF OptionsOwned, Held, Unsplit, Checked
  <2> QED
    BY <1>9, <2>2, <2>3 DEF CopyName
<1>10. CASE CopyPassword
  <2>1. /\ value["login_password"] = "null" /\ heap["login_password"] = 0
        /\ value["login_apple_id"] # "null" /\ heap["login_apple_id"] = 1
        /\ parse = "credentials" /\ UNCHANGED <<port, loginGiven, count>>
    BY <1>8, <1>10 DEF CopyPassword, OptionsOwned, Held, Unsplit
  <2>2. CASE /\ value' = [value EXCEPT !["login_password"] = "password"]
             /\ heap' = [heap EXCEPT !["login_password"] = @ + 1]
             /\ parse' = "check"
    <3>1. CliTypeOK' /\ OptionsOwned'
      BY <1>8, <2>1, <2>2 DEF OptionsOwned, Held
    <3>2. Unsplit' /\ Checked'
      BY <1>8, <2>1, <2>2 DEF Unsplit, Checked
    <3> QED
      BY <3>1, <3>2
  <2>3. CASE /\ heap' = [heap EXCEPT !["login_apple_id"] = @ - Freed("login_apple_id")]
             /\ value' = [value EXCEPT !["login_apple_id"] = "null"]
             /\ parse' = "failed"
    <3>1. Freed("login_apple_id") = 1
      BY <2>1 DEF Freed, Held
    <3> QED
      BY <1>8, <2>1, <2>3, <3>1 DEF OptionsOwned, Held, Unsplit, Checked
  <2> QED
    BY <1>10, <2>2, <2>3 DEF CopyPassword
<1>11. CASE CheckLogin
  <2>1. parse' \in {"parsed", "failed"} /\ (parse' = "parsed" => PasswordKnown)
    BY <1>11 DEF CheckLogin
  <2>2. parse = "check" /\ UNCHANGED <<value, heap, port, loginGiven, count>>
    BY <1>11 DEF CheckLogin
  <2>3. CliTypeOK' /\ OptionsOwned' /\ Unsplit'
    BY <2>1, <2>2 DEF OptionsOwned, Held, Unsplit
  <2>4. Checked'
    BY <2>1, <2>2 DEF Checked, Unsplit, Usable, PasswordKnown
  <2> QED
    BY <2>3, <2>4
<1> QED
  BY <1>1, <1>2, <1>3, <1>4, <1>5, <1>6, <1>7, <1>9, <1>10, <1>11 DEF CliStep

-----------------------------------------------------------------------------
(* The start as a whole *)

CoreInv ==
  /\ stage \in Stages /\ nullName \in BOOLEAN
  /\ stage # "parse" => parse = "parsed"
  /\ nullName => stage # "parse" /\ ~loginGiven /\ value["password_file"] # "null"

Inv == CurlInv /\ LaunchInv /\ CliInv /\ CoreInv

LEMMA Starts == Init => Inv
BY CurlStarts, LaunchStarts, CliStarts DEF Init, Inv, CoreInv, Stages

LEMMA CurlStays ==
  CurlInv /\ UNCHANGED curlVars => CurlInv'
BY DEF CurlInv, CurlTypeOK, NowhereInv, NamedInv, AloneInv, FoundInv, Found,
       ForwardsToLibcurl, curlVars

LEMMA LaunchStays ==
  LaunchInv /\ UNCHANGED launchVars => LaunchInv'
BY DEF LaunchInv, LaunchTypeOK, OutlivesCore, launchVars

LEMMA CliStays ==
  CliInv /\ UNCHANGED cliVars => CliInv'
BY DEF CliInv, CliTypeOK, OptionsOwned, Held, Unsplit, Checked, Usable, cliVars

LEMMA CoreStays ==
  CoreInv /\ UNCHANGED <<cliVars, coreVars>> => CoreInv'
BY DEF CoreInv, cliVars, coreVars

\* A step of main: the launcher's part changes only by main's end.
LEMMA CoreKept ==
  ASSUME Inv, Core
  PROVE  Inv'
<1> USE DEF Inv
<1>1. CASE ParseOptions
  <2>1. CliInv'
    BY <1>1, CliKept DEF ParseOptions
  <2>2. CoreInv'
    BY <1>1 DEF ParseOptions, CoreInv, coreVars
  <2> QED
    BY <1>1, <2>1, <2>2, CurlStays, LaunchStays DEF ParseOptions
<1>2. CASE NoService
  <2>1. LaunchInv'
    BY <1>2, CoreEndsKept, EndsOfCore DEF NoService, Fails
  <2> QED
    BY <1>2, <2>1, CurlStays, CliStays, CoreStays DEF NoService
<1>3. CASE InitializeWrapper
  <2>1. LaunchInv'
    BY <1>3, CoreEndsKept, EndsOfCore, LaunchStays DEF InitializeWrapper, Fails
  <2>2. CoreInv'
    BY <1>3 DEF InitializeWrapper, CoreInv, Stages, cliVars
  <2> QED
    BY <1>3, <2>1, <2>2, CurlStays, CliStays DEF InitializeWrapper
<1>4. CASE LoginEnds
  <2>1. LaunchInv'
    BY <1>4, CoreEndsKept, EndsOfCore, LaunchStays DEF LoginEnds, Fails
  <2>2. CoreInv'
    BY <1>4 DEF LoginEnds, MainAt, CoreInv, Stages, cliVars
  <2> QED
    BY <1>4, <2>1, <2>2, CurlStays, CliStays DEF LoginEnds
<1>5. CASE StartLease \/ TokensAsked
  <2>1. CoreInv'
    <3>1. CASE StartLease
      BY <1>5, <3>1 DEF StartLease, MainAt, CoreInv, Stages, cliVars
    <3>2. CASE TokensAsked
      BY <1>5, <3>2 DEF TokensAsked, MainAt, CoreInv, Stages, cliVars
    <3> QED
      BY <1>5, <3>1, <3>2
  <2> QED
    BY <1>5, <2>1, CurlStays, LaunchStays, CliStays DEF StartLease, TokensAsked
<1>6. CASE ReadyEnds
  <2>1. LaunchInv'
    BY <1>6, CoreEndsKept, EndsOfCore DEF ReadyEnds, Fails
  <2> QED
    BY <1>6, <2>1, CurlStays, CliStays, CoreStays DEF ReadyEnds
<1>7. ASSUME NEW t \in Threads, Configure(t) PROVE Inv'
  <2>1. CurlInv'
    BY <1>7, CurlKept DEF Configure
  <2> QED
    BY <1>7, <2>1, LaunchStays, CliStays, CoreStays DEF Configure
<1>8. CASE StackOverflow
  <2>1. LaunchInv'
    BY <1>8, CoreEndsKept, EndsOfCore DEF StackOverflow
  <2> QED
    BY <1>8, <2>1, CurlStays, CliStays, CoreStays DEF StackOverflow
<1>9. CASE Credentials
  <2>1. LaunchInv'
    BY <1>9, CoreEndsKept, EndsOfCore, LaunchStays DEF Credentials, Fails
  <2>2. parse = "parsed" /\ Usable
    BY <1>9 DEF Credentials, CoreInv, CliInv, Checked
  <2>3. CliInv' /\ CoreInv'
    <3>1. CASE UNCHANGED <<value, heap, nullName>>
      BY <1>9, <3>1, CliStays, CoreStays DEF Credentials, cliVars, coreVars
    <3>2. CASE /\ HasPassword
               /\ value' = [value EXCEPT !["login_password"] = "password"]
               /\ heap' = [heap EXCEPT !["login_password"] = 1]
               /\ nullName' = (value["login_apple_id"] = "null")
      <4>1. CliInv'
        BY <1>9, <2>2, <3>2
        DEF Credentials, CliInv, CliTypeOK, OptionsOwned, Held, Owned, Unsplit, Checked, Usable,
            HasPassword
      <4>2. CoreInv'
        BY <1>9, <2>2, <3>2
        DEF Credentials, CoreInv, CliInv, CliTypeOK, Owned, Fields, Usable, HasPassword
      <4> QED
        BY <4>1, <4>2
    <3> QED
      BY <1>9, <3>1, <3>2 DEF Credentials
  <2> QED
    BY <1>9, <2>1, <2>3, CurlStays DEF Credentials
<1> QED
  BY <1>1, <1>2, <1>3, <1>4, <1>5, <1>6, <1>7, <1>8, <1>9 DEF Core

LEMMA Kept == Inv /\ [Next]_vars => Inv'
<1> SUFFICES ASSUME Inv, [Next]_vars PROVE Inv'
  OBVIOUS
<1>1. CASE Core
  BY <1>1, CoreKept
<1>2. CASE Launch \/ Child \/ Signal
  <2>1. LaunchInv'
    BY <1>2, LaunchKept DEF Inv, Launch, Child, Signal
  <2> QED
    BY <1>2, <2>1, CurlStays, CliStays, CoreStays DEF Inv, Launch, Child, Signal
<1>3. CASE UNCHANGED vars
  BY <1>3, CurlStays, LaunchStays, CliStays, CoreStays DEF Inv, vars
<1> QED
  BY <1>1, <1>2, <1>3 DEF Next

THEOREM Invariance == Spec => []Inv
BY Starts, Kept, PTL DEF Spec

\* Every variable of the start keeps to its type.
THEOREM TypeCorrect == Spec => []TypeOK
<1>1. Inv => TypeOK
  BY DEF Inv, CurlInv, LaunchInv, CliInv, CoreInv, TypeOK
<1> QED
  BY <1>1, Invariance, PTL

\* An option of the runtime is lost, or recursed on, only where the name does
\* not find libcurl and two threads looked for it at once, or nothing finds it.
THEOREM CurlForwards == Spec => []ForwardsToLibcurl
<1>1. Inv => ForwardsToLibcurl
  BY DEF Inv, CurlInv
<1> QED
  BY <1>1, Invariance, PTL

\* Each string of the command line has one block while it is set and none else,
\* whichever copy of init_defaults, of an option or of the login fails.
THEOREM OptionsCorrect == Spec => []OptionsOwned
<1>1. Inv => OptionsOwned
  BY DEF Inv, CliInv
<1> QED
  BY <1>1, Invariance, PTL

\* main starts with ports that exist, a whole device info, and what a login needs.
THEOREM UsableStart == Spec => []StartsUsable
<1>1. Inv => StartsUsable
  BY DEF Inv, CliInv, CoreInv, Checked, Usable, StartsUsable
<1> QED
  BY <1>1, Invariance, PTL

\* The missing apple id is only ever met with a password file and no login.
THEOREM NullName == Spec => []NullNameNeedsFile
<1>1. Inv => NullNameNeedsFile
  BY DEF Inv, CoreInv, NullNameNeedsFile
<1> QED
  BY <1>1, Invariance, PTL

\* The launcher's exit status is that of the wrapper-core it has waited for.
THEOREM LauncherOutlives == Spec => []OutlivesCore
<1>1. Inv => OutlivesCore
  BY DEF Inv, LaunchInv
<1> QED
  BY <1>1, Invariance, PTL
=============================================================================
