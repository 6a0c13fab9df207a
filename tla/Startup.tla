------------------------------- MODULE Startup ------------------------------
(***************************************************************************)
(* A container from docker run to "account ready": the launcher            *)
(* (Launcher.tla) starts wrapper-core, whose main reads its options        *)
(* (CliOptions.tla), logs in, starts the lease manager and asks for the    *)
(* tokens.  From the lease on the runtime has a thread of its own that may *)
(* configure transfers while main does (CurlInterposer.tla).  A signal can *)
(* come at any moment.  What main does afterwards is Server.tla.           *)
(***************************************************************************)
EXTENDS CurlInterposer, Launcher, CliOptions

ASSUME StartupAssumption == Threads = {"main", "lease"}

VARIABLES
  stage,     \* where main of wrapper-core is
  nullName   \* a response was given the NULL of a missing apple id as a name

coreVars == <<stage, nullName>>
vars == <<curlVars, launchVars, cliVars, coreVars>>

Stages == {"parse", "login", "lease", "tokens", "ready"}

TypeOK ==
  /\ CurlTypeOK /\ LaunchTypeOK /\ CliTypeOK
  /\ stage \in Stages
  /\ nullName \in BOOLEAN

Init ==
  /\ CurlInit /\ LaunchInit /\ CliInit
  /\ stage = "parse" /\ nullName = FALSE

-----------------------------------------------------------------------------
(* main of wrapper-core *)

Fails == CoreEnds(Exited(1))

ParseOptions ==
  /\ child = "core" /\ stage = "parse"
  /\ CliStep
  /\ UNCHANGED <<curlVars, launchVars, coreVars>>

NoService ==
  /\ stage = "parse"
  /\ \/ parse = "failed" /\ Fails
     \/ parse = "help" /\ CoreEnds(Exited(0))
  /\ UNCHANGED <<curlVars, cliVars, coreVars>>

\* initialize_wrapper sets the runtime up, and create_request_context exits when
\* it has no memory; then main logs in if it was told to.
InitializeWrapper ==
  /\ child = "core" /\ stage = "parse" /\ parse = "parsed"
  /\ \/ /\ stage' = IF loginGiven THEN "login" ELSE "lease"
        /\ UNCHANGED launchVars
     \/ Fails /\ UNCHANGED stage
  /\ UNCHANGED <<curlVars, cliVars, nullName>>

\* The request of a stage has returned: main configures no transfer.
MainAt(s) == child = "core" /\ stage = s /\ cpc["main"] = "idle"

LoginEnds ==
  /\ MainAt("login")
  /\ \/ stage' = "lease" /\ UNCHANGED launchVars
     \/ Fails /\ UNCHANGED stage
  /\ UNCHANGED <<curlVars, cliVars, nullName>>

\* The lease manager starts refreshing the lease on its own.
StartLease ==
  /\ MainAt("lease")
  /\ stage' = "tokens"
  /\ UNCHANGED <<curlVars, launchVars, cliVars, nullName>>

\* get_dev_token and get_music_user_token return, with a token or with NULL:
\* main goes on either way.
TokensAsked ==
  /\ MainAt("tokens")
  /\ stage' = "ready"
  /\ UNCHANGED <<curlVars, launchVars, cliVars, nullName>>

\* The end of a wrapper-core that got this far, by return or by a signal.
ReadyEnds ==
  /\ stage = "ready"
  /\ Fails \/ CoreEnds(Signalled(13))
  /\ UNCHANGED <<curlVars, cliVars, coreVars>>

-----------------------------------------------------------------------------
(* The runtime *)

Transfers(t) ==
  IF t = "main" THEN stage \in {"login", "tokens"}
                ELSE stage \in {"tokens", "ready"}

Configure(t) ==
  /\ child = "core"
  /\ (Transfers(t) /\ CurlCall(t)) \/ CurlStep(t)
  /\ UNCHANGED <<launchVars, cliVars, coreVars>>

StackOverflow ==
  /\ itself
  /\ CoreEnds(Signalled(11))
  /\ UNCHANGED <<curlVars, cliVars, coreVars>>

HasPassword_Ignored == TRUE

\* ensure_login_password_loaded can succeed.
HasPassword == value["login_password"] # "null" \/ value["password_file"] # "null"

\* Once there is a request context the runtime may ask for credentials whether
\* or not --login was given (credential_handler; LoginFlow.tla has the codes).
\* new_std_string takes the length of a NULL name.
Credentials ==
  /\ child = "core" /\ stage # "parse"
  /\ \/ /\ value["login_password"] = "null"    \* no file, no text in it, no memory
        /\ Fails
        /\ UNCHANGED <<value, heap, nullName>>
     \/ /\ HasPassword
        /\ value' = [value EXCEPT !["login_password"] = "password"]
        /\ heap' = [heap EXCEPT !["login_password"] = 1]
        /\ nullName' = (value["login_apple_id"] = "null")
        /\ IF nullName' THEN CoreEnds(Signalled(11)) ELSE UNCHANGED launchVars
  /\ UNCHANGED <<curlVars, parse, port, loginGiven, count, stage>>

-----------------------------------------------------------------------------

Launch == LauncherStep /\ UNCHANGED <<curlVars, cliVars, coreVars>>

Child == (ChildStores \/ Exec) /\ UNCHANGED <<curlVars, cliVars, coreVars>>

Signal == (StopSignal \/ ChildInterrupted) /\ UNCHANGED <<curlVars, cliVars, coreVars>>

Core ==
  \/ ParseOptions \/ NoService \/ InitializeWrapper \/ LoginEnds \/ StartLease
  \/ TokensAsked \/ ReadyEnds
  \/ (\E t \in Threads : Configure(t)) \/ StackOverflow \/ Credentials

Next == Launch \/ Child \/ Signal \/ Core

Spec == Init /\ [][Next]_vars

\* The launcher is scheduled; nothing is assumed of wrapper-core or of signals.
FairSpec == Spec /\ WF_vars(Launch)

-----------------------------------------------------------------------------

\* Whatever the options were, main goes on only with ports that exist, with all
\* of the device info, and with a name and a way to a password if it has to log in.
StartsUsable ==
  stage # "parse" =>
    /\ \A p \in Ports : port[p] \in 1..MaxPort
    /\ value["device_info"] \in {"default", "nine"}
    /\ loginGiven =>
         /\ value["login_apple_id"] # "null"
         /\ value["login_password"] # "null" \/ value["password_file"] # "null"

\* A request for credentials meets a missing apple id only when a password file
\* was given without a login: without both, the missing password ends the
\* process first.
NullNameNeedsFile == nullName => ~loginGiven /\ value["password_file"] # "null"
=============================================================================
