----------------------------- MODULE CliOptions -----------------------------
(***************************************************************************)
(* The command line of wrapper-core (parser.c) and the strings main makes  *)
(* of it before anything else runs (server.c): every option that takes a   *)
(* text is a heap copy, replaced when the option is repeated and freed     *)
(* when parsing fails.  A text is a member of a small set; of the device   *)
(* info only the number of its fields matters, of the login its shape.     *)
(***************************************************************************)
EXTENDS Integers

CONSTANTS
  Ports,        \* the ports that may be set: decrypt, m3u8 and account in full
  Given,        \* the texts that may be given: Fields in full
  MaxOptions    \* bound of the model: options on the command line

VARIABLES
  parse,       \* where cli_options_parse, or main after it, is
  value,       \* each owned string: "null", "default" or what it copies
  heap,        \* live heap blocks allocated for each owned string
  port,        \* each port, 0 once the options are cleared
  loginGiven,  \* options.login_given
  count        \* options read so far, for MaxOptions

cliVars == <<parse, value, heap, port, loginGiven, count>>

Fields == {"host", "proxy", "login", "password_file", "data_dir", "device_info"}

\* The strings with a default, in the order in which init_defaults copies them.
Defaulted == <<"host", "proxy", "data_dir", "device_info">>

Owned == Fields \cup {"login_apple_id", "login_password"}
DefaultPort == 20020
MaxPort == 65535

ASSUME CliAssumption == Given \subseteq Fields /\ MaxOptions \in Nat

\* "nine" is 9 fields between slashes; empty fields do not count (strtok_r).
ValuesOf(f) ==
  CASE f = "login" -> {"id", "id:password", "id:", ":password", ""}
    [] f = "device_info" -> {"nine", "not nine"}
    [] OTHER -> {"text"}

CliTypeOK ==
  /\ parse \in {"defaults", "options", "device", "login", "credentials", "check",
               "parsed", "failed", "help"}
  /\ DOMAIN value = Owned /\ heap \in [Owned -> Int]
  /\ port \in [Ports -> 0..MaxPort]
  /\ loginGiven \in BOOLEAN /\ count \in 0..MaxOptions

CliInit ==
  /\ parse = "defaults"
  /\ value = [f \in Owned |-> "null"]
  /\ heap = [f \in Owned |-> 0]
  /\ port = [p \in Ports |-> 0]
  /\ loginGiven = FALSE /\ count = 0

Held(f) == IF value[f] = "null" THEN 0 ELSE 1

-----------------------------------------------------------------------------
(* cli_options_parse *)

\* free() of a string; nothing happens to NULL.
Freed(f) == Held(f)

FreedFields_NoDevice == Fields \ {"device_info"}

\* What cli_options_free passes to free, one by one.
FreedFields == {"host", "proxy", "login", "password_file", "data_dir", "device_info"}

\* cli_options_free and the return of -1; main returns EXIT_FAILURE.
Fail ==
  /\ parse' = "failed"
  /\ heap' = [f \in Owned |-> IF f \in FreedFields THEN heap[f] - Freed(f) ELSE heap[f]]
  /\ value' = [f \in Owned |-> IF f \in Fields THEN "null" ELSE value[f]]
  /\ port' = [p \in Ports |-> 0]
  /\ loginGiven' = FALSE /\ UNCHANGED count

\* init_defaults has its first i copies and no more.
Copied(i) == \A j \in 1..4 : value[Defaulted[j]] # "null" <=> j =< i

\* init_defaults: one copy after the other, then the ports.
InitDefaults ==
  /\ parse = "defaults"
  /\ \/ \E i \in 1..4 :
          /\ Copied(i - 1)
          /\ value' = [value EXCEPT ![Defaulted[i]] = "default"]
          /\ heap' = [heap EXCEPT ![Defaulted[i]] = @ + 1]
          /\ UNCHANGED <<port, parse>>
     \/ /\ Copied(4)
        /\ port' = [p \in Ports |-> DefaultPort]
        /\ parse' = "options"
        /\ UNCHANGED <<value, heap>>
  /\ UNCHANGED <<loginGiven, count>>

\* Any of the copies may fail; those before it are freed again.
DefaultFails == parse = "defaults" /\ ~Copied(4) /\ Fail

\* set_string_option: the old string is freed once there is a copy of the new.
StringOption ==
  /\ parse = "options" /\ count < MaxOptions
  /\ \E f \in Given : \E v \in ValuesOf(f) :
       /\ value' = [value EXCEPT ![f] = v]
       /\ heap' = [heap EXCEPT ![f] = @ + 1 - Freed(f)]
       /\ loginGiven' = (loginGiven \/ f = "login")
  /\ count' = count + 1
  /\ UNCHANGED <<parse, port>>

\* What parse_int_option accepts.
InRange(n) == 1 =< n /\ n =< MaxPort

PortOption ==
  /\ parse = "options" /\ count < MaxOptions
  /\ \E p \in Ports, n \in {0, 1, MaxPort, MaxPort + 1} :
       InRange(n) /\ port' = [port EXCEPT ![p] = n]
  /\ count' = count + 1
  /\ UNCHANGED <<parse, value, heap, loginGiven>>

\* A copy that cannot be made, a port out of range, a value that is missing, an
\* option nobody knows, an argument that is left over.
BadOption == parse = "options" /\ Fail

\* --help and --version end the process with 0.
HelpOption ==
  /\ parse = "options"
  /\ parse' = "help"
  /\ UNCHANGED <<value, heap, port, loginGiven, count>>

EndOfOptions ==
  /\ parse = "options"
  /\ parse' = "device"
  /\ count' = 0
  /\ UNCHANGED <<value, heap, port, loginGiven>>

-----------------------------------------------------------------------------
(* main *)

\* The fields point into options.device_info, which nobody frees.
SplitDevice ==
  /\ parse = "device"
  /\ parse' = IF value["device_info"] \notin {"default", "nine"} THEN "failed"
              ELSE IF loginGiven THEN "login" ELSE "parsed"
  /\ UNCHANGED <<value, heap, port, loginGiven, count>>

PasswordKnown_Unchecked == TRUE

\* The last check of main: --login needs one of the two ways to a password.
PasswordKnown == value["login_password"] # "null" \/ value["password_file"] # "null"

\* parse_login_credentials: the copy of what comes before the colon, if anything
\* does and there is memory for it.
CopyName ==
  /\ parse = "login"
  /\ \/ /\ value["login"] \in {"id", "id:", "id:password"}
        /\ value' = [value EXCEPT !["login_apple_id"] = "id"]
        /\ heap' = [heap EXCEPT !["login_apple_id"] = @ + 1]
        /\ parse' = IF value["login"] = "id" THEN "check" ELSE "credentials"
     \/ /\ parse' = "failed"
        /\ UNCHANGED <<value, heap>>
  /\ UNCHANGED <<port, loginGiven, count>>

\* ... and of what comes after it; without one the name is freed.
CopyPassword ==
  /\ parse = "credentials"
  /\ \/ /\ value["login"] = "id:password"
        /\ value' = [value EXCEPT !["login_password"] = "password"]
        /\ heap' = [heap EXCEPT !["login_password"] = @ + 1]
        /\ parse' = "check"
     \/ /\ heap' = [heap EXCEPT !["login_apple_id"] = @ - Freed("login_apple_id")]
        /\ value' = [value EXCEPT !["login_apple_id"] = "null"]
        /\ parse' = "failed"
  /\ UNCHANGED <<port, loginGiven, count>>

CheckLogin ==
  /\ parse = "check"
  /\ parse' = IF PasswordKnown THEN "parsed" ELSE "failed"
  /\ UNCHANGED <<value, heap, port, loginGiven, count>>

CliStep ==
  \/ InitDefaults \/ DefaultFails
  \/ StringOption \/ PortOption \/ BadOption \/ HelpOption \/ EndOfOptions
  \/ SplitDevice \/ CopyName \/ CopyPassword \/ CheckLogin

-----------------------------------------------------------------------------

(***************************************************************************)
(* Each string has exactly one block while it is set and none while it is  *)
(* NULL: repeated options, a default or an option that cannot be copied    *)
(* after others were, and a login that is turned down after its name was   *)
(* copied neither leak nor free anything twice.                            *)
(***************************************************************************)
OptionsOwned == \A f \in Owned : heap[f] = Held(f)

=============================================================================
