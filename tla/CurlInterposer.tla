--------------------------- MODULE CurlInterposer ---------------------------
(***************************************************************************)
(* curl_easy_setopt of wrapper-core, which the runtime's HTTP client calls *)
(* in place of libcurl's (server.c): it finds libcurl's own function once, *)
(* without synchronisation, and passes the option on.  CMakeLists.txt      *)
(* builds wrapper-core as Debug unless told otherwise, so each read of the *)
(* two static pointers is a read of memory, and another thread may have    *)
(* written in between.  Which options are changed on the way is left out.  *)
(***************************************************************************)
EXTENDS Integers

CONSTANTS Threads   \* the threads of the process that configure a transfer

VARIABLES
  libcurl,   \* what finds libcurl.so: its "name", only its "path", or nothing
  handle,    \* curl_lib_handle: "null" or "libcurl"
  realFn,    \* real_curl_easy_setopt: "null", "libcurl" or "itself"
  cpc,       \* where each thread is in curl_easy_setopt; "idle" outside
  fn,        \* the function each thread has found
  dropped,   \* some option was dropped: no function was found
  itself,    \* curl_easy_setopt called itself, and will until the stack ends
  overlap    \* two threads have been looking for libcurl at the same time

curlVars == <<libcurl, handle, realFn, cpc, fn, dropped, itself, overlap>>

Searching == {"handle", "name", "named", "path", "check", "argument", "store"}

CurlTypeOK ==
  /\ libcurl \in {"name", "path", "nowhere"}
  /\ handle \in {"null", "libcurl"}
  /\ realFn \in {"null", "libcurl", "itself"}
  /\ cpc \in [Threads -> {"idle", "enter", "return", "forward"} \cup Searching]
  /\ fn \in [Threads -> {"null", "libcurl", "itself"}]
  /\ dropped \in BOOLEAN /\ itself \in BOOLEAN /\ overlap \in BOOLEAN

CurlInit ==
  /\ libcurl \in {"name", "path", "nowhere"}
  /\ handle = "null" /\ realFn = "null"
  /\ cpc = [t \in Threads |-> "idle"]
  /\ fn = [t \in Threads |-> "null"]
  /\ dropped = FALSE /\ itself = FALSE /\ overlap = FALSE

CurlCall(t) ==
  /\ cpc[t] = "idle"
  /\ cpc' = [cpc EXCEPT ![t] = "enter"]
  /\ UNCHANGED <<libcurl, handle, realFn, fn, dropped, itself, overlap>>

\* The first test: the function was found before.
Enter(t) ==
  /\ cpc[t] = "enter"
  /\ cpc' = [cpc EXCEPT ![t] = IF realFn # "null" THEN "return" ELSE "handle"]
  /\ overlap' = (overlap \/ \E u \in Threads \ {t} : cpc[u] \in Searching)
  /\ UNCHANGED <<libcurl, handle, realFn, fn, dropped, itself>>

Dlopen(found) == IF found THEN "libcurl" ELSE "null"

OpenName(t) ==
  /\ cpc[t] = "name"
  /\ handle' = Dlopen(libcurl = "name")
  /\ cpc' = [cpc EXCEPT ![t] = "named"]
  /\ UNCHANGED <<libcurl, realFn, fn, dropped, itself, overlap>>

OpenPath(t) ==
  /\ cpc[t] = "path"
  /\ handle' = Dlopen(libcurl # "nowhere")
  /\ cpc' = [cpc EXCEPT ![t] = "check"]
  /\ UNCHANGED <<libcurl, realFn, fn, dropped, itself, overlap>>

\* The handle is read before the first dlopen and again after each.
Read(t) ==
  /\ \/ /\ cpc[t] = "handle"
        /\ cpc' = [cpc EXCEPT ![t] = IF handle = "null" THEN "name" ELSE "check"]
        /\ UNCHANGED fn
     \/ /\ cpc[t] = "named"
        /\ cpc' = [cpc EXCEPT ![t] = IF handle = "null" THEN "path" ELSE "check"]
        /\ UNCHANGED fn
     \/ /\ cpc[t] = "check"
        /\ cpc' = [cpc EXCEPT ![t] = IF handle = "null" THEN "forward" ELSE "argument"]
        /\ fn' = [fn EXCEPT ![t] = "null"]
  /\ UNCHANGED <<libcurl, handle, realFn, dropped, itself, overlap>>

\* A handle that became NULL again is RTLD_DEFAULT to dlsym, and the first
\* curl_easy_setopt of the process is the one wrapper-core exports.
Lookup_Default(h) == "itself"

Lookup(h) == IF h = "null" THEN "itself" ELSE "libcurl"

Dlsym(t) ==
  /\ cpc[t] = "argument"
  /\ fn' = [fn EXCEPT ![t] = Lookup(handle)]
  /\ cpc' = [cpc EXCEPT ![t] = "store"]
  /\ UNCHANGED <<libcurl, handle, realFn, dropped, itself, overlap>>

Store(t) ==
  /\ cpc[t] = "store"
  /\ realFn' = fn[t]
  /\ cpc' = [cpc EXCEPT ![t] = "return"]
  /\ UNCHANGED <<libcurl, handle, fn, dropped, itself, overlap>>

Return(t) ==
  /\ cpc[t] = "return"
  /\ fn' = [fn EXCEPT ![t] = realFn]
  /\ cpc' = [cpc EXCEPT ![t] = "forward"]
  /\ UNCHANGED <<libcurl, handle, realFn, dropped, itself, overlap>>

\* Without a function the option is dropped, and the caller is told it is set.
Forward(t) ==
  /\ cpc[t] = "forward" /\ ~itself
  /\ dropped' = (dropped \/ fn[t] = "null")
  /\ itself' = (fn[t] = "itself")
  /\ cpc' = [cpc EXCEPT ![t] = IF itself' THEN "forward" ELSE "idle"]
  /\ UNCHANGED <<libcurl, handle, realFn, fn, overlap>>

CurlStep(t) ==
  \/ Enter(t) \/ OpenName(t) \/ OpenPath(t) \/ Read(t)
  \/ Dlsym(t) \/ Store(t) \/ Return(t) \/ Forward(t)

(***************************************************************************)
(* An option that the runtime sets reaches libcurl.  It may be lost only   *)
(* where libcurl is not found at all, or where the name does not find it   *)
(* and two threads looked for it at the same time: then the second one     *)
(* puts NULL over the handle the first one has from the path, and the      *)
(* first one goes on with NULL.                                            *)
(***************************************************************************)
ForwardsToLibcurl ==
  /\ dropped => libcurl = "nowhere" \/ (libcurl = "path" /\ overlap)
  /\ itself => libcurl = "path" /\ overlap
=============================================================================
