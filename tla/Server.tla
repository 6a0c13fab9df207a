------------------------------- MODULE Server -------------------------------
(***************************************************************************)
(* wrapper-core as one process (main in server.c): the main thread caches  *)
(* and saves the account data, opens the three listeners, starts the m3u8  *)
(* and the account thread and then serves the decrypt port itself.  The    *)
(* three services share nothing but the process: what ends one ends all.   *)
(***************************************************************************)
EXTENDS Integers, Sequences

CONSTANTS DecryptClients, M3u8Clients, AccountClients, Backlog, None,
          AdamIds, PreshareId, KeyUris, MaxSampleLen, MaxReplies,
          Ids, Bad, UrlLineLen, MaxRequests,
          BufferSize, HeaderLen, BodyLen

VARIABLES
  proc,       \* the process, as in Listener.tla
  boot,       \* where main is, up to serve_decrypt
  listening,  \* the services whose listening socket is open
  threads,    \* the services whose thread was started; it may have returned
  ready,      \* the account data is cached
  saved,      \* write_storefront_id and write_music_token have returned
  dpeer, dqueue, dconn, dtimeo, dpc,
  track, ctx, preshared, buf, replies, lost, leases,
  mpeer, mqueue, mconn, mtimeo, mpc,
  offline, asked, found, lines, dropped, strings, purchases,
  apeer, aqueue, aconn, atimeo, apc,
  total, root, status, header, body, cut, heap

D == INSTANCE DecryptService WITH Clients <- DecryptClients,
  peer <- dpeer, queue <- dqueue, conn <- dconn, timeo <- dtimeo, pc <- dpc
M == INSTANCE M3u8Service WITH Clients <- M3u8Clients,
  peer <- mpeer, queue <- mqueue, conn <- mconn, timeo <- mtimeo, pc <- mpc
A == INSTANCE AccountService WITH Clients <- AccountClients,
  peer <- apeer, queue <- aqueue, conn <- aconn, timeo <- atimeo, pc <- apc

ASSUME ServerAssumption ==
  /\ None \notin DecryptClients \cup M3u8Clients \cup AccountClients
  /\ None \notin D!Tracks \cup M!Urls \cup A!Statuses
  /\ Backlog \in Nat /\ MaxReplies \in Nat /\ MaxRequests \in Nat
  /\ PreshareId \in AdamIds /\ Bad \notin Ids
  /\ MaxSampleLen \in Nat \ {0} /\ UrlLineLen \in Nat \ {0, 1}
  /\ BufferSize \in Nat \ {0} /\ HeaderLen \in Nat \ {0} /\ BodyLen \in Nat \ {0}

bootVars == <<boot, listening, threads, ready, saved>>
dsession == <<track, ctx, preshared, buf, replies, lost, leases>>
msession == <<offline, asked, found, lines, dropped, strings, purchases>>
asession == <<total, root, status, header, body, cut, heap>>
dvars == <<dpeer, dqueue, dconn, dtimeo, dpc, dsession>>
mvars == <<mpeer, mqueue, mconn, mtimeo, mpc, msession>>
avars == <<apeer, aqueue, aconn, atimeo, apc, asession>>
services == <<dvars, mvars, avars>>
vars == <<proc, bootVars, services>>

Services == {"m3u8", "account", "decrypt"}

\* The steps of main before serve_decrypt, in their order; "fail" is the label.
Boots == {"cache", "save", "m3u8 socket", "account socket", "decrypt socket",
          "m3u8 thread", "account thread", "serving", "fail"}

\* The variables of main; the services have type invariants of their own.
TypeOK ==
  /\ boot \in Boots
  /\ listening \subseteq Services
  /\ threads \subseteq Services \ {"decrypt"}
  /\ ready \in BOOLEAN /\ saved \in BOOLEAN

Init ==
  /\ D!Init /\ M!Init /\ A!Init
  /\ boot = "cache"
  /\ listening = {} /\ threads = {}
  /\ ready = FALSE /\ saved = FALSE

-----------------------------------------------------------------------------
(* main *)

\* The sockets are opened before the data is saved.
AfterCache_Sockets == "m3u8 socket"

AfterCache == "save"

\* Login, lease, offline mode, storefront and tokens: "account ready".
Cache ==
  /\ boot = "cache" /\ proc = "up"
  /\ ready' = TRUE
  /\ boot' = AfterCache
  /\ UNCHANGED <<proc, listening, threads, saved, services>>

\* The login failed, or one of the calls before it: EXIT_FAILURE at once.
CacheFails ==
  /\ boot = "cache" /\ proc = "up"
  /\ proc' \in {"failed", "killed"}
  /\ UNCHANGED <<bootVars, services>>

\* Neither writer reports an error to main.
Save ==
  /\ boot = "save" /\ proc = "up"
  /\ saved' = TRUE
  /\ boot' = "m3u8 socket"
  /\ UNCHANGED <<proc, listening, threads, ready, services>>

\* create_listener_socket: from listen() on the kernel completes connections.
OpenSocket(service, here, next) ==
  /\ boot = here /\ proc = "up"
  /\ \/ listening' = listening \cup {service} /\ boot' = next
     \/ boot' = "fail" /\ UNCHANGED listening
  /\ UNCHANGED <<proc, threads, ready, saved, services>>

\* pthread_create and pthread_detach; the thread runs even if the latter fails.
StartThread(service, here, next) ==
  /\ boot = here /\ proc = "up"
  /\ \/ threads' = threads \cup {service} /\ boot' = next
     \/ threads' = threads \cup {service} /\ boot' = "fail"
     \/ boot' = "fail" /\ UNCHANGED threads
  /\ UNCHANGED <<proc, listening, ready, saved, services>>

\* The account thread is never started.
AfterM3u8Thread_Serve == "serving"

AfterM3u8Thread == "account thread"

\* The sockets in the order in which fail closes them.
CloseOrder == <<"m3u8", "account", "decrypt">>

\* fail: close what was opened and return; a thread that runs is cut short.
FailClose ==
  /\ boot = "fail" /\ proc = "up"
  /\ \E i \in 1..3 :
       /\ CloseOrder[i] \in listening
       /\ \A j \in 1..(i-1) : CloseOrder[j] \notin listening
       /\ listening' = listening \ {CloseOrder[i]}
  /\ UNCHANGED <<proc, boot, threads, ready, saved, services>>

\* main waits for the threads, which never return on their own.
FailReturn_Join ==
  /\ boot = "fail" /\ proc = "up" /\ listening = {} /\ threads = {}
  /\ proc' = "failed"
  /\ UNCHANGED <<bootVars, services>>

FailReturn ==
  /\ boot = "fail" /\ proc = "up" /\ listening = {}
  /\ proc' = "failed"
  /\ UNCHANGED <<bootVars, services>>

Main ==
  \/ Cache \/ CacheFails \/ Save
  \/ OpenSocket("m3u8", "m3u8 socket", "account socket")
  \/ OpenSocket("account", "account socket", "decrypt socket")
  \/ OpenSocket("decrypt", "decrypt socket", "m3u8 thread")
  \/ StartThread("m3u8", "m3u8 thread", AfterM3u8Thread)
  \/ StartThread("account", "account thread", "serving")
  \/ FailClose \/ FailReturn

\* The launcher was told to stop and kills its child.
Killed == proc = "up" /\ proc' = "killed" /\ UNCHANGED <<bootVars, services>>

-----------------------------------------------------------------------------
(* The services.  A service's thread runs once it was started, until its   *)
(* accept fails; its clients can connect while its socket listens, and     *)
(* connected ones may fall silent or leave at any time.                    *)

DServes == boot = "serving" /\ D!ServerStep
DFaults == boot = "serving" /\ (D!AcceptFails \/ D!CloseFails \/ D!Terminate \/ D!WriteKilled)
MServes == "m3u8" \in threads /\ M!ServerStep
MFaults == "m3u8" \in threads /\ (M!AcceptFails \/ M!WriteKilled \/ M!Terminate)
AServes == "account" \in threads /\ A!ServerStep
AFaults == "account" \in threads /\ (A!AcceptFails \/ A!WriteKilled)

DPeers == \E c \in DecryptClients : D!Hush(c) \/ D!Leave(c) \/ ("decrypt" \in listening /\ D!Connect(c))
MPeers == \E c \in M3u8Clients : M!Hush(c) \/ M!Leave(c) \/ ("m3u8" \in listening /\ M!Connect(c))
APeers == \E c \in AccountClients : A!Hush(c) \/ A!Leave(c) \/ ("account" \in listening /\ A!Connect(c))

Next ==
  \/ Main
  \/ Killed
  \/ (DServes \/ DFaults) /\ UNCHANGED <<bootVars, mvars, avars>>
  \/ (MServes \/ MFaults) /\ UNCHANGED <<bootVars, dvars, avars>>
  \/ (AServes \/ AFaults) /\ UNCHANGED <<bootVars, dvars, mvars>>
  \/ DPeers /\ UNCHANGED <<bootVars, dpc, dsession, mvars, avars>>
  \/ MPeers /\ UNCHANGED <<bootVars, mpc, msession, dvars, avars>>
  \/ APeers /\ UNCHANGED <<bootVars, apc, asession, dvars, mvars>>

Spec == Init /\ [][Next]_vars

\* Every thread is scheduled.  The stages of main before serve_decrypt return:
\* with --read-2fa-file, which cmd_login always passes, the login waits for a code
\* for a bounded time (LoginFlow.tla); without it somebody has to type one.
Fairness ==
  /\ WF_vars(Main) /\ WF_vars(DServes /\ UNCHANGED <<bootVars, mvars, avars>>)
  /\ WF_vars(MServes /\ UNCHANGED <<bootVars, dvars, avars>>)
  /\ WF_vars(AServes /\ UNCHANGED <<bootVars, dvars, mvars>>)

FairSpec == Spec /\ Fairness

-----------------------------------------------------------------------------
(* What the process promises. *)

\* No client gets as far as a connection before the account data is cached and
\* saved, so no service ever answers from data that is still missing.
ReadyBeforeClients ==
  \/ ready /\ saved
  \/ /\ \A c \in DecryptClients : dpeer[c] = "away"
     /\ \A c \in M3u8Clients : mpeer[c] = "away"
     /\ \A c \in AccountClients : apeer[c] = "away"

\* The decrypt port is served only after every socket was opened and the threads
\* of the other two services were started.  (A thread that has returned since
\* stays in threads: see QueuedClientServed of M3u8Service.)
ServedTogether ==
  dpc # "accept" => listening = Services /\ threads = Services \ {"decrypt"}

Down == proc # "up"

\* main comes to serving or gives up, and then the process is gone.
StartupSettles == <>(boot = "serving" \/ Down)

\* A silent client of one service is let go whatever the clients of the other
\* two do: no thread waits for another.
SilentClientsReleased ==
  /\ D!StalledClientReleased
  /\ M!StalledClientReleased
  /\ A!StalledClientReleased
=============================================================================
