# A model of apple-music-wrapper

TLA+ modules, TLC runs and TLAPS proofs for the program under `src/`. This file
says what the system is, which module models which part of it, what each run
and each proof shows, and what is left out. `PROJECT.json` has the same in a
form a program can read: components, runs, seeded bugs, the lines each
definition stands for, hazards and theorems.

1. [The system](#1-the-system)
2. [Modules](#2-modules)
3. [How the modules read](#3-how-the-modules-read)
4. [Runs](#4-runs)
5. [Fairness](#5-fairness)
6. [Proofs](#6-proofs)
7. [Where code and documentation disagree](#7-where-code-and-documentation-disagree)
8. [What is not modelled](#8-what-is-not-modelled)

## 1. The system

apple-music-wrapper runs Apple Music's Android runtime in a container and
offers three local TCP services. On the host a shell script (`wrapper`) starts
the container and handles logins; in the container a launcher (`launch.c`)
sets up the root and runs the server (`server.c`, with `bridge.cpp`,
`parser.c`, `logger.c`), which is linked against the binary runtime in
`rootfs/`.

| Component | State it keeps | Operations | Talks to |
|---|---|---|---|
| listeners and sockets (`server.c` 692-839) | accept queue and open connections (in the kernel), `connfd`, its timeouts | `create_listener_socket`, `accept_client`, `set_socket_io_timeout`, `read_full`, `write_full`, `close` | clients, by TCP |
| decrypt service (841-973, `bridge.cpp`) | `preshared_context`; per session the header, the context, the sample buffer | `serve_decrypt`, `handle_decrypt_guarded`, `handle_decrypt_session`, `get_kd_context` | the runtime (contexts, samples, leases) |
| m3u8 service (975-1143) | per session the id, the URL, the line | `serve_m3u8`, `handle_m3u8_request`, the two lookup methods | the runtime (assets); reads `is_offline_available` |
| account service (1145-1292, 692-760) | per connection the request buffer and up to five heap blocks | `serve_account`, `read_http_headers`, `handle_account_request` | reads the cached account data |
| process and startup (`main`, 1564-1684) | the cached account data, three descriptors, two threads | caching, saving, opening, starting, the `fail` path | all of the above |
| login (`server.c` 264-382, 497-690, `wrapper` 131-201) | `login_password`, the password file, `2fa.txt` | `credential_handler`, `ensure_login_password_loaded`, `cmd_login`, `cmd_2fa` | the runtime's authentication flow; the host script through two files |
| account data files (1306-1321, 1483-1531) | `STOREFRONT_ID`, `MUSIC_TOKEN` | `write_storefront_id`, `write_music_token` | the file system |
| account data requests (1294-1305, 1323-1480) | the cached texts | `get_guid`, `get_dev_token`, `get_music_user_token` | the runtime (HTTP) |
| pure text functions (53-260) | none | JSON string extraction and escaping, HTTP matching, decimal parsing | |
| launcher (`launch.c`) | `child_proc` | `handle_shutdown_signal`, `fork`, `execve`, `waitpid` | the server process; docker, by signals and exit status |
| command line (`parser.c`, `main`) | the option structure and its duplicated strings | `cli_options_parse`, `cli_options_free`, the split of the device info, `parse_login_credentials` | `main` |
| host script (`wrapper`) | none of its own | build, start, login, 2fa, account | docker, curl |
| curl interposer (384-428) | two lazily resolved pointers | `curl_easy_setopt` | libcurl in the runtime |
| build scripts (`scripts/*.py`) | none | `build_tzdata.py`, `patch_elf.py` | the files of the image |
| logging, bindings, packaging | none | | |

**Interactions.** The three services run in three threads of one process: the
decrypt service in the main thread, the other two in detached threads. They
share no data that changes after startup except the runtime itself; what they
do share is the process. An accept error that is not retried ends the process
when the decrypt thread meets it and only the thread when one of the others
does; a write to a client that left raises SIGPIPE, whose default action ends
the process whichever thread it was. The login talks to the host through files
that both sides create and delete without a lock.

**What is hard here, and what makes each component correct.**

* *Listeners*: one connection at a time; clients that fall silent in the middle
  of a message; partial reads and writes; errors of `write_full` that nobody
  sees. Correct: connections are served in order, each once, each given back;
  a silent client is let go; a queued one gets its turn.
* *Decrypt*: a read that fails between `malloc` and `free`; a context cached across
  connections; exceptions caught outside the session. Correct: a
  sample is processed with a context for its own header, no path loses a buffer,
  replies go out whole and in order, the cached context never changes.
* *m3u8*: three ways to go round the loop. Correct: lines answer their requests,
  in order, each request is accounted for, no path keeps a string.
* *Account*: requests in pieces, five allocations, two writes. Correct: the data
  goes out only to a request for `/`, whole unless the client stopped reading, and
  every way out frees what was made, once.
* *Startup*: clients can connect from `listen()` on; failures at every stage,
  some with a thread already running. Correct: nobody connects before the data
  is ready, the services run together or not at all, startup ends.
* *Login*: a poll loop against a file that a shell truncates and then writes; a
  process that answers several requests; removals whose result nobody looks at;
  kills on both sides. Correct: a code is used once and by the request that waited
  for it, the wait for `2fa.txt` ends, and not before its timeout, the password
  does not stay on the disk, all this where the files can be removed.
* *Files*: a kill or a power loss between any two steps. Correct: `MUSIC_TOKEN` is
  always a token that was saved whole, and survives a crash. (`STOREFRONT_ID`, which
  is rewritten in place, is not: section 8.)
* *Launcher*: a signal between `fork` and the assignment of its result, one in the
  child before `execve`, one during `waitpid`. Correct: the container ends with its
  child and with the child's status, and ends when it is told to.
* *Command line*: repeated options, a copy that fails in the middle, a login turned
  down late. Correct: each string has one owner, and `main` goes on only with
  options it can use.
* *Curl interposer*: two threads resolve the same pointers without a lock. Correct:
  the runtime's options reach libcurl, or it is known when not.
* *Texts*: JSON read without a parser, lengths counted by one loop and filled by
  another, requests in pieces, numbers at the edge of their type. Correct: each
  function computes what its definition in the standard or the docs says, on the
  inputs it is meant for.
* *Build scripts*: offsets assigned before sorting, entries removed by moving the
  later ones up. Correct: an index leads to its own data; a patched table has what
  it had, less what was taken out.

`PROJECT.json` lists the hazards one by one, each at its line, with the
properties that would catch it.

## 2. Modules

| Module | What it is |
|---|---|
| `SerialServer` | abstract: what a client may expect of each service as a server |
| `Listener` | one listening socket and the thread behind it, shared by the services |
| `DecryptService`, `M3u8Service`, `AccountService` | the services, each `EXTENDS Listener` |
| `Server` | the process once it is started: `main` and the three services (`INSTANCE` of each) |
| `LoginFlow` | host script, password file, `2fa.txt`, credential handler |
| `AtomicFile`, `TokenFiles` | abstract atomic file; the writers over a file system |
| `Launcher` | process 1 of the container: signals, `fork`, `execve`, `waitpid` |
| `CliOptions` | the options, their copies, and the checks of `main` on them |
| `CurlInterposer` | the unsynchronised search for libcurl's function |
| `Startup` | a container up to "account ready": `EXTENDS` the three above and adds `main` |
| `TextFunctions` | the functions on texts, as operators |
| `BuildScripts` | the two scripts, as operators |
| `Folding` | a loop over a sequence, as a recursive function |
| `TextCalls` | a call of one of them with any input; what each should return, defined on its own |
| `MCDecrypt`, `MCM3u8`, `MCAccount`, `MCServer`, `MCLogin`, `MCTokenFiles`, `MCStartup` | instances for TLC |
| `MCFunctions` | an instance of `TextCalls` for TLC: all short inputs |
| `Listener_proofs` | the type and the refinement step that all services share |
| `DecryptService_proofs`, `M3u8Service_proofs`, `AccountService_proofs` | the services' types, safety properties and `SerialService` |
| `Server_proofs` | the functions for any texts and tables; the process runs each service as its module says; order of startup |
| `LoginFlow_proofs` | codes and the password file |
| `TokenFiles_proofs` | `MUSIC_TOKEN` is an atomic file and survives a crash |
| `Startup_proofs` | launcher, options, interposer and missing names |

The order in which they were written, and are best read, is that of importance:
first what clients see (the services), then what makes them come up (process,
login, files), then what comes before (launcher, options, the runtime's first
transfers), then the functions. The abstract specifications worth stating are the
serial server, which all three services implement, and the atomic file, which
`MUSIC_TOKEN` implements.

## 3. How the modules read

A name `X_Y` is a variant of the definition `X` with a bug in it (a dropped
guard, a missing reset); no specification uses it. `PROJECT.json` names, for
each property, a variant that the property rejects.

**`Listener`.** `queue` is the kernel's accept queue, `conn` is `connfd`, `timeo`
the timeouts of its socket, `peer[c]` what the other end of connection `c` does:

* `active`: may send and drain at any moment, however slowly;
* `silent`: connected, but never sends or drains again. The service is not told;
* `gone`: closed, and everything it had sent has been read;
* `released`: the service closed its own end.

The bytes a client sends are chosen when the service reads them, so data that
arrived before its sender left is read while `peer` is still `active`; that is
why `gone` means both closed and drained. `read_full` returns short only at end
of file, after a reset or when the receive timeout expired (`ReadCanFail`);
a timeout can strike an active peer too, since it may be slow. `write_full` is
one `WriteSome` per `write()`, each taking any part of what is left, and gives up
(`WriteCanFail`) after a send timeout or a reset; after a close it may raise
SIGPIPE instead (`WriteCanKill`), which the program never ignores.
`setsockopt` with a valid option cannot fail on a fresh socket, so its error path
(a log line) is left out. The accept errors the code retries leave the state
unchanged. One connection is opened once; a client that comes back is a second
connection.

**`DecryptService`.** `pc` walks through `serve_decrypt` and
`handle_decrypt_session`: `accept`, `header`, `context`, `size`, `sample`,
`process`, `write`, then `lease` if the guard caught an exception, and `close`. A
track is a header; a context is named by the header it was fetched for, so that
using the wrong one is visible. `replies` is what was sent on the present
connection, with how much of it went out and whether `write_full` gave up. The
bytes are left out: lengths are in units. `lost` counts buffers whose pointer an
exception dropped.

**`M3u8Service`.** The same for the lookup service: `asked` and `lines` are the
requests and the answers of the present connection, `strings` the live blocks of
the URL and its line, `purchases` the purchase requests that no path frees. The
runtime's answers are free. `offline` is settled before the thread exists.

**`AccountService`.** A request is how much of it was read and whether it reads
as a request for `/` so far; the texts are lengths. `heap` says of each block of the
handler (three escaped strings, `json_body`, `http_response`) whether its pointer
is NULL, live, freed or freed twice. `pc` goes from `judge` through `escape`, `json` and
`response`, where each `malloc` and each `snprintf` may fail by itself; `FreedAfter` is
the list of frees that stands in the code on each of those ways out and at the end.
The three escaped strings may come out in any combination, since the code tests
them together. Whether the request is allowed (`root`) is chosen as it is read; what
`is_account_request_allowed` makes of a text is in `TextFunctions`.

**`Server`.** `boot` is where `main` is. The services are instances with their
own clients and variables and share `proc`. A service steps only once its thread
exists, and its clients can connect once its socket listens. `main`'s work up to
the cached account data is one step that succeeds or ends the process; the two
parts of it with behaviour of their own are `LoginFlow` and `TokenFiles`.

**`LoginFlow`.** The host side is `cmd_login` (`script`) and `cmd_2fa`, whose
`printf > file` is two steps, truncate and write. The container side is `pc`. The
password is left out; `tail` is the sequence of codes that stand behind it in
`login_password`, the n-th submitted code being n. The buffer has room for one
code; what overruns it is undefined, and the model takes it as a write into memory
nobody uses, or (`Stopped`) as the end of the process. Polls are counted and not
timed. The code ignores what `remove` returns, for the password file and for
`2fa.txt`, and `cmd_login` what `rm -f` does; each has an alternative in which the file
stays. `before` (codes older than the process), `unremoved`, `kept` (logins and codes whose
file stayed) and `orphans` are history that no guard reads: the properties name
with them the one excuse they allow. The end of the process is told from its being
stopped (`Ends`), so that `OnlyTimeoutEndsWait` can speak of the former.

**`TokenFiles`.** Files have inodes; `cache`/`dir` are what processes see,
`disk`/`ddir` what a crash leaves. Write-back happens at any moment and in any
order; `fsync` puts one file on the disk; the directory is not synced by the
code. Every library call can fail, and a failed write leaves nothing or a part.
Seven inodes are enough: at most three names in each of two directories and one
open file use one at a time. Both texts may be NULL. The `remove` of the temporary
file may fail like any other.

**`Launcher`.** `lpc` is where the launcher is, `child` how far the forked process
got, `childProc` the launcher's own `child_proc`. The launcher runs as process 1 of
its container, which decides what signals do: one it has no handler for is
ignored, and `kill(0)` from the child cannot end it. `signal()` sets `SA_RESTART`,
so `waitpid` goes on after the handler. `fork` has returned in the child before
`ChildStores` and in the launcher before `StoreChild`, in any order; a handler in
between finds what was stored so far (-1 before, 0 in the child after). A number
of the launcher's own cannot meet the reaped pid again, since nothing else forks.
`mknod`, `mkdir` and the environment keep nothing and are left out.

**`CliOptions`.** `value` says what each owned string copies and `heap` how many
blocks were allocated for it and not freed, so that a leak is more than `Held` and
a double free less. `init_defaults` makes its copies one by one, and any of them may
fail: then `cli_options_free` (`FreedFields`, `Fail`) frees those before it. The name and the
password of a login are copied in two steps, and the name is freed when the second
fails. A login is one of five shapes, a device info has nine fields
or not; other texts do not differ. Every option may come several times. The flags
without a text only choose the source of codes, which `LoginFlow` has.

**`CurlInterposer`.** One step per read or write of the two static pointers,
because the build is a Debug build and each access is one of memory. `dlopen` by
name succeeds, or only by path, or not at all, and always the same way. `dlsym` of
a NULL handle is `dlsym(RTLD_DEFAULT)`: the first `curl_easy_setopt` it finds is
the interposer itself.

**`Startup`.** `stage` is where `main` of wrapper-core is. The requests of the
stages are the runtime's; what they do here is to configure transfers in the main
thread, next to the thread that refreshes the lease. After `TokensAsked` main goes on
whether or not there are tokens. `Credentials` is the call of
`credential_handler` that comes without `--login`, when the cached session has
expired: `login_apple_id` is still NULL. What is at stake is kept in history
variables: `dropped`, `itself`, `overlap`, `nullName`, `asked`.

**`TextFunctions`, `BuildScripts`.** Operators without state. A text is a sequence
of one-byte strings, and a byte that only matters as one of a kind stands for the
kind: `x`, `k` are ordinary, `SOH` and `US` the ends of the control range. A word
that the code compares as a whole (a method, a key) is one element. Failing
allocations are in the modules of the callers. To `build_tzdata.py` a file is
bytes; to `patch_elf.py` it is the slots of its dynamic table. `Byte` is a constant
of which no more is assumed than that the bytes and words written in the code are
among them (`ByteAssumption`); so a theorem about texts holds of every alphabet that
has those, and TLC runs with a small one. Loops that keep something from one
element to the next are `Fold`s of a function, `Fold(step, base, seq)`; as the body of
the loop is a function and not an operator, one lemma covers every loop.

**`TextCalls`.** `call` is the function called last and what it was given; any call
with inputs that the program can pass is a step (`Call`), and each property says
what that call returns, by a definition that does not follow the code: `Strings` is a
reader of JSON that goes byte by byte, `Decimal` the number without a limit, `kept`
the entries of a table that should remain.

## 4. Runs

All bounds are constants of the modules. `CHECK_DEADLOCK FALSE` throughout: the
process may really end, and then nothing happens any more.

| Run | Instance | Distinct states | Shows |
|---|---|---|---|
| `decrypt` | 2 clients, backlog 1, 2 ids, 2 URIs, samples of up to 2 units, 2 per connection | 1,635,429 | `ReplyMatchesTrack`, `BuffersAccounted`, `RepliesOneByOne`, that the service is a serial server (`SerialService`), and that whoever is queued is served (`QueuedClientServed`) |
| `m3u8` | 2 clients, 2 ids, 2 requests per connection, both modes | 196,116 | `LinesAnswerRequests`, `OneLineEach`, `StringsFreed`, `SerialService`, `QueuedClientServed` |
| `account` | 2 clients, buffer of 3 units, header and body of 2 | 27,078 | `DataOnlyForRoot`, `WholeResponse`, `HeapAccounted`, `SerialService` |
| `server` | 1 decrypt client and 1 of another service, either | 270,330 | `ReadyBeforeClients`, `ServedTogether`, `StartupSettles`, `SilentClientsReleased` |
| `login` | 2 processes, 3 codes, 3 requests, 2 polls | 976,638 | `CodeUsedOnce`, `AnswersCarryCode`, `StaleCodeFirst`, `PasswordFileShortLived`, `OnlyNewerCodeLost`, `OnlyTimeoutEndsWait`, `WaitEnds`, `PasswordFileRemoved` |
| `token_files` | 2 starts, 2 values | 153,118 | `TokenSurvivesCrash`, `TokenFileAtomic` |
| `startup` | 2 threads, 1 port, 4 of the texts, 2 options | 532,065 | `ForwardsToLibcurl`, `OptionsOwned`, `StartsUsable`, `NullNameNeedsFile`, `OutlivesCore`, `StopHeard` |
| `functions` | texts of up to 3 to 5 elements and an object of up to 2 members; `ULONG_MAX` 190, codes of 2 digits, lines of 4 bytes, tables of 4 slots | 126,464 | `ExtractFindsMember`, `EscapeDecodes`, `TokenPassesThrough`, `HeaderEndFound`, `InputTextsJudged`, `PatchOnce` |
| `decrypt_misaligned`, `m3u8_answers`, `login_codes`, `token_null` | the smallest that show it | | the disagreements of section 7 |

No run checks a type invariant: each is proved (section 6).

**What two runs say that is not obvious.** `startup`: `NullNameNeedsFile` says which
start can hand the runtime a NULL name, namely one with `--password-file` and
without `--login`, when the cached session has expired; the script never starts
the container that way. `ForwardsToLibcurl` says when an option can be lost:
libcurl is found by its path only and two threads resolve it at once.
`functions`: `TokenPassesThrough` says that a client of the account port gets
Apple's token unchanged if and only if the token had no escape in it;
`ExtractFindsMember` names what the search takes for granted.

**Why the bounds are enough.** Two clients are what it takes to have one wait while
another is served, with one queued place to keep order in, and the services treat
connections alike. Two
samples or requests per connection give every reply a predecessor to be confused
with; two units let a write be partial. Two ids and two URIs are one more than a
cache keyed on the wrong one needs. In the m3u8 and account services a second
request or piece reaches every loop twice. The process run has one client for
each of two services because what it is about is one thread against another,
and the services share nothing but `proc`; a third client at the same time
(`MCServer!OneOther` keeps it away) adds no kind of interaction the pairs lack, and
all three threads run throughout. Two logins let a code or a password file of the
first be met by the second; three codes let one be resubmitted while another is
being removed. Two starts let a save be interrupted and repeated. Two options are
what a repeated option or a login with its password file takes, and the four texts
are one that has a default, the login and what it depends on, and the device info;
the other two behave like the first. Two threads are those the process has at that
stage, and each may configure any number of transfers. In `functions`, three to
five bytes hold every pair of neighbours that a function tells apart, with
something before and after it; 190 is a number that can be written with the digits
0, 1 and 9, that is passed by its last digit alone (191) and by far (999).

## 5. Fairness

* Services: weak fairness of the server's steps. Threads are scheduled, a blocking
  call with an expired timer returns, the runtime's calls return. Nothing is
  assumed of peers, and no fault has to happen. So a silent client is let go only
  because the timeout is set: with `IoTimeout_None` the property fails.
  `QueuedClientServed` has the premise that every client stops being active
  infinitely often, since one that sends on without end may keep the only thread;
  for the m3u8 service it also allows that the thread has returned.
* Process: the same for each thread separately, and weak fairness of `main`.
* Login: weak fairness of `Runs`, what the process does by itself (polls end, `sleep`
  returns), and of the script's last step once docker has returned. Nobody has to
  submit a code, and the flow need not ask again. `fgets` on stdin is not in `Runs`:
  without `--read-2fa-file` it waits as long as nobody types, so `WaitEnds` is about the
  wait for `2fa.txt`, which is how `cmd_login` always starts the container. For the same
  start `Server` assumes that the login returns (`StartupSettles`); with codes from stdin
  that takes somebody who types one.
* `Startup`: weak fairness of the launcher alone. That a stop signal ends the
  container (`StopHeard`) needs nothing of wrapper-core, of the child before
  `execve` or of further signals.
* `TokenFiles` and the functions have no liveness property.

## 6. Proofs

Every theorem is for any values of the constants: any clients, ids, codes, texts,
lengths and bounds that meet the modules' `ASSUME`s. Those say that the bounds and
lengths are numbers (positive where the code has at least one of the thing), that
the bytes that stand in the code are bytes, that a line of `2fa.txt` has room for a
code and its end, that
`None`, `NULL`, `Bad`, `Absent`, `Empty`, `Part` and `Missing` are none of the values they
stand beside, that the preshared id is an id, that the options given are options,
and that main and the lease manager are the threads of a start; nothing else is
assumed.

| Module | Theorem | Statement |
|---|---|---|
| `DecryptService_proofs` | `TypeCorrect` | `Spec => []TypeOK` |
| | `ContextCorrect` | `Spec => []ReplyMatchesTrack` |
| | `BuffersCorrect` | `Spec => []BuffersAccounted` |
| | `RepliesCorrect` | `Spec => []RepliesOneByOne` |
| | `PreshareCorrect` | `Spec => PreshareStable` |
| | `DecryptSerial` | `Spec => SerialService` |
| `M3u8Service_proofs` | `TypeCorrect` | `Spec => []TypeOK` |
| | `AnswersCorrect` | `Spec => []LinesAnswerRequests` |
| | `RequestsAccounted` | `Spec => []OneLineEach` |
| | `StringsCorrect` | `Spec => []StringsFreed` |
| | `M3u8Serial` | `Spec => SerialService` |
| `AccountService_proofs` | `TypeCorrect` | `Spec => []TypeOK` |
| | `DataGuarded` | `Spec => []DataOnlyForRoot` |
| | `ResponseWhole` | `Spec => []WholeResponse` |
| | `HeapCorrect` | `Spec => []HeapAccounted` |
| | `AccountSerial` | `Spec => SerialService` |
| `Server_proofs` | `DecryptImplemented`, `M3u8Implemented`, `AccountImplemented` | `Spec => D!Spec`, `Spec => M!Spec`, `Spec => A!Spec` |
| | `DecryptOfProcess` | `Spec =>` `ReplyMatchesTrack`, `BuffersAccounted`, `RepliesOneByOne`, `PreshareStable` and `SerialService` of `D` |
| | `M3u8OfProcess` | `Spec =>` `LinesAnswerRequests`, `OneLineEach`, `StringsFreed` and `SerialService` of `M` |
| | `AccountOfProcess` | `Spec =>` `DataOnlyForRoot`, `WholeResponse`, `HeapAccounted` and `SerialService` of `A` |
| | `TypeCorrect` | `Spec => []TypeOK` (of what `main` keeps) |
| | `StartupOrder` | `Spec => []ReadyBeforeClients` |
| | `StartedTogether` | `Spec => []ServedTogether` |
| | `TextsJudged` | `CallSpec => []InputTextsJudged` |
| | `HeaderEndsFound` | `CallSpec => []HeaderEndFound` |
| | `AnswerDecodes` | `CallSpec => []EscapeDecodes` |
| | `MembersFound` | `CallSpec => []ExtractFindsMember` |
| | `TokensPass` | `CallSpec => []TokenPassesThrough` |
| | `ZonesOwnTheirData` | `CallSpec => []ZonesOwnData` |
| | `PatchedOnce` | `CallSpec => []PatchOnce` |
| `LoginFlow_proofs` | `TypeCorrect` | `Spec => []TypeOK` |
| | `PasswordCorrect` | `Spec => []PasswordFileShortLived` |
| | `CodesUsedOnce` | `Spec => []CodeUsedOnce` |
| | `AnswersCorrect` | `Spec => []AnswersCarryCode` |
| | `StaleCodes` | `Spec => []StaleCodeFirst` |
| | `CodesNotLost` | `Spec => OnlyNewerCodeLost` |
| | `BadCodesWaited` | `Spec => OnlyTimeoutEndsWait` |
| `TokenFiles_proofs` | `TypeCorrect` | `Spec => []TypeOK` |
| | `TokenSurvives` | `Spec => []TokenSurvivesCrash` |
| | `TokenImplemented` | `Spec => TokenFileAtomic` |
| `Startup_proofs` | `TypeCorrect` | `Spec => []TypeOK` |
| | `CurlForwards` | `Spec => []ForwardsToLibcurl` |
| | `OptionsCorrect` | `Spec => []OptionsOwned` |
| | `UsableStart` | `Spec => []StartsUsable` |
| | `NullName` | `Spec => []NullNameNeedsFile` |
| | `LauncherOutlives` | `Spec => []OutlivesCore` |

**The argument is the same throughout.** A module's `IInv` joins its type
invariant, the properties and what they leave unsaid; `InitIInv` and a lemma for
each group of actions (`NextIInv` joins them) show it inductive, `Invariance` says it
always holds, and the properties follow from it. What has to be added says why
each property is true:

* *Services, shared* (`Listener_proofs`): `NetType` types the shared variables, and
  `PeersAccounted` says that a queued or served client has connected, without which
  the serial server could not tell that a new connection is new. `SerialInit` and
  `SerialStep`: a `NetStep` is a step or a stutter of `SerialServer`. Each service
  only has to show that its steps are `NetStep`s (`ListenerStep`).
* *Decrypt*: `ContextInForce`, that the cached context belongs to the preshared id, and
  that from the header to the end of its track the context in use serves the header
  in force; without it a reply could come from a context nothing is known about.
  `WritingLast`, that while a reply is written there is one.
* *m3u8*: `InHand`, what the URL and the live blocks are at each place, and `Pending`,
  that a request without an answer comes after all that have one.
* *Account*: `Talk`, how much of request and response there is at each place, and
  `HeapOK`, what has become of each block there: that what is not in use is NULL or
  was freed once is what makes the next list of frees right.
* *Process*: a step outside a service is, for that service, a stutter, or the end of
  the process, which its module allows at any time (`Elsewhere`). With the three
  theorems `Spec => X!Spec` the theorems about the services carry over to the
  process: `DP`, `MP` and `AP` are the proof modules with the process's clients and
  variables for theirs, `ServerAssumption` gives what the services assume, and
  `DecryptOfProcess`, `M3u8OfProcess` and `AccountOfProcess` state the result.
  `BootInv` says which sockets listen and which threads run at each place
  of `main`, and that until the first socket listens nobody has connected.
* *Login*: `Numbered`, that codes are numbered as submitted, and that what lies in
  `2fa.txt` is not yet behind the password except between reading and removing it, or
  where that removal failed (`kept`); `InOrder`, that what was sent is still behind the
  password, and that whoever waited has a `FreshCode`. `StaleSeen`, that a code older than the
  process is in the file only if it is still the one read first, and `ReadOrder`, that
  what is written after a read is newer, carry the two theorems about codes of an
  earlier login and codes nobody reads. The password file needs nothing
  but its own property, `OnlyTimeoutEndsWait` only that polls are counted up to the limit.
* *Files*: `Apart`, that no two names share an inode; `Aside`, that the inode
  `MUSIC_TOKEN` has on the disk is under no other name, so that truncating or
  writing the temporary file cannot reach it; `Whole`, that all that `MUSIC_TOKEN`
  stands for, in memory and on the disk, was saved whole; `InPlace`, that the token is
  in the file after the flush and on the disk after the sync. `FreeInode` shows that
  seven inodes are enough.
* *Startup*: the parts of the state meet only in `main`, so `Inv` joins an invariant
  for each and `Kept` needs one lemma for each. `LaunchInv`: how far the child can be
  at each place of the launcher. `CliInv`: that the parts of a login are NULL until
  it is split (`Unsplit`), or the copies made then would leak the old ones, and that
  what parsing lets through is usable (`Checked`). `CurlInv`: that without libcurl
  nothing is ever found (`NowhereInv`); that with the name, a NULL handle is only
  seen before the first `dlopen` has returned (`NamedInv`); that as long as nobody
  overlapped, only one thread searches and the handle it goes on with is libcurl's
  (`AloneInv`); hence whatever is found is libcurl's function (`FoundInv`).

**The functions** keep nothing, so their invariant (`CallOK`) only says that a call
has inputs of its kind; what carries the proofs is induction over texts, pieces,
members and slots.

* *Induction.* The library's induction theorems are about predicates, which the
  provers cannot instantiate. Here a set takes the predicate's place:
  `LeastNumber` is proved from the well-foundedness of `<`, and `NumberInduction` and
  `SequenceInduction` say that a set with the first number (the empty sequence) and
  with each next one has all of them. `FoldAppend` and `FlattenAppend` unroll a loop and a
  concatenation by one element at the end; everything else goes through them.
* *Numbers, codes* (`TextsJudged`): as long as the number so far fits, `strtoul`'s loop
  and the unlimited one agree, and once it does not fit it never does again. For a
  code, `fgets` stops at the line feed or at its limit, and a line at the limit is
  longer than a code.
* *Headers* (`HeaderEndsFound`): after any number of pieces the buffer is the text so
  far, cut at the first cut that completes a blank line or at the end of the room
  (`ReadTo`). The verdict needs only the start of the buffer: if reading stopped early
  there is a line feed in it, and a request that is allowed has none, and no NUL, in
  the part that is compared.
* *JSON out* (`AnswerDecodes`): `Spells(raw, text)` says that wherever a reader is in
  a string, reading `raw` leaves it in the string with `text` added. What
  `json_escape_string` writes for a byte spells that byte, so by induction the answer
  spells what was put in, and reading a `Member` adds its key and its text.
* *JSON in* (`MembersFound`, `TokensPass`): in what may stand between the quotes every
  quote is behind a backslash, so the first one that is not ends the value
  (`QuotesBehind`, `EndBehind`). `Clean` texts, in which the key in quotes occurs
  nowhere and cannot begin at the end, stay so under concatenation, so by induction
  on the members one of three holds: the key occurs inside an earlier value
  (`Misled`, which the property excludes), no member has the key (`Absent`), or the first
  that has it is where the search stops (`Found`).
* *Tables* (`ZonesOwnTheirData`, `PatchedOnce`): the names are sorted as they were
  listed, so the offsets are those of the data as written. For `patch_elf.py` the map
  from what is kept to where it came from is extended by each entry of the loop.

`Server_proofs` is long because texts are; its second part is the process.

**Only model-checked**: all liveness (`QueuedClientServed`, `StartupSettles`,
`SilentClientsReleased`, `WaitEnds`, `PasswordFileRemoved`, `StopHeard`), which with
everything about `ENABLED` is out of the prover's reach; and of course the violations
of section 7. Every safety property of the runs that pass has a theorem. **Only
proved**: the types, `PreshareStable` and `ZonesOwnData`.

## 7. Where code and documentation disagree

Each is a run whose only property is what the documentation says and which ends
in a counterexample.

* `decrypt_misaligned`: after `write_full` gave up on a reply, the session goes on
  with the next sample, so a slow client receives a short reply followed by later
  ones (`README.md:128`: a result of the same length).
* `m3u8_answers`: when `with_newline` cannot be allocated no line is sent, so the
  next answer is taken for this request's (`README.md:110`: an empty line when there
  is no result).
* `login_codes`: a second request for a code is answered by the password with both
  codes behind it (`README.md:48`: writing the code is all it takes).
* `token_null`: a start that found neither the storefront nor the token replaces
  `STOREFRONT_ID` and `MUSIC_TOKEN` by empty files (`README.md:141-142`: the storefront
  and the token saved after startup).

## 8. What is not modelled

* `rootfs/` is a set of binaries; the models let it answer anything its callers
  handle. That the lease manager is used from two threads (`requestLease` in one,
  `requestAsset` in the other), and that the choice of `is_offline_available` is
  settled once, are hazards nobody can settle from this repository.
* `logger.c` formats messages. `bridge.cpp`'s and `symbol.h`'s declarations and
  layouts describe the runtime; what of the bridge has behaviour (the guards around
  exceptions) is in `DecryptService`. Docker and CMake files are packaging; the one
  thing taken from them is the build type.
* `dialog_handler` picks a button from what it is shown and keeps nothing.
* Of `wrapper`, the commands other than `login` and `2fa` (build, start, account,
  help) are calls of docker and curl with checked arguments.
* `get_guid`, `get_dev_token`, `get_music_user_token` set up a request, send it and
  read the answer: that the result may be missing is in `Startup` and `TokenFiles`,
  what is made of the texts in `TextFunctions`, and what is set on the runtime's
  request objects is left out.
* Of the interposer, which three options are changed on the way. `read_trimmed_file`
  and `join_path` appear only through what `LoginFlow` and `TokenFiles` do with them.
* Some hazards are modelled, but nothing the repository says is broken by them, so no
  property speaks of them: SIGPIPE ends the process for all three services; an accept
  error ends one thread or the process; `purchase_request` is freed nowhere; a stop
  signal between `fork` and the store of its result is forgotten; a kill between
  `fopen` and `fclose` of `STOREFRONT_ID` leaves it empty. The properties name
  these as exceptions or are silent about them. A code left in `2fa.txt` by an earlier
  login is sent for the next one, and a newer code may be removed unread: for these two,
  `StaleCodeFirst` and `OnlyNewerCodeLost` say when.
* In the modelled parts: log messages, the texts and bytes of requests, responses,
  samples and files, `shutdown(SHUT_WR)` before `close` (merged with it), errors of
  `close` where the code only logs them, and polling time.
