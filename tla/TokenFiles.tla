----------------------------- MODULE TokenFiles -----------------------------
(***************************************************************************)
(* The two files a start of wrapper-core leaves in the data directory      *)
(* (write_storefront_id and write_music_token in server.c), over a file    *)
(* system whose cache reaches the disk in its own time, with kills of the  *)
(* process and crashes of the machine at any point.                        *)
(*                                                                         *)
(* STOREFRONT_ID is rewritten in place; MUSIC_TOKEN is written to a        *)
(* temporary file that is synced and renamed over it.                      *)
(***************************************************************************)
EXTENDS Integers

CONSTANTS
  Values,     \* the non-empty texts a storefront or a token may be
  Empty,      \* the text of a file of length 0, and of a value that is NULL
  Part,       \* a proper prefix of a text
  Missing,    \* there is no such file
  MaxRuns     \* bound of the model: starts of the process

ASSUME TokenAssumption ==
  /\ Empty # Part /\ Part # Missing /\ Missing # Empty
  /\ {Empty, Part, Missing} \cap Values = {}
  /\ MaxRuns \in Nat

Names == {"STOREFRONT_ID", "MUSIC_TOKEN", "MUSIC_TOKEN.tmp"}
Inodes == 1..7
Contents == Values \cup {Empty, Part}

VARIABLES
  cache,       \* contents of the inodes, as processes see them
  disk,        \* contents of the inodes, as they survive a crash
  dir,         \* inode of each name, 0 for none, as processes see it
  ddir,        \* the directory as it survives a crash
  pc,          \* where main is in saving
  storefront,  \* cached_storefront_id, Missing for NULL
  token,       \* cached_music_token, Missing for NULL
  fp,          \* inode of the open file, or 0
  failed,      \* a write to STOREFRONT_ID failed in this run
  runs,        \* starts so far
  past         \* what MUSIC_TOKEN has been replaced by so far

fsVars == <<cache, disk, dir, ddir>>
vars == <<fsVars, pc, storefront, token, fp, failed, runs, past>>

PCs == {"off", "open storefront", "close storefront", "open token", "flush token",
        "sync token", "close token", "rename token", "remove token", "saved"}

TypeOK ==
  /\ cache \in [Inodes -> Contents] /\ disk \in [Inodes -> Contents]
  /\ dir \in [Names -> Inodes \cup {0}] /\ ddir \in [Names -> Inodes \cup {0}]
  /\ pc \in PCs
  /\ storefront \in Values \cup {Missing} /\ token \in Values \cup {Missing}
  /\ fp \in Inodes \cup {0}
  /\ failed \in BOOLEAN
  /\ runs \in 0..MaxRuns
  /\ past \subseteq Values \cup {Empty, Missing}

Init ==
  /\ cache = [i \in Inodes |-> Empty] /\ disk = [i \in Inodes |-> Empty]
  /\ dir = [n \in Names |-> 0] /\ ddir = [n \in Names |-> 0]
  /\ pc = "off"
  /\ storefront = Missing /\ token = Missing
  /\ fp = 0
  /\ failed = FALSE
  /\ runs = 0
  /\ past = {Missing}

-----------------------------------------------------------------------------
(* The file system. *)

InUse == {dir[n] : n \in Names} \cup {ddir[n] : n \in Names} \cup {fp}
NewInode == CHOOSE i \in Inodes : i \notin InUse

\* fopen(name, "w"): a new empty file, or the old one truncated.
OpenForWriting(name) ==
  LET i == IF dir[name] = 0 THEN NewInode ELSE dir[name] IN
  /\ fp' = i
  /\ dir' = [dir EXCEPT ![name] = i]
  /\ cache' = [cache EXCEPT ![i] = Empty]
  /\ disk' = IF dir[name] = 0 THEN [disk EXCEPT ![i] = Empty] ELSE disk
  /\ UNCHANGED ddir

Remove(name) == dir' = [dir EXCEPT ![name] = 0] /\ UNCHANGED <<cache, disk, ddir>>

\* The kernel writes back a file, or the directory, when it likes.
WriteBack ==
  /\ \/ \E n \in Names : dir[n] # 0 /\ disk' = [disk EXCEPT ![dir[n]] = cache[dir[n]]]
        /\ UNCHANGED ddir
     \/ ddir' = dir /\ UNCHANGED disk
  /\ UNCHANGED <<cache, dir, pc, storefront, token, fp, failed, runs, past>>

-----------------------------------------------------------------------------
(* main, from the cached account data to the listeners. *)

\* nonnull_string.
NonNull(v) == IF v = Missing THEN Empty ELSE v

\* get_account_storefront_id and get_music_user_token give a text or NULL.
Fetch ==
  /\ pc = "off" /\ runs < MaxRuns
  /\ runs' = runs + 1
  /\ storefront' \in Values \cup {Missing}
  /\ token' \in Values \cup {Missing}
  /\ failed' = FALSE
  /\ pc' = "open storefront"
  /\ UNCHANGED <<fsVars, fp, past>>

OpenStorefront ==
  /\ pc = "open storefront"
  /\ \/ OpenForWriting("STOREFRONT_ID") /\ pc' = "close storefront" /\ UNCHANGED failed
     \/ pc' = "open token" /\ failed' = TRUE /\ UNCHANGED <<fsVars, fp>>
  /\ UNCHANGED <<storefront, token, runs, past>>

\* fprintf fills the buffer of the stream; fclose writes it out, or part of it.
CloseStorefront ==
  /\ pc = "close storefront"
  /\ \/ cache' = [cache EXCEPT ![fp] = NonNull(storefront)] /\ UNCHANGED failed
     \/ cache' \in {[cache EXCEPT ![fp] = c] : c \in {Empty, Part}} /\ failed' = TRUE
  /\ fp' = 0
  /\ pc' = "open token"
  /\ UNCHANGED <<disk, dir, ddir, storefront, token, runs, past>>

TokenTarget_InPlace == "MUSIC_TOKEN"

\* tmp_path.
TokenTarget == "MUSIC_TOKEN.tmp"

OpenToken ==
  /\ pc = "open token"
  /\ \/ OpenForWriting(TokenTarget) /\ pc' = "flush token"
     \/ pc' = "saved" /\ UNCHANGED <<fsVars, fp>>
  /\ UNCHANGED <<storefront, token, failed, runs, past>>

\* fprintf and fflush.
FlushToken ==
  /\ pc = "flush token"
  /\ \/ cache' = [cache EXCEPT ![fp] = NonNull(token)] /\ pc' = "sync token"
     \/ cache' \in {[cache EXCEPT ![fp] = c] : c \in {Empty, Part}} /\ pc' = "remove token"
  /\ UNCHANGED <<disk, dir, ddir, storefront, token, fp, failed, runs, past>>

\* No fsync before the rename.
Synced_Cached == disk[fp]

\* What fsync puts on the disk before it reports success.
Synced == cache[fp]

SyncToken ==
  /\ pc = "sync token"
  /\ \/ disk' = [disk EXCEPT ![fp] = Synced] /\ pc' = "close token"
     \/ pc' = "remove token" /\ UNCHANGED disk
  /\ UNCHANGED <<cache, dir, ddir, storefront, token, fp, failed, runs, past>>

CloseToken ==
  /\ pc = "close token"
  /\ fp' = 0
  /\ pc' \in {"rename token", "remove token"}
  /\ UNCHANGED <<fsVars, storefront, token, failed, runs, past>>

RenameToken ==
  /\ pc = "rename token"
  /\ \/ dir' = [dir EXCEPT !["MUSIC_TOKEN"] = dir["MUSIC_TOKEN.tmp"],
                           !["MUSIC_TOKEN.tmp"] = 0]
        /\ past' = past \cup {NonNull(token)}
        /\ pc' = "saved"
     \/ pc' = "remove token" /\ UNCHANGED <<dir, past>>
  /\ UNCHANGED <<cache, disk, ddir, storefront, token, fp, failed, runs>>

\* fclose where it is still open, and remove(tmp_path), whether it works or not.
RemoveToken ==
  /\ pc = "remove token"
  /\ Remove("MUSIC_TOKEN.tmp") \/ UNCHANGED fsVars
  /\ fp' = 0
  /\ pc' = "saved"
  /\ UNCHANGED <<storefront, token, failed, runs, past>>

\* The process ends; what it wrote to the kernel stays visible.
Kill ==
  /\ pc # "off"
  /\ pc' = "off" /\ fp' = 0
  /\ UNCHANGED <<fsVars, storefront, token, failed, runs, past>>

\* The machine goes down and comes back with what is on the disk.
PowerLoss ==
  /\ cache' = disk /\ dir' = ddir
  /\ pc' = "off" /\ fp' = 0
  /\ UNCHANGED <<disk, ddir, storefront, token, failed, runs, past>>

Next ==
  \/ Fetch \/ OpenStorefront \/ CloseStorefront
  \/ OpenToken \/ FlushToken \/ SyncToken \/ CloseToken \/ RenameToken \/ RemoveToken
  \/ Kill \/ PowerLoss \/ WriteBack

Spec == Init /\ [][Next]_vars

-----------------------------------------------------------------------------
(* What the files promise. *)

Shown(name) == IF dir[name] = 0 THEN Missing ELSE cache[dir[name]]

\* What a crash at this moment would leave.
Kept(name) == IF ddir[name] = 0 THEN Missing ELSE disk[ddir[name]]

Token == INSTANCE AtomicFile WITH
  Values <- Values \cup {Empty}, value <- Shown("MUSIC_TOKEN")

\* MUSIC_TOKEN is an atomic file (AtomicFile.tla): it is never seen in part, and
\* a kill or a crash at any point of a save leaves a value that was saved whole.
TokenFileAtomic == Token!Spec

\* What a crash would leave of MUSIC_TOKEN is at every moment a value that was
\* saved whole, the temporary file being synced before it takes the name.
TokenSurvivesCrash == Kept("MUSIC_TOKEN") \in past

\* README.md:141-142: STOREFRONT_ID and MUSIC_TOKEN are what a start saved of the
\* storefront and of the music token.  A start that found neither, and could write,
\* does not put something else in the place of both.  (Stated of either, so that a
\* counterexample shows both files at once.)
FilesHoldTexts ==
  pc = "saved" /\ ~failed =>
    \E name \in {"STOREFRONT_ID", "MUSIC_TOKEN"} : Shown(name) \in Values \cup {Missing}
=============================================================================
