--------------------------- MODULE TokenFiles_proofs ---------------------------
(***************************************************************************)
(* Proofs about MUSIC_TOKEN, for any values and any number of starts: it   *)
(* is an atomic file, and a crash of the machine leaves a saved value.     *)
(***************************************************************************)
EXTENDS TokenFiles, TLAPS

MT == "MUSIC_TOKEN"
TMP == "MUSIC_TOKEN.tmp"

\* No two names of a directory share an inode.
Apart(d) == \A n, m \in Names : n # m /\ d[n] # 0 => d[n] # d[m]

(***************************************************************************)
(* The inode that MUSIC_TOKEN has on the disk is never under another name, *)
(* so nothing that is written to the temporary file can reach it.          *)
(***************************************************************************)
Aside == \A n \in Names : n # MT /\ dir[n] # 0 => dir[n] # ddir[MT]

\* Whatever MUSIC_TOKEN stands for, before or after a crash, was saved whole.
Whole ==
  /\ Missing \in past
  /\ dir[MT] # 0 => cache[dir[MT]] \in past /\ disk[dir[MT]] \in past
  /\ ddir[MT] # 0 => disk[ddir[MT]] \in past

(***************************************************************************)
(* What the open file is at each place of main, and how much of the token  *)
(* is where: in the file after the flush, on the disk after the sync.      *)
(***************************************************************************)
InPlace ==
  /\ pc \in {"off", "open storefront", "open token"} => fp = 0
  /\ pc = "close storefront" => fp # 0 /\ fp = dir["STOREFRONT_ID"]
  /\ pc \in {"flush token", "sync token", "close token"} => fp # 0 /\ fp = dir[TMP]
  /\ pc \in {"sync token", "close token", "rename token"} =>
       dir[TMP] # 0 /\ cache[dir[TMP]] = NonNull(token)
  /\ pc \in {"close token", "rename token"} => disk[dir[TMP]] = NonNull(token)

Directories == Apart(dir) /\ Apart(ddir) /\ Aside

IInv == TypeOK /\ Directories /\ Whole /\ InPlace

USE TokenAssumption

LEMMA Distinct == Missing # Empty /\ Missing \notin Values /\ Empty \notin Values
OBVIOUS

LEMMA InitIInv == Init => IInv
<1> SUFFICES ASSUME Init PROVE IInv
  OBVIOUS
<1>1. TypeOK
  <2>1. failed \in BOOLEAN
    BY DEF Init
  <2>2. runs \in 0..MaxRuns /\ fp \in Inodes \cup {0} /\ pc \in PCs
    BY DEF Init, PCs
  <2>3. cache \in [Inodes -> Contents] /\ disk \in [Inodes -> Contents]
    BY DEF Init, Contents
  <2>4. dir \in [Names -> Inodes \cup {0}] /\ ddir \in [Names -> Inodes \cup {0}]
    BY DEF Init
  <2> QED
    BY <2>1, <2>2, <2>3, <2>4 DEF Init, TypeOK
<1>2. \A n \in Names : dir[n] = 0 /\ ddir[n] = 0
  BY DEF Init
<1>3. MT \in Names /\ TMP \in Names
  BY DEF MT, TMP, Names
<1>4. Apart(dir) /\ Apart(ddir) /\ Aside
  BY <1>2 DEF Apart, Aside
<1>5. Whole /\ InPlace
  BY <1>2, <1>3 DEF Init, Whole, InPlace
<1> QED
  BY <1>1, <1>4, <1>5 DEF IInv, Directories

\* Seven inodes are enough for three names in two directories and one more.
LEMMA FreeInode ==
  ASSUME TypeOK, fp = 0
  PROVE  NewInode \in Inodes /\ NewInode \notin InUse
<1>1. InUse = {dir["STOREFRONT_ID"], dir["MUSIC_TOKEN"], dir["MUSIC_TOKEN.tmp"],
               ddir["STOREFRONT_ID"], ddir["MUSIC_TOKEN"], ddir["MUSIC_TOKEN.tmp"], 0}
  BY DEF InUse, Names
<1>2. \E i \in Inodes : i \notin InUse
  <2> SUFFICES ASSUME \A i \in Inodes : i \in InUse PROVE FALSE
    OBVIOUS
  <2>1. /\ 1 \in InUse /\ 2 \in InUse /\ 3 \in InUse /\ 4 \in InUse
        /\ 5 \in InUse /\ 6 \in InUse /\ 7 \in InUse
    BY DEF Inodes
  <2> QED
    BY <1>1, <2>1
<1> QED
  BY <1>2 DEF NewInode

-----------------------------------------------------------------------------
(* What the file system operations of main preserve. *)

\* Opening a file other than MUSIC_TOKEN leaves what MUSIC_TOKEN stands for.
LEMMA OpenOther ==
  ASSUME TypeOK, Directories, Whole, fp = 0, past' = past,
         NEW name \in Names, name # MT, OpenForWriting(name)
  PROVE  /\ cache' \in [Inodes -> Contents] /\ disk' \in [Inodes -> Contents]
         /\ dir' \in [Names -> Inodes \cup {0}] /\ fp' \in Inodes /\ fp' # 0
         /\ dir'[name] = fp'
         /\ \A n \in Names \ {name} : dir'[n] = dir[n]
         /\ \A n \in Names \ {name} : dir[n] # 0 =>
              dir[n] # fp' /\ cache'[dir[n]] = cache[dir[n]]
         /\ Directories' /\ Whole'
<1> DEFINE i == IF dir[name] = 0 THEN NewInode ELSE dir[name]
<1>1. MT \in Names
  BY DEF MT, Names
<1>2. i \in Inodes
  BY FreeInode DEF TypeOK
<1>3. i # 0
  BY <1>2 DEF Inodes
<1>4. \A n \in Names : n # name /\ dir[n] # 0 => dir[n] # i
  <2>1. CASE dir[name] = 0
    BY <2>1, FreeInode DEF InUse
  <2>2. CASE dir[name] # 0
    BY <2>2 DEF Directories, Apart
  <2> QED
    BY <2>1, <2>2
<1>5. ddir[MT] # 0 => ddir[MT] # i
  <2>1. CASE dir[name] = 0
    BY <2>1, <1>1, FreeInode DEF InUse
  <2>2. CASE dir[name] # 0
    BY <2>2, <1>1 DEF Directories, Aside
  <2> QED
    BY <2>1, <2>2
<1> HIDE DEF i
<1>6. /\ fp' = i
      /\ dir' = [dir EXCEPT ![name] = i]
      /\ cache' = [cache EXCEPT ![i] = Empty]
      /\ disk' = disk \/ disk' = [disk EXCEPT ![i] = Empty]
      /\ ddir' = ddir
  BY DEF OpenForWriting, i
<1>7. /\ cache \in [Inodes -> Contents] /\ disk \in [Inodes -> Contents]
      /\ dir \in [Names -> Inodes \cup {0}] /\ ddir \in [Names -> Inodes \cup {0}]
  BY DEF TypeOK
<1>8. /\ cache' \in [Inodes -> Contents] /\ disk' \in [Inodes -> Contents]
      /\ dir' \in [Names -> Inodes \cup {0}]
  BY <1>2, <1>6, <1>7 DEF Contents
<1>9. /\ dir'[name] = i
      /\ \A n \in Names : n # name => dir'[n] = dir[n]
      /\ \A j \in Inodes : j # i => cache'[j] = cache[j] /\ disk'[j] = disk[j]
  BY <1>2, <1>6, <1>7
<1>10. Apart(dir)'
  BY <1>4, <1>9 DEF Directories, Apart
<1>11. Apart(ddir)' /\ Aside'
  <2>1. Apart(ddir)'
    BY <1>6 DEF Directories, Apart
  <2>2. Aside'
    BY <1>1, <1>3, <1>5, <1>6, <1>9 DEF Directories, Aside
  <2> QED
    BY <2>1, <2>2
<1>12. Whole'
  <2>1. dir[MT] # 0 => dir[MT] \in Inodes
    BY <1>1, <1>7
  <2>2. ddir[MT] # 0 => ddir[MT] \in Inodes
    BY <1>1, <1>7
  <2> QED
    BY <2>1, <2>2, <1>1, <1>4, <1>5, <1>6, <1>9 DEF Whole
<1>13. \A n \in Names \ {name} : dir[n] # 0 => dir[n] \in Inodes /\ dir[n] # i
  BY <1>4, <1>7
<1> QED
  BY <1>2, <1>3, <1>6, <1>8, <1>9, <1>10, <1>11, <1>12, <1>13 DEF Directories

\* Writing to a file other than MUSIC_TOKEN does not reach MUSIC_TOKEN.
LEMMA WriteOther ==
  ASSUME TypeOK, Directories, Whole, UNCHANGED <<dir, ddir, past>>,
         NEW name \in Names, name # MT, dir[name] # 0,
         NEW c \in Contents, NEW d \in Contents,
         \/ cache' = [cache EXCEPT ![dir[name]] = c] /\ disk' = disk
         \/ disk' = [disk EXCEPT ![dir[name]] = d] /\ cache' = cache
  PROVE  /\ cache' \in [Inodes -> Contents] /\ disk' \in [Inodes -> Contents]
         /\ \A n \in Names \ {name} : dir[n] # 0 =>
              cache'[dir[n]] = cache[dir[n]] /\ disk'[dir[n]] = disk[dir[n]]
         /\ Directories' /\ Whole'
<1>1. MT \in Names
  BY DEF MT, Names
<1>2. /\ cache \in [Inodes -> Contents] /\ disk \in [Inodes -> Contents]
      /\ dir \in [Names -> Inodes \cup {0}] /\ ddir \in [Names -> Inodes \cup {0}]
  BY DEF TypeOK
<1>3. cache' \in [Inodes -> Contents] /\ disk' \in [Inodes -> Contents]
  BY <1>2
<1>4. \A j \in Inodes : j # dir[name] => cache'[j] = cache[j] /\ disk'[j] = disk[j]
  BY <1>2
<1>5. \A n \in Names : n # name /\ dir[n] # 0 => dir[n] \in Inodes /\ dir[n] # dir[name]
  BY <1>2 DEF Directories, Apart
<1>6. ddir[MT] # 0 => ddir[MT] \in Inodes /\ ddir[MT] # dir[name]
  BY <1>1, <1>2 DEF Directories, Aside
<1>7. Directories'
  BY DEF Directories, Apart, Aside
<1>8. Whole'
  BY <1>1, <1>4, <1>5, <1>6 DEF Whole
<1> QED
  BY <1>3, <1>4, <1>5, <1>7, <1>8

-----------------------------------------------------------------------------
(* The inductive invariant. *)

\* A step that leaves the file system alone leaves what MUSIC_TOKEN stands for.
LEMMA SameFiles ==
  ASSUME UNCHANGED <<cache, disk, dir, ddir, past>>, Directories, Whole
  PROVE  Directories' /\ Whole'
BY DEF Directories, Apart, Aside, Whole

LEMMA NonNullText ==
  ASSUME NEW v \in Values \cup {Missing}
  PROVE  NonNull(v) \in Values \cup {Empty}
BY DEF NonNull

LEMMA NextIInv == IInv /\ [Next]_vars => IInv'
<1> SUFFICES ASSUME IInv, [Next]_vars PROVE IInv'
  OBVIOUS
<1> USE DEF MT, TMP
<1>1. TypeOK /\ Directories /\ Whole /\ InPlace
  BY DEF IInv
<1>2. {"STOREFRONT_ID", MT, TMP} = Names /\ TMP # MT /\ MT # "STOREFRONT_ID" /\ TMP # "STOREFRONT_ID"
  BY DEF Names
<1>3. CASE Fetch
  <2>1. Directories' /\ Whole'
    BY <1>1, <1>3, SameFiles DEF Fetch, fsVars
  <2>2. TypeOK'
    <3>1. runs' \in 0..MaxRuns
      <4>1. runs \in 0..MaxRuns /\ MaxRuns \in Nat
        BY <1>1, TokenAssumption DEF TypeOK, TokenAssumption
      <4>2. runs' = runs + 1 /\ runs < MaxRuns
        BY <1>3 DEF Fetch
      <4> QED
        BY <4>1, <4>2
    <3>2. UNCHANGED <<cache, disk, dir, ddir, fp, past>> /\ pc' \in PCs
      BY <1>3 DEF Fetch, fsVars, PCs
    <3>3. storefront' \in Values \cup {Missing} /\ token' \in Values \cup {Missing}
      BY <1>3 DEF Fetch
    <3>4. failed' \in BOOLEAN
      BY <1>3 DEF Fetch
    <3> QED
      BY <1>1, <3>1, <3>2, <3>3, <3>4 DEF TypeOK
  <2>3. InPlace'
    BY <1>1, <1>3 DEF Fetch, fsVars, InPlace
  <2> QED
    BY <2>1, <2>2, <2>3 DEF IInv
<1>4. CASE OpenStorefront
  <2>1. CASE OpenForWriting("STOREFRONT_ID") /\ pc' = "close storefront" /\ UNCHANGED failed
    <3>1. fp = 0 /\ past' = past
      BY <1>1, <1>4 DEF OpenStorefront, InPlace
    <3>2. /\ cache' \in [Inodes -> Contents] /\ disk' \in [Inodes -> Contents]
          /\ dir' \in [Names -> Inodes \cup {0}] /\ fp' \in Inodes /\ fp' # 0
          /\ dir'["STOREFRONT_ID"] = fp' /\ Directories' /\ Whole'
      BY <1>1, <1>2, <2>1, <3>1, OpenOther
    <3>3. TypeOK'
      <4>1. /\ ddir' = ddir /\ pc' \in PCs /\ failed' = failed
            /\ UNCHANGED <<storefront, token, runs, past>>
        BY <1>4, <2>1 DEF OpenStorefront, OpenForWriting, PCs
      <4> QED
        BY <1>1, <3>2, <4>1 DEF TypeOK
    <3>4. InPlace'
      BY <2>1, <3>2 DEF InPlace
    <3> QED
      BY <3>2, <3>3, <3>4 DEF IInv
  <2>2. CASE pc' = "open token" /\ failed' = TRUE /\ UNCHANGED <<fsVars, fp>>
    <3>1. Directories' /\ Whole'
      BY <1>1, <1>4, <2>2, SameFiles DEF OpenStorefront, fsVars
    <3>2. TypeOK' /\ InPlace'
      BY <1>1, <1>4, <2>2 DEF OpenStorefront, fsVars, TypeOK, PCs, InPlace
    <3> QED
      BY <3>1, <3>2 DEF IInv
  <2> QED
    BY <1>4, <2>1, <2>2 DEF OpenStorefront
<1>5. CASE CloseStorefront
  <2>1. fp = dir["STOREFRONT_ID"] /\ fp # 0
    BY <1>1, <1>5 DEF CloseStorefront, InPlace
  <2>2. PICK c \in Contents :
          /\ cache' = [cache EXCEPT ![dir["STOREFRONT_ID"]] = c]
          /\ (c = NonNull(storefront) /\ failed' = failed) \/ failed' = TRUE
    <3>1. storefront \in Values \cup {Missing}
      BY <1>1 DEF TypeOK
    <3>2. CASE cache' = [cache EXCEPT ![fp] = NonNull(storefront)] /\ UNCHANGED failed
      BY <2>1, <3>1, <3>2, NonNullText DEF Contents
    <3>3. CASE cache' \in {[cache EXCEPT ![fp] = c] : c \in {Empty, Part}} /\ failed' = TRUE
      BY <2>1, <3>3 DEF Contents
    <3> QED
      BY <1>5, <3>2, <3>3 DEF CloseStorefront
  <2>3. /\ cache' \in [Inodes -> Contents] /\ Directories' /\ Whole'
    BY <1>1, <1>2, <1>5, <2>1, <2>2, WriteOther DEF CloseStorefront
  <2>4. TypeOK' /\ InPlace'
    BY <1>1, <1>5, <2>2, <2>3 DEF CloseStorefront, TypeOK, PCs, InPlace
  <2> QED
    BY <2>3, <2>4 DEF IInv
<1>6. CASE OpenToken
  <2>1. CASE OpenForWriting(TokenTarget) /\ pc' = "flush token"
    <3>1. fp = 0 /\ past' = past /\ TokenTarget = TMP
      BY <1>1, <1>6 DEF OpenToken, InPlace, TokenTarget
    <3>2. /\ cache' \in [Inodes -> Contents] /\ disk' \in [Inodes -> Contents]
          /\ dir' \in [Names -> Inodes \cup {0}] /\ fp' \in Inodes /\ fp' # 0
          /\ dir'[TMP] = fp' /\ Directories' /\ Whole'
          /\ \A n \in Names \ {TMP} : dir'[n] = dir[n]
          /\ \A n \in Names \ {TMP} : dir[n] # 0 => cache'[dir[n]] = cache[dir[n]]
      BY <1>1, <1>2, <2>1, <3>1, OpenOther
    <3>3. TypeOK'
      BY <1>1, <1>6, <2>1, <3>2 DEF OpenToken, OpenForWriting, TypeOK, PCs
    <3>4. InPlace'
      BY <2>1, <3>2 DEF InPlace
    <3> QED
      BY <3>2, <3>3, <3>4 DEF IInv
  <2>2. CASE pc' = "saved" /\ UNCHANGED <<fsVars, fp>>
    <3>1. Directories' /\ Whole'
      BY <1>1, <1>6, <2>2, SameFiles DEF OpenToken, fsVars
    <3>2. TypeOK' /\ InPlace'
      BY <1>1, <1>6, <2>2 DEF OpenToken, fsVars, TypeOK, PCs, InPlace
    <3> QED
      BY <3>1, <3>2 DEF IInv
  <2> QED
    BY <1>6, <2>1, <2>2 DEF OpenToken
<1>7. CASE FlushToken
  <2>1. fp = dir[TMP] /\ fp # 0
    BY <1>1, <1>7 DEF FlushToken, InPlace
  <2>2. PICK c \in Contents :
          /\ cache' = [cache EXCEPT ![dir[TMP]] = c]
          /\ (c = NonNull(token) /\ pc' = "sync token") \/ pc' = "remove token"
    <3>1. token \in Values \cup {Missing}
      BY <1>1 DEF TypeOK
    <3>2. CASE cache' = [cache EXCEPT ![fp] = NonNull(token)] /\ pc' = "sync token"
      BY <2>1, <3>1, <3>2, NonNullText DEF Contents
    <3>3. CASE cache' \in {[cache EXCEPT ![fp] = c] : c \in {Empty, Part}} /\ pc' = "remove token"
      BY <2>1, <3>3 DEF Contents
    <3> QED
      BY <1>7, <3>2, <3>3 DEF FlushToken
  <2>3. /\ cache' \in [Inodes -> Contents] /\ Directories' /\ Whole'
        /\ \A n \in Names \ {TMP} : dir[n] # 0 => cache'[dir[n]] = cache[dir[n]]
    BY <1>1, <1>2, <1>7, <2>1, <2>2, WriteOther DEF FlushToken
  <2>4. TypeOK'
    BY <1>1, <1>7, <2>2, <2>3 DEF FlushToken, TypeOK, PCs
  <2>5. InPlace'
    BY <1>1, <1>7, <2>1, <2>2 DEF FlushToken, TypeOK, InPlace
  <2> QED
    BY <2>3, <2>4, <2>5 DEF IInv
<1>8. CASE SyncToken
  <2>1. fp = dir[TMP] /\ fp # 0 /\ cache[fp] = NonNull(token)
    BY <1>1, <1>8 DEF SyncToken, InPlace
  <2>2. CASE disk' = [disk EXCEPT ![fp] = Synced] /\ pc' = "close token"
    <3>1. cache[fp] \in Contents
      BY <1>1, <2>1 DEF TypeOK
    <3>2. disk' \in [Inodes -> Contents] /\ Directories' /\ Whole'
      BY <1>1, <1>2, <1>8, <2>1, <2>2, <3>1, WriteOther DEF SyncToken, Synced
    <3>3. TypeOK'
      BY <1>1, <1>8, <2>2, <3>2 DEF SyncToken, TypeOK, PCs
    <3>4. InPlace'
      BY <1>1, <1>8, <2>1, <2>2 DEF SyncToken, Synced, TypeOK, InPlace
    <3> QED
      BY <3>2, <3>3, <3>4 DEF IInv
  <2>3. CASE pc' = "remove token" /\ UNCHANGED disk
    <3>1. Directories' /\ Whole'
      BY <1>1, <1>8, <2>3, SameFiles DEF SyncToken
    <3>2. TypeOK' /\ InPlace'
      BY <1>1, <1>8, <2>3 DEF SyncToken, TypeOK, PCs, InPlace
    <3> QED
      BY <3>1, <3>2 DEF IInv
  <2> QED
    BY <1>8, <2>2, <2>3 DEF SyncToken
<1>9. CASE CloseToken
  <2>1. Directories' /\ Whole'
    BY <1>1, <1>9, SameFiles DEF CloseToken, fsVars
  <2>2. TypeOK'
    BY <1>1, <1>9 DEF CloseToken, fsVars, TypeOK, PCs
  <2>3. InPlace'
    BY <1>1, <1>9 DEF CloseToken, fsVars, InPlace
  <2> QED
    BY <2>1, <2>2, <2>3 DEF IInv
<1>10. CASE RenameToken
  <2>1. CASE /\ dir' = [dir EXCEPT ![MT] = dir[TMP], ![TMP] = 0]
             /\ past' = past \cup {NonNull(token)}
             /\ pc' = "saved"
    <3>1. /\ dir[TMP] # 0 /\ cache[dir[TMP]] = NonNull(token) /\ disk[dir[TMP]] = NonNull(token)
      BY <1>1, <1>10 DEF RenameToken, InPlace
    <3>2. /\ dir'[MT] = dir[TMP] /\ dir'[TMP] = 0
          /\ dir'["STOREFRONT_ID"] = dir["STOREFRONT_ID"]
          /\ dir' \in [Names -> Inodes \cup {0}]
      BY <1>1, <1>2, <2>1 DEF TypeOK
    <3>3. cache' = cache /\ disk' = disk /\ ddir' = ddir /\ fp' = fp /\ token' = token
          /\ storefront' = storefront /\ failed' = failed /\ runs' = runs
      BY <1>10 DEF RenameToken
    <3>4. Directories'
      <4>1. Apart(dir)'
        BY <1>1, <1>2, <3>2 DEF Directories, Apart
      <4>2. Aside' /\ Apart(ddir)'
        BY <1>1, <1>2, <3>2, <3>3 DEF Directories, Apart, Aside
      <4> QED
        BY <4>1, <4>2 DEF Directories
    <3>5. Whole'
      BY <1>1, <2>1, <3>1, <3>2, <3>3 DEF Whole
    <3>6. TypeOK'
      <4>1. NonNull(token) \in Values \cup {Empty}
        BY <1>1, NonNullText DEF TypeOK
      <4> QED
        BY <1>1, <2>1, <3>2, <3>3, <4>1 DEF TypeOK, PCs
    <3>7. InPlace'
      BY <2>1 DEF InPlace
    <3> QED
      BY <3>4, <3>5, <3>6, <3>7 DEF IInv
  <2>2. CASE pc' = "remove token" /\ UNCHANGED <<dir, past>>
    <3>1. Directories' /\ Whole'
      BY <1>1, <1>10, <2>2, SameFiles DEF RenameToken
    <3>2. TypeOK' /\ InPlace'
      BY <1>1, <1>10, <2>2 DEF RenameToken, TypeOK, PCs, InPlace
    <3> QED
      BY <3>1, <3>2 DEF IInv
  <2> QED
    BY <1>10, <2>1, <2>2 DEF RenameToken
<1>11. CASE RemoveToken
  <2>1. /\ dir'[TMP] \in {0, dir[TMP]} /\ dir' \in [Names -> Inodes \cup {0}]
        /\ \A n \in Names \ {TMP} : dir'[n] = dir[n]
    BY <1>1, <1>2, <1>11 DEF RemoveToken, Remove, fsVars, TypeOK
  <2>2. /\ cache' = cache /\ disk' = disk /\ ddir' = ddir /\ past' = past
        /\ token' = token /\ storefront' = storefront /\ failed' = failed /\ runs' = runs
        /\ fp' = 0 /\ pc' = "saved"
    BY <1>11 DEF RemoveToken, Remove, fsVars
  <2>3. Directories' /\ Whole'
    BY <1>1, <1>2, <2>1, <2>2 DEF Directories, Apart, Aside, Whole
  <2>4. TypeOK'
    BY <1>1, <2>1, <2>2 DEF TypeOK, PCs
  <2>5. InPlace'
    BY <2>2 DEF InPlace
  <2> QED
    BY <2>3, <2>4, <2>5 DEF IInv
<1>12. CASE Kill
  <2>1. Directories' /\ Whole'
    BY <1>1, <1>12, SameFiles DEF Kill, fsVars
  <2>2. TypeOK' /\ InPlace'
    BY <1>1, <1>12 DEF Kill, fsVars, TypeOK, PCs, InPlace
  <2> QED
    BY <2>1, <2>2 DEF IInv
<1>13. CASE PowerLoss
  <2>1. TypeOK' /\ InPlace'
    BY <1>1, <1>13 DEF PowerLoss, TypeOK, PCs, InPlace
  <2>2. Directories'
    BY <1>1, <1>2, <1>13 DEF PowerLoss, Directories, Apart, Aside
  <2>3. Whole'
    BY <1>1, <1>13 DEF PowerLoss, Whole
  <2> QED
    BY <2>1, <2>2, <2>3 DEF IInv
<1>14. CASE WriteBack
  <2>1. cache' = cache /\ dir' = dir /\ past' = past /\ pc' = pc /\ fp' = fp
        /\ token' = token /\ storefront' = storefront /\ failed' = failed /\ runs' = runs
    BY <1>14 DEF WriteBack
  <2>2. CASE ddir' = dir /\ UNCHANGED disk
    <3>1. Directories'
      BY <1>1, <1>2, <2>1, <2>2 DEF Directories, Apart, Aside
    <3>2. Whole' /\ InPlace' /\ TypeOK'
      BY <1>1, <2>1, <2>2 DEF Whole, InPlace, TypeOK
    <3> QED
      BY <3>1, <3>2 DEF IInv
  <2>3. CASE /\ \E n \in Names : dir[n] # 0 /\ disk' = [disk EXCEPT ![dir[n]] = cache[dir[n]]]
             /\ UNCHANGED ddir
    <3>1. PICK n \in Names : dir[n] # 0 /\ disk' = [disk EXCEPT ![dir[n]] = cache[dir[n]]]
      BY <2>3
    <3>2. dir[n] \in Inodes /\ cache[dir[n]] \in Contents
      BY <1>1, <3>1 DEF TypeOK
    <3>3. Directories'
      BY <1>1, <2>1, <2>3 DEF Directories, Apart, Aside
    <3>4. disk' \in [Inodes -> Contents]
      BY <1>1, <3>1, <3>2 DEF TypeOK
    <3>5. Whole'
      <4>1. CASE n = MT
        BY <1>1, <1>2, <2>1, <2>3, <3>1, <3>2, <4>1 DEF Whole, TypeOK
      <4>2. CASE n # MT
        BY <1>1, <1>2, <2>1, <2>3, <3>1, <3>2, <4>2, WriteOther
      <4> QED
        BY <4>1, <4>2
    <3>6. InPlace'
      BY <1>1, <1>2, <2>1, <3>1, <3>2 DEF InPlace, TypeOK, Directories, Apart
    <3>7. TypeOK'
      BY <1>1, <2>1, <2>3, <3>4 DEF TypeOK
    <3> QED
      BY <3>3, <3>5, <3>6, <3>7 DEF IInv
  <2> QED
    BY <1>14, <2>2, <2>3 DEF WriteBack
<1>15. CASE UNCHANGED vars
  <2>1. Directories' /\ Whole'
    BY <1>1, <1>15, SameFiles DEF vars, fsVars
  <2>2. TypeOK' /\ InPlace'
    BY <1>1, <1>15 DEF vars, fsVars, TypeOK, InPlace
  <2> QED
    BY <2>1, <2>2 DEF IInv
<1> QED
  BY <1>3, <1>4, <1>5, <1>6, <1>7, <1>8, <1>9, <1>10, <1>11, <1>12, <1>13, <1>14, <1>15
     DEF Next

-----------------------------------------------------------------------------
(* Theorems. *)

\* The inductive invariant holds of every state.
THEOREM Invariance == Spec => []IInv
<1>1. Init => IInv
  BY InitIInv
<1>2. IInv /\ [Next]_vars => IInv'
  BY NextIInv
<1> QED
  BY <1>1, <1>2, PTL DEF Spec

\* Every variable of the saving keeps to its type
\* (write_storefront_id, write_music_token).
THEOREM TypeCorrect == Spec => []TypeOK
BY Invariance, PTL DEF IInv

\* A machine that goes down at any moment of a save comes back with a
\* MUSIC_TOKEN that some save had completed (write_music_token in server.c).
THEOREM TokenSurvives == Spec => []TokenSurvivesCrash
<1>1. IInv => TokenSurvivesCrash
  BY DEF IInv, Whole, TokenSurvivesCrash, Kept, MT
<1> QED
  BY <1>1, Invariance, PTL

TokenView == <<Shown("MUSIC_TOKEN"), past>>

\* Each step replaces MUSIC_TOKEN as a whole, brings an earlier value back, or
\* leaves it alone.
LEMMA StepImplemented ==
  ASSUME IInv, [Next]_vars
  PROVE  [Token!Next]_TokenView
<1> USE DEF MT, TMP
<1>1. TypeOK /\ Directories /\ Whole /\ InPlace
  BY DEF IInv
<1>2. {"STOREFRONT_ID", MT, TMP} = Names /\ TMP # MT /\ MT # "STOREFRONT_ID" /\ TMP # "STOREFRONT_ID"
  BY DEF Names
<1> DEFINE Stutter == /\ past' = past /\ dir'[MT] = dir[MT]
                      /\ dir[MT] # 0 => cache'[dir[MT]] = cache[dir[MT]]
<1>3. Stutter => UNCHANGED TokenView
  BY DEF TokenView, Shown
<1>4. UNCHANGED <<cache, dir, past>> => Stutter
  OBVIOUS
<1>5. ASSUME NEW name \in Names, name # MT, dir[name] # 0, NEW c \in Contents,
             cache' = [cache EXCEPT ![dir[name]] = c], dir' = dir, past' = past
      PROVE  Stutter
  BY <1>1, <1>2, <1>5 DEF TypeOK, Directories, Apart
<1>6. ASSUME NEW name \in Names, name # MT, OpenForWriting(name), fp = 0, past' = past
      PROVE  Stutter
  <2>1. /\ \A n \in Names \ {name} : dir'[n] = dir[n]
        /\ \A n \in Names \ {name} : dir[n] # 0 => cache'[dir[n]] = cache[dir[n]]
    BY <1>1, <1>6, OpenOther
  <2> QED
    BY <1>2, <1>6, <2>1
<1> HIDE DEF Stutter
<1>7. CASE Fetch \/ SyncToken \/ CloseToken \/ Kill \/ WriteBack \/ UNCHANGED vars
  BY <1>3, <1>4, <1>7
     DEF Fetch, SyncToken, CloseToken, Kill, WriteBack, vars, fsVars
<1>8. CASE OpenStorefront
  <2>1. fp = 0
    BY <1>1, <1>8 DEF OpenStorefront, InPlace
  <2> QED
    BY <1>2, <1>3, <1>4, <1>6, <1>8, <2>1 DEF OpenStorefront, fsVars
<1>9. CASE OpenToken
  <2>1. fp = 0
    BY <1>1, <1>9 DEF OpenToken, InPlace
  <2> QED
    BY <1>2, <1>3, <1>4, <1>6, <1>9, <2>1 DEF OpenToken, TokenTarget, fsVars
<1>10. CASE CloseStorefront
  <2>1. fp = dir["STOREFRONT_ID"] /\ fp # 0
    BY <1>1, <1>10 DEF CloseStorefront, InPlace
  <2>2. storefront \in Values \cup {Missing}
    BY <1>1 DEF TypeOK
  <2>3. NonNull(storefront) \in Contents
    BY <2>2, NonNullText DEF Contents
  <2>4. Empty \in Contents /\ Part \in Contents
    BY DEF Contents
  <2>5. \E c \in Contents : cache' = [cache EXCEPT ![dir["STOREFRONT_ID"]] = c]
    BY <1>10, <2>1, <2>3, <2>4 DEF CloseStorefront
  <2>6. dir' = dir /\ past' = past
    BY <1>10 DEF CloseStorefront
  <2> QED
    BY <1>2, <1>3, <1>5, <2>1, <2>5, <2>6
<1>11. CASE FlushToken
  <2>1. fp = dir[TMP] /\ fp # 0
    BY <1>1, <1>11 DEF FlushToken, InPlace
  <2>2. token \in Values \cup {Missing}
    BY <1>1 DEF TypeOK
  <2>3. NonNull(token) \in Contents
    BY <2>2, NonNullText DEF Contents
  <2>4. Empty \in Contents /\ Part \in Contents
    BY DEF Contents
  <2>5. \E c \in Contents : cache' = [cache EXCEPT ![dir[TMP]] = c]
    BY <1>11, <2>1, <2>3, <2>4 DEF FlushToken
  <2>6. dir' = dir /\ past' = past
    BY <1>11 DEF FlushToken
  <2> QED
    BY <1>2, <1>3, <1>5, <2>1, <2>5, <2>6
<1>12. CASE RemoveToken
  <2>1. /\ dir' = [dir EXCEPT ![TMP] = 0] \/ dir' = dir
        /\ cache' = cache /\ past' = past
    BY <1>12 DEF RemoveToken, Remove, fsVars
  <2> QED
    BY <1>1, <1>2, <1>3, <2>1 DEF TypeOK, Stutter
<1>13. CASE RenameToken
  <2>1. CASE UNCHANGED <<dir, past>>
    BY <1>3, <1>4, <1>13, <2>1 DEF RenameToken
  <2>2. CASE /\ dir' = [dir EXCEPT ![MT] = dir[TMP], ![TMP] = 0]
             /\ past' = past \cup {NonNull(token)}
    <3>1. dir'[MT] = dir[TMP] /\ dir[TMP] # 0
      BY <1>1, <1>2, <1>13, <2>2 DEF RenameToken, TypeOK, InPlace
    <3>2. cache'[dir[TMP]] = NonNull(token)
      BY <1>1, <1>13 DEF RenameToken, InPlace
    <3>3. NonNull(token) \in Values \cup {Empty}
      BY <1>1, NonNullText DEF TypeOK
    <3>4. Token!Put(NonNull(token))
      BY <2>2, <3>1, <3>2 DEF Token!Put, Shown
    <3> QED
      BY <3>3, <3>4 DEF Token!Next
  <2> QED
    BY <1>13, <2>1, <2>2 DEF RenameToken
<1>14. CASE PowerLoss
  <2>1. dir'[MT] = ddir[MT] /\ cache' = disk /\ past' = past
    BY <1>14 DEF PowerLoss
  <2>2. ddir[MT] = 0 => Token!Revert(Missing) /\ Missing \in past
    BY <1>1, <2>1 DEF Token!Revert, Shown, Whole
  <2>3. ddir[MT] # 0 => Token!Revert(disk[ddir[MT]]) /\ disk[ddir[MT]] \in past
    BY <1>1, <2>1 DEF Token!Revert, Shown, Whole
  <2> QED
    BY <2>2, <2>3 DEF Token!Next
<1> QED
  BY <1>7, <1>8, <1>9, <1>10, <1>11, <1>12, <1>13, <1>14 DEF Next

\* MUSIC_TOKEN is an atomic file (AtomicFile.tla), through kills of the process
\* and crashes of the machine.
THEOREM TokenImplemented == Spec => TokenFileAtomic
<1>1. Init => Token!Init
  BY DEF Init, Token!Init, Shown, Names
<1>2. IInv /\ [Next]_vars => [Token!Next]_TokenView
  BY StepImplemented
<1> QED
  BY <1>1, <1>2, Invariance, PTL DEF Spec, TokenFileAtomic, Token!Spec, TokenView
=============================================================================
