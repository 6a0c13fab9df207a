----------------------------- MODULE BuildScripts ----------------------------
(***************************************************************************)
(* The two scripts that rewrite binary files when the image is built:      *)
(* scripts/build_tzdata.py packs zone files behind an index, and           *)
(* scripts/patch_elf.py takes entries out of the dynamic table of an ELF   *)
(* file.  A file is a sequence of bytes to the first and a sequence of     *)
(* entries, the slots of its dynamic table, to the second.                 *)
(***************************************************************************)
EXTENDS Integers, Sequences, SequencesExt, Folding

CONSTANTS
  NULL,
  MinLength,   \* bytes a zone file has at least
  HeaderSize,  \* bytes of tzdata before its index
  EntrySize    \* INDEX_ENTRY_SIZE

-----------------------------------------------------------------------------
(* build_tzdata.py *)

\* zone_sources
ZoneNames == <<"GMT", "posixrules">>

\* The order of their names.
Before(a, b) == a.name = "GMT" /\ b.name # "GMT"

\* Each zone with the offset its data has if it is written in this order.
Placed(files) ==
  LET current[i \in 1..Len(ZoneNames)] ==
        IF i = 1 THEN 0 ELSE current[i - 1] + Len(files[ZoneNames[i - 1]])
  IN [i \in 1..Len(ZoneNames) |->
        [name |-> ZoneNames[i], data |-> files[ZoneNames[i]], offset |-> current[i]]]

\* The entries in the order of their names.
Sorted(zones) ==
  CHOOSE s \in [1..Len(zones) -> {zones[i] : i \in 1..Len(zones)}] :
    /\ \A i \in 1..Len(zones) : \E j \in 1..Len(zones) : s[j] = zones[i]
    /\ \A i, j \in 1..Len(zones) : Before(s[i], s[j]) => i < j

\* The file, with the two offsets of its header, the index and the data, or NULL
\* for a zone file that is too short.
Tzdata(files) ==
  LET zones == Sorted(Placed(files))
      data == FlattenSeq([i \in 1..Len(zones) |-> zones[i].data])
      dataOffset == HeaderSize + Len(zones) * EntrySize
  IN IF \E i \in 1..Len(ZoneNames) : Len(files[ZoneNames[i]]) < MinLength THEN NULL
     ELSE [bytes |-> [i \in 1..dataOffset |-> "header or index"] \o data,
           index |-> [i \in 1..Len(zones) |->
                        [name |-> zones[i].name, offset |-> zones[i].offset,
                         length |-> Len(zones[i].data)]],
           dataOffset |-> dataOffset,
           zoneTabOffset |-> dataOffset + Len(data)]

-----------------------------------------------------------------------------
(* patch_elf.py *)

RemoveTags == {"RUNPATH", "GNU_HASH", "VERNEED", "VERNEEDNUM"}
NullEntry == [tag |-> "NULL", value |-> {}]

\* The value counts where it is a set of flags.
Entry == [tag : STRING, value : SUBSET STRING]

\* What comes before the first DT_NULL: all that a loader sees.
Live(slots) ==
  LET end == SelectInSeq(slots, LAMBDA e : e.tag = "NULL") IN SubSeq(slots, 1, end - 1)

Unpie(entry) ==
  IF entry.tag = "FLAGS_1" THEN [entry EXCEPT !.value = @ \ {"PIE"}] ELSE entry

Update_InPlace ==
  [updated \in Seq(Entry) |-> [entry \in Entry |->
     Append(updated, IF entry.tag \in RemoveTags THEN NullEntry ELSE Unpie(entry))]]

\* One round of the loop over the entries.
Update ==
  [updated \in Seq(Entry) |-> [entry \in Entry |->
     IF entry.tag \in RemoveTags THEN updated ELSE Append(updated, Unpie(entry))]]

Updated(entries) == Fold(Update, <<>>, entries)

Changed(entries) ==
  \E i \in 1..Len(entries) : entries[i].tag \in RemoveTags \/ Unpie(entries[i]) # entries[i]

\* patch_elf_file: the slots of the file after it, and whether it was patched,
\* kept or refused for want of a DT_NULL.
PatchElfFile(slots) ==
  LET updated == Updated(Live(slots))
      padding == [i \in 1..Len(slots) - Len(updated) |-> NullEntry]
  IN IF \A i \in 1..Len(slots) : slots[i].tag # "NULL" THEN [slots |-> slots, how |-> "failed"]
     ELSE IF ~Changed(Live(slots)) THEN [slots |-> slots, how |-> "kept"]
     ELSE [slots |-> updated \o padding, how |-> "patched"]
=============================================================================
